--------------------------- MODULE ControllerProofs ---------------------------
(***************************************************************************)
(* The two sides of the controller.  The client's: the ring of CtrlQueue   *)
(* implements the bounded fifo, whatever its size, the number of writers   *)
(* and the messages.  The server's: what CtrlConnection replays is what    *)
(* was sent, in order and all of it, whatever the messages, the clients    *)
(* and the buffer, as long as recv cuts no message but the first in the    *)
(* buffer; and the keys that RemoteInput holds down are the users'.        *)
(***************************************************************************)
EXTENDS CtrlQueue, RemoteInput, ListLemmas

(***************************************************************************)
(* The inductive invariant: besides the types and the unit that is being   *)
(* sent, what has been sent is what that unit still holds.                 *)
(***************************************************************************)
SentIsHead ==
    IF cpc = "release" THEN delivered = qbuffer[qhead] ELSE delivered = NoMsg

QueueInv == QueueTypeOK /\ ReleasesWhatWasSent /\ SentIsHead

Cell == Msg \cup {NoMsg}

(* The sequence of messages that the ring holds.                           *)
InRing == [i \in 1..Count |-> qbuffer[At(i - 1)]]

-----------------------------------------------------------------------------
(* The ring starts empty.                                                  *)
LEMMA QueueInvInit == QueueInit => QueueInv
<1> SUFFICES ASSUME QueueInit PROVE QueueInv
  OBVIOUS
<1> USE QueueAssumption
<1>1. QueueTypeOK
  BY DEF QueueInit, QueueTypeOK, Unit
<1>2. ReleasesWhatWasSent /\ SentIsHead
  BY DEF QueueInit, ReleasesWhatWasSent, SentIsHead
<1>3. QED
  BY <1>1, <1>2 DEF QueueInv

(* The unit after a unit of the ring is one of them, too.                  *)
LEMMA AfterUnit ==
    ASSUME NEW u \in Unit
    PROVE  After(u) \in Unit
  BY QueueAssumption DEF After, Unit

(* Every step of a writer or of the control thread keeps the invariant.    *)
LEMMA QueueInvNext == QueueInv /\ [QueueNext]_queueVars => QueueInv'
<1> SUFFICES ASSUME QueueInv, [QueueNext]_queueVars PROVE QueueInv'
  OBVIOUS
<1> USE QueueAssumption
<1>0. QueueTypeOK /\ ReleasesWhatWasSent /\ SentIsHead
  BY DEF QueueInv
<1>1. ASSUME NEW w \in Writer, NEW m \in Msg, ctrl_queue_write_msg(w, m) PROVE QueueInv'
  <2>1. After(qtail) \in Unit /\ qtail \in Unit /\ After(qtail) # qhead
    BY <1>0, <1>1, AfterUnit DEF QueueTypeOK, ctrl_queue_write_msg, Full
  <2>2. QueueTypeOK'
    BY <1>0, <1>1, <2>1 DEF QueueTypeOK, ctrl_queue_write_msg
  <2>3. ReleasesWhatWasSent'
    BY <1>0, <1>1, <2>1 DEF ReleasesWhatWasSent, ctrl_queue_write_msg
  <2>4. SentIsHead'
    <3>1. CASE cpc = "release"
      <4>1. qhead # qtail /\ qbuffer'[qhead] = qbuffer[qhead]
        BY <1>0, <1>1, <3>1 DEF ReleasesWhatWasSent, QueueTypeOK, ctrl_queue_write_msg
      <4>2. QED
        BY <1>0, <1>1, <3>1, <4>1 DEF SentIsHead, ctrl_queue_write_msg
    <3>2. CASE cpc # "release"
      BY <1>0, <1>1, <3>2 DEF SentIsHead, ctrl_queue_write_msg
    <3>3. QED
      BY <3>1, <3>2
  <2>5. QED
    BY <2>2, <2>3, <2>4 DEF QueueInv
<1>2. ASSUME NEW w \in Writer, write_signal(w) PROVE QueueInv'
  BY <1>0, <1>2
     DEF QueueInv, QueueTypeOK, ReleasesWhatWasSent, SentIsHead, write_signal, ring
<1>3. CASE ctrl_client_init \/ client_wait \/ spurious_wakeup
  BY <1>0, <1>3 DEF QueueInv, QueueTypeOK, ReleasesWhatWasSent, SentIsHead,
     ctrl_client_init, client_wait, spurious_wakeup, ring
<1>4. CASE ctrl_queue_read_msg
  BY <1>0, <1>4 DEF QueueInv, QueueTypeOK, ReleasesWhatWasSent, SentIsHead,
     ctrl_queue_read_msg, ring
<1>5. CASE queue_send
  <2>1. qm \in Unit /\ qbuffer[qm] \in Msg \cup {NoMsg} /\ qm = qhead
    BY <1>0, <1>5 DEF QueueTypeOK, ReleasesWhatWasSent, queue_send
  <2>2. QED
    BY <1>0, <1>5, <2>1 DEF QueueInv, QueueTypeOK, ReleasesWhatWasSent, SentIsHead,
       queue_send, ring
<1>6. CASE ctrl_queue_release_msg
  <2>1. After(qhead) \in Unit
    BY <1>0, AfterUnit DEF QueueTypeOK
  <2>2. QED
    BY <1>0, <1>6, <2>1 DEF QueueInv, QueueTypeOK, ReleasesWhatWasSent, SentIsHead,
       ctrl_queue_release_msg
<1>7. CASE UNCHANGED queueVars
  BY <1>0, <1>7 DEF QueueInv, QueueTypeOK, ReleasesWhatWasSent, SentIsHead, queueVars, ring
<1>8. QED
  BY <1>1, <1>2, <1>3, <1>4, <1>5, <1>6, <1>7 DEF QueueNext, Control, Write

(* The invariant holds in every reachable state, for any ring, writers and *)
(* messages.                                                               *)
THEOREM QueueCorrect == QueueSpec => []QueueInv
<1>1. QED
  BY QueueInvInit, QueueInvNext, PTL DEF QueueSpec

(* A unit of the ring stays its head while it is sent and until it is       *)
(* released, for any ring, writers and messages.                            *)
THEOREM ReleasesCorrect == QueueSpec => []ReleasesWhatWasSent
<1>1. QueueInv => ReleasesWhatWasSent
  BY DEF QueueInv
<1>2. QED
  BY <1>1, QueueCorrect, PTL

-----------------------------------------------------------------------------
(* How many messages the ring holds, and where they are.                   *)
LEMMA RingIndex ==
    ASSUME QueueTypeOK
    PROVE  /\ Count \in 0..Units - 1
           /\ \A i \in 0..Units - 1 : At(i) \in Unit
           /\ \A i \in 0..Count - 1 : At(i) # qtail
           /\ At(Count) = qtail
           /\ Count = 0 <=> qhead = qtail
           /\ At(0) = qhead
  BY QueueAssumption DEF QueueTypeOK, Count, At, Unit

(* What is in the ring is as many cells as Count says.                     *)
LEMMA InRingType ==
    ASSUME QueueTypeOK
    PROVE  InRing \in Seq(Cell) /\ Len(InRing) = Count
<1>1. /\ Count \in Nat /\ Count - 1 < Units
      /\ \A i \in 1..Count : i - 1 \in 0..Units - 1
  BY RingIndex, QueueAssumption
<1>2. \A i \in 1..Count : qbuffer[At(i - 1)] \in Cell
  BY <1>1, RingIndex DEF QueueTypeOK, Cell
<1>3. QED
  BY <1>1, <1>2 DEF InRing

(* A message that is written comes last in the ring.                       *)
LEMMA WriteAppends ==
    ASSUME QueueTypeOK, QueueTypeOK', ~Full, UNCHANGED qhead, NEW m \in Msg,
           qbuffer' = [qbuffer EXCEPT ![qtail] = m], qtail' = After(qtail)
    PROVE  Count < Units - 1 /\ InRing' = Append(InRing, m)
<1>1. Count < Units - 1 /\ Count' = Count + 1
  BY QueueAssumption DEF QueueTypeOK, Full, After, Count, Unit
<1>2. \A i \in 0..Units - 1 : At(i)' = At(i)
  BY DEF At
<1>3. ASSUME NEW i \in 1..Count PROVE qbuffer'[At(i - 1)'] = qbuffer[At(i - 1)]
  <2>1. i - 1 \in 0..Count - 1 /\ i - 1 \in 0..Units - 1
    BY RingIndex, QueueAssumption
  <2>2. At(i - 1) \in Unit /\ At(i - 1) # qtail /\ At(i - 1)' = At(i - 1)
    BY <1>2, <2>1, RingIndex
  <2>3. QED
    BY <2>2 DEF QueueTypeOK
<1>4. PICK n \in 0..Units - 1 : n = Count
  BY RingIndex
<1>5. qbuffer'[At(n)'] = m
  <2>1. At(n)' = qtail /\ qtail \in Unit
    BY <1>2, <1>4, RingIndex DEF QueueTypeOK
  <2>2. QED
    BY <2>1 DEF QueueTypeOK
<1>6. /\ Append(InRing, m) \in Seq(Cell) /\ Len(Append(InRing, m)) = n + 1
      /\ \A i \in 1..n : Append(InRing, m)[i] = InRing[i]
      /\ Append(InRing, m)[n + 1] = m
  <2>1. m \in Cell
    BY DEF Cell
  <2>2. QED
    BY <1>4, <2>1, InRingType, AppendProperties
<1>7. \A i \in 1..n : InRing[i] = qbuffer[At(i - 1)]
  BY <1>4 DEF InRing
<1>8. \A i \in 1..n + 1 : qbuffer'[At(i - 1)'] = Append(InRing, m)[i]
  <2> TAKE i \in 1..n + 1
  <2>1. CASE i \in 1..n
    <3>1. qbuffer'[At(i - 1)'] = qbuffer[At(i - 1)]
      BY <1>3, <1>4, <2>1
    <3>2. QED
      BY <1>6, <1>7, <2>1, <3>1
  <2>2. CASE i = n + 1
    <3>1. i - 1 = n
      BY <1>4, <2>2
    <3>2. qbuffer'[At(i - 1)'] = m
      BY <1>5, <3>1 DEF At
    <3>3. QED
      BY <1>6, <2>2, <3>2
  <2>3. n \in Nat /\ (i \in 1..n \/ i = n + 1)
    BY QueueAssumption
  <2>4. QED
    BY <2>1, <2>2, <2>3
<1>9. InRing' = [i \in 1..n + 1 |-> qbuffer'[At(i - 1)']]
  BY <1>1, <1>4 DEF InRing
<1>10. InRing' = Append(InRing, m)
  <2> DEFINE a == Append(InRing, m)
             r == [i \in 1..n + 1 |-> qbuffer'[At(i - 1)']]
  <2>1. a \in Seq(Cell) /\ Len(a) = n + 1 /\ \A i \in 1..n + 1 : r[i] = a[i]
    BY <1>6, <1>8
  <2>2. r \in Seq(Cell) /\ Len(r) = n + 1
    <3>1. \A i \in 1..n + 1 : a[i] \in Cell
      BY <2>1, ElementOfSeq
    <3>2. \A i \in 1..n + 1 : qbuffer'[At(i - 1)'] \in Cell
      BY <1>8, <3>1
    <3>3. QED
      BY <1>4, <3>2
  <2> HIDE DEF a, r
  <2>3. r = a
    BY <2>1, <2>2, SeqEqual
  <2>4. QED
    BY <1>9, <2>3 DEF a, r
<1>11. QED
  BY <1>1, <1>10

(* A ring that is not empty begins with the message at qhead.              *)
LEMMA HeadOfRing ==
    ASSUME QueueTypeOK, qhead # qtail
    PROVE  InRing # <<>> /\ Head(InRing) = qbuffer[qhead]
<1>1. Count \in Nat /\ Count > 0 /\ At(0) = qhead
  BY RingIndex, QueueAssumption
<1>2. InRing \in Seq(Cell) /\ Len(InRing) = Count /\ InRing[1] = qbuffer[At(0)]
  BY <1>1, InRingType DEF InRing
<1>3. QED
  BY <1>1, <1>2, EmptySeq, HeadTailProperties

(* Releasing the head removes the first message.                           *)
LEMMA ReleaseRemoves ==
    ASSUME QueueTypeOK, QueueTypeOK', qhead # qtail, UNCHANGED <<qbuffer, qtail>>,
           qhead' = After(qhead)
    PROVE  InRing # <<>> /\ Head(InRing) = qbuffer[qhead] /\ InRing' = Tail(InRing)
<1>1. Count > 0 /\ Count' = Count - 1
  BY QueueAssumption DEF QueueTypeOK, After, Count, Unit
<1>2. \A i \in 0..Count - 2 : At(i)' = At(i + 1)
  BY QueueAssumption DEF QueueTypeOK, After, Count, Unit, At
<1>3. PICK n \in 1..Units - 1 : n = Count
  BY <1>1, RingIndex
<1>4. /\ InRing \in Seq(Cell) /\ Len(InRing) = n
      /\ \A i \in 1..n : InRing[i] = qbuffer[At(i - 1)]
  BY <1>3, InRingType DEF InRing
<1>5. InRing # <<>> /\ Head(InRing) = qbuffer[qhead]
  BY HeadOfRing
<1>6. /\ Tail(InRing) \in Seq(Cell) /\ Len(Tail(InRing)) = n - 1
      /\ \A i \in 1..n - 1 : Tail(InRing)[i] = InRing[i + 1]
  BY <1>4, <1>5, HeadTailProperties
<1>7. \A i \in 1..n - 1 : qbuffer'[At(i - 1)'] = Tail(InRing)[i]
  <2> TAKE i \in 1..n - 1
  <2>1. i - 1 \in 0..Count - 2 /\ i + 1 \in 1..n /\ (i - 1) + 1 = (i + 1) - 1
    BY <1>3
  <2>2. At(i - 1)' = At((i + 1) - 1)
    BY <1>2, <2>1
  <2>3. QED
    BY <1>4, <1>6, <2>1, <2>2
<1>8. InRing' = [i \in 1..n - 1 |-> qbuffer'[At(i - 1)']]
  BY <1>1, <1>3 DEF InRing
<1>9. InRing' = Tail(InRing)
  <2> DEFINE a == Tail(InRing)
             r == [i \in 1..n - 1 |-> qbuffer'[At(i - 1)']]
  <2>1. a \in Seq(Cell) /\ Len(a) = n - 1 /\ \A i \in 1..n - 1 : r[i] = a[i]
    BY <1>6, <1>7
  <2>2. r \in Seq(Cell) /\ Len(r) = n - 1
    <3>1. \A i \in 1..n - 1 : a[i] \in Cell
      BY <2>1, ElementOfSeq
    <3>2. \A i \in 1..n - 1 : qbuffer'[At(i - 1)'] \in Cell
      BY <1>7, <3>1
    <3>3. QED
      BY <1>3, <3>2
  <2> HIDE DEF a, r
  <2>3. r = a
    BY <2>1, <2>2, SeqEqual
  <2>4. QED
    BY <1>8, <2>3 DEF a, r
<1>10. QED
  BY <1>5, <1>9

(* Every step of the threads is a step of the fifo or leaves it alone.     *)
LEMMA StepImplements == QueueInv /\ [QueueNext]_queueVars => [BF!BFNext]_(BF!bfvars)
<1> SUFFICES ASSUME QueueInv, [QueueNext]_queueVars PROVE [BF!BFNext]_(BF!bfvars)
  OBVIOUS
<1>0. QueueTypeOK /\ ReleasesWhatWasSent /\ SentIsHead /\ QueueTypeOK'
  BY QueueInvNext DEF QueueInv
<1>1. ASSUME NEW w \in Writer, NEW m \in Msg, ctrl_queue_write_msg(w, m)
      PROVE  BF!Accept(m)
  <2>1. Count < Units - 1 /\ InRing' = Append(InRing, m)
    BY <1>0, <1>1, WriteAppends DEF ctrl_queue_write_msg
  <2>2. Len(InRing) = Count
    BY <1>0, InRingType
  <2>3. QED
    BY <1>1, <2>1, <2>2 DEF BF!Accept, InRing, ctrl_queue_write_msg
<1>2. ASSUME UNCHANGED <<ring, delivered>> PROVE UNCHANGED BF!bfvars
  BY <1>2 DEF BF!bfvars, ring, Count, At
<1>3. CASE queue_send
  <2>1. CASE UNCHANGED delivered
    BY <1>2, <1>3, <2>1 DEF queue_send
  <2>2. CASE delivered' = qbuffer[qm]
    <3>1. qm = qhead /\ qhead # qtail /\ delivered = NoMsg /\ UNCHANGED ring
      BY <1>0, <1>3 DEF ReleasesWhatWasSent, SentIsHead, queue_send
    <3>2. InRing # <<>> /\ Head(InRing) = qbuffer[qhead]
      BY <1>0, <3>1, HeadOfRing
    <3>3. BF!Deliver
      BY <2>2, <3>1, <3>2 DEF BF!Deliver, InRing, ring, Count, At
    <3>4. QED
      BY <3>3 DEF BF!BFNext
  <2>3. QED
    BY <1>3, <2>1, <2>2 DEF queue_send
<1>4. CASE ctrl_queue_release_msg
  <2>1. qhead # qtail /\ delivered = qbuffer[qhead] /\ delivered' = NoMsg
        /\ UNCHANGED <<qbuffer, qtail>> /\ qhead' = After(qhead)
    BY <1>0, <1>4 DEF ReleasesWhatWasSent, SentIsHead, ctrl_queue_release_msg
  <2>2. InRing # <<>> /\ Head(InRing) = qbuffer[qhead] /\ InRing' = Tail(InRing)
    BY <1>0, <2>1, ReleaseRemoves
  <2>3. BF!Remove
    BY <2>1, <2>2 DEF BF!Remove, InRing
  <2>4. QED
    BY <2>3 DEF BF!BFNext
<1>5. ASSUME NEW w \in Writer, write_signal(w) PROVE UNCHANGED <<ring, delivered>>
  BY <1>5 DEF write_signal
<1>6. CASE ctrl_client_init \/ client_wait \/ spurious_wakeup \/ ctrl_queue_read_msg
  BY <1>2, <1>6 DEF ctrl_client_init, client_wait, spurious_wakeup, ctrl_queue_read_msg
<1>7. CASE UNCHANGED queueVars
  BY <1>2, <1>7 DEF queueVars
<1>8. QED
  BY <1>1, <1>2, <1>3, <1>4, <1>5, <1>6, <1>7 DEF QueueNext, Control, Write, BF!BFNext

(***************************************************************************)
(* The ring, the writers and the control thread implement the bounded      *)
(* fifo: messages are sent in the order in which they were written, each   *)
(* once and unchanged, and one is refused only by a ring of Units - 1.     *)
(***************************************************************************)
THEOREM FifoCorrect == QueueSpec => ImplementsBoundedFifo
<1>1. QueueInit => BF!BFInit
  <2> SUFFICES ASSUME QueueInit PROVE BF!BFInit
    OBVIOUS
  <2>1. Count = 0 /\ delivered = NoMsg
    BY DEF QueueInit, Count
  <2>2. QED
    BY <2>1 DEF BF!BFInit
<1>2. QED
  BY <1>1, QueueCorrect, StepImplements, PTL
     DEF QueueSpec, ImplementsBoundedFifo, BF!BFSpec
-----------------------------------------------------------------------------
(***************************************************************************)
(* Strings of bytes.                                                       *)
(***************************************************************************)
Byte == 0..255

(* A slice of the buffer is a string of bytes,                             *)
LEMMA WindowBytes ==
    ASSUME NEW b \in [0..BufLen - 1 -> Byte], NEW h \in Nat, NEW n \in Nat, h + n <= BufLen
    PROVE  /\ Slice(b, h, n) \in Seq(Byte) /\ Len(Slice(b, h, n)) = n
           /\ \A i \in 1..n : Slice(b, h, n)[i] = b[h + i - 1]
<1>1. \A i \in 1..n : b[h + i - 1] \in Byte
  <2> TAKE i \in 1..n
  <2>1. h + i - 1 \in 0..BufLen - 1
    BY ConnectionAssumption
  <2>2. QED
    BY <2>1
<1>2. QED
  BY <1>1 DEF Slice

(* the one with which it agrees everywhere.                                *)
LEMMA WindowIs ==
    ASSUME NEW b \in [0..BufLen - 1 -> Byte], NEW h \in Nat, NEW n \in Nat, h + n <= BufLen,
           NEW t \in Seq(Byte), Len(t) = n, \A i \in 1..n : b[h + i - 1] = t[i]
    PROVE  Slice(b, h, n) = t
<1>1. /\ Slice(b, h, n) \in Seq(Byte) /\ Len(Slice(b, h, n)) = n
      /\ \A i \in 1..n : Slice(b, h, n)[i] = t[i]
  BY WindowBytes, ZenonT(30)
<1>2. QED
  BY <1>1, SeqEqual

-----------------------------------------------------------------------------
(***************************************************************************)
(* Messages, and streams of them.                                          *)
(***************************************************************************)

(* A message is a string of bytes that starts with its size.               *)
LEMMA MessageShape ==
    ASSUME NEW m \in Messages
    PROVE  m \in Seq(Byte) /\ Len(m) \in 2..BufLen /\ m[1] * 256 + m[2] = Len(m)
  BY ConnectionAssumption DEF Byte

(* A list of messages has a stream of bytes.                               *)
LEMMA StreamBytes ==
    ASSUME NEW q \in Seq(Messages)
    PROVE  q \in Seq(Seq(Byte)) /\ FlattenSeq(q) \in Seq(Byte)
<1>1. Messages \subseteq Seq(Byte)
  BY MessageShape
<1>2. q \in Seq(Seq(Byte))
  BY <1>1, SeqMonotonic
<1>3. QED
  BY <1>2, FlattenType

(* The stream begins with the first message and goes on with the others.   *)
LEMMA FirstMessage ==
    ASSUME NEW q \in Seq(Messages), q # <<>>
    PROVE  /\ Head(q) \in Messages /\ Tail(q) \in Seq(Messages)
           /\ FlattenSeq(q) = Head(q) \o FlattenSeq(Tail(q))
           /\ q = <<Head(q)>> \o Tail(q)
<1>1. Head(q) \in Messages /\ Tail(q) \in Seq(Messages)
  BY HeadTailProperties
<1>2. FlattenSeq(q) = Head(q) \o FlattenSeq(Tail(q))
  BY StreamBytes, FlattenHead
<1>3. q = <<Head(q)>> \o Tail(q)
  BY HeadTailProperties, ConcatProperties, SeqEqual
<1>4. QED
  BY <1>1, <1>2, <1>3

(* Only a list without messages has an empty stream; any other has at      *)
(* least the bytes of its first message.                                   *)
LEMMA StreamLength ==
    ASSUME NEW q \in Seq(Messages), q # <<>>
    PROVE  /\ Len(FlattenSeq(q)) \in Nat /\ Len(FlattenSeq(q)) >= Len(Head(q))
           /\ Len(Head(q)) \in 2..BufLen
           /\ FlattenSeq(q) # <<>>
<1>1. /\ Head(q) \in Seq(Byte) /\ FlattenSeq(Tail(q)) \in Seq(Byte)
      /\ FlattenSeq(q) = Head(q) \o FlattenSeq(Tail(q))
      /\ Len(Head(q)) \in 2..BufLen
  BY FirstMessage, MessageShape, StreamBytes, ZenonT(30)
<1>2. /\ Len(FlattenSeq(q)) = Len(Head(q)) + Len(FlattenSeq(Tail(q)))
      /\ Len(FlattenSeq(Tail(q))) \in Nat
  BY <1>1, ConcatProperties, LenProperties
<1>3. Len(FlattenSeq(q)) \in Nat /\ Len(FlattenSeq(q)) >= Len(Head(q))
  BY <1>1, <1>2, ConnectionAssumption
<1>4. QED
  BY <1>1, <1>3, EmptySeq, ConnectionAssumption

(***************************************************************************)
(* Between the client and the replay: the bytes in the buffer that are not *)
(* parsed yet, and the ones still on the way.                              *)
(***************************************************************************)
InBuffer == Slice(buf, bufhead, buflen)

(* The messages of q are what is in the buffer and on the way.             *)
Ahead(q) ==
    /\ sent[cur] = replayed \o q
    /\ FlattenSeq(q) = InBuffer \o wire[cur]

(* Before the next recv there is less than a message in the buffer.        *)
LessThanOne(q) == bufhead = 0 /\ (q # <<>> => buflen < Len(Head(q)))

(* After it, either whole messages, or no more than the first.             *)
WholeOrFirst(q) ==
    \/ \E s \in Seq(Messages) : s # <<>> /\ InBuffer = FlattenSeq(s)
    \/ bufhead = 0 /\ q # <<>> /\ buflen <= Len(Head(q))

(* All that a client has sent is on the way, its handshake first.          *)
Greeted(c) == \E h \in Handshakes : wire[c] = h \o FlattenSeq(sent[c])

ConnTypes ==
    /\ client \in [Client -> {"absent", "connected", "accepted", "closed"}]
    /\ sent \in [Client -> Seq(Messages)]
    /\ cur \in Client \cup {NoClient}
    /\ buf \in [0..BufLen - 1 -> 0..255]
    /\ bufhead \in 0..BufLen /\ buflen \in 0..BufLen - bufhead
    /\ replayed \in Seq(Messages)

(* Over TCP: what was sent is replayed, in the buffer or on the way.       *)
StreamInv ==
    /\ wire \in [Client -> Seq(0..255)]
    /\ pc \in {"accept", "handshake", "recv", "parse"}
    /\ pc = "accept" <=> cur = NoClient
    /\ cur # NoClient => client[cur] \in {"accepted", "closed"}
    /\ \A c \in Client : client[c] = "absent" => sent[c] = <<>>
    /\ \A c \in Client : client[c] = "connected" => Greeted(c)
    /\ pc = "handshake" => Greeted(cur) /\ replayed = <<>>
    /\ pc = "recv"  => \E q \in Seq(Messages) : Ahead(q) /\ LessThanOne(q)
    /\ pc = "parse" => \E q \in Seq(Messages) : Ahead(q) /\ WholeOrFirst(q)

(* Over UDP: one datagram is in the buffer, and is forgotten thereafter.   *)
DatagramInv ==
    /\ wire \in [Client -> Seq(Messages)]
    /\ pc \in {"recv", "parse"}
    /\ bufhead = 0
    /\ pc = "parse" => InBuffer \in Messages \cup Malformed

(* The invariant of the connection.                                        *)
ConnInv ==
    /\ Tidy
    /\ ctrlproto \in Protos
    /\ ConnTypes
    /\ ctrlproto = "tcp" => StreamInv
    /\ ctrlproto = "udp" => DatagramInv

-----------------------------------------------------------------------------
(* The bytes in the buffer are as many as buflen says.                     *)
LEMMA BufferBytes ==
    ASSUME ConnTypes
    PROVE  /\ bufhead \in Nat /\ buflen \in Nat /\ bufhead + buflen <= BufLen
           /\ InBuffer \in Seq(Byte) /\ Len(InBuffer) = buflen
           /\ \A i \in 1..buflen : InBuffer[i] = buf[bufhead + i - 1]
<1>1. /\ bufhead \in Nat /\ buflen \in Nat /\ bufhead + buflen <= BufLen
      /\ buf \in [0..BufLen - 1 -> Byte]
  BY ConnectionAssumption, SMTT(30) DEF ConnTypes, Byte
<1>2. QED
  BY <1>1, WindowBytes DEF InBuffer

(* If what is in the buffer, with what follows, begins with a message, the *)
(* size at bufhead is that of the message,                                 *)
LEMMA SizeAtHead ==
    ASSUME ConnTypes, NEW m \in Messages, NEW w \in Seq(Byte), NEW r \in Seq(Byte),
           InBuffer \o w = m \o r, buflen >= 2
    PROVE  MsgLen = Len(m)
<1>1. /\ InBuffer \in Seq(Byte) /\ Len(InBuffer) = buflen /\ bufhead \in Nat /\ buflen \in Nat
      /\ \A i \in 1..buflen : InBuffer[i] = buf[bufhead + i - 1]
  BY BufferBytes
<1>2. m \in Seq(Byte) /\ Len(m) \in Nat /\ Len(m) >= 2 /\ m[1] * 256 + m[2] = Len(m)
  BY MessageShape, ConnectionAssumption
<1>3. 1 \in 1..buflen /\ 2 \in 1..buflen /\ 1 \in 1..Len(m) /\ 2 \in 1..Len(m)
  BY <1>1, <1>2
<1>4. InBuffer[1] = m[1] /\ InBuffer[2] = m[2]
  BY <1>1, <1>2, <1>3, SameStart, SMTT(30)
<1>5. InBuffer[1] = buf[bufhead] /\ InBuffer[2] = buf[bufhead + 1]
  <2>1. bufhead + 1 - 1 = bufhead /\ bufhead + 2 - 1 = bufhead + 1
    BY <1>1
  <2>2. QED
    BY <1>1, <1>3, <2>1
<1>6. QED
  BY <1>2, <1>4, <1>5 DEF MsgLen

(* and if all of it is there, those bytes are the message.                 *)
LEMMA ClaimedIsMessage ==
    ASSUME ConnTypes, NEW m \in Messages, NEW w \in Seq(Byte), NEW r \in Seq(Byte),
           InBuffer \o w = m \o r, Len(m) <= buflen
    PROVE  Claimed = m
<1>1. /\ InBuffer \in Seq(Byte) /\ Len(InBuffer) = buflen /\ bufhead \in Nat /\ buflen \in Nat
      /\ bufhead + buflen <= BufLen
      /\ \A i \in 1..buflen : InBuffer[i] = buf[bufhead + i - 1]
  BY BufferBytes
<1>2. m \in Seq(Byte) /\ Len(m) \in Nat /\ Len(m) >= 2
  BY MessageShape, ConnectionAssumption
<1>3. MsgLen = Len(m)
  <2>1. buflen >= 2
    BY <1>1, <1>2
  <2>2. QED
    BY <2>1, SizeAtHead
<1>4. \A i \in 1..Len(m) : bufhead + i <= BufLen /\ buf[bufhead + i - 1] = m[i]
  <2> TAKE i \in 1..Len(m)
  <2>1. i \in 1..buflen /\ bufhead + i <= BufLen
    BY <1>1, <1>2, ConnectionAssumption, SMTT(30)
  <2>2. InBuffer[i] = m[i]
    BY <1>1, <1>2, <2>1, SameStart, SMTT(30)
  <2>3. QED
    BY <1>1, <2>1, <2>2
<1>5. Claimed = [i \in 1..Len(m) |-> m[i]]
  BY <1>3, <1>4 DEF Claimed
<1>6. QED
  BY <1>2, <1>5, LenProperties

-----------------------------------------------------------------------------
(***************************************************************************)
(* The invariant holds at the start, and every step keeps it.              *)
(***************************************************************************)

(* Nothing is sent or received at the start.                               *)
LEMMA ConnInvInit == Init /\ Tidy => ConnInv
<1> SUFFICES ASSUME Init, Tidy PROVE ConnInv
  OBVIOUS
<1>1. ConnTypes
  <2>1. <<>> \in Seq(Messages)
    OBVIOUS
  <2>2. QED
    BY <2>1, ConnectionAssumption DEF Init, ConnTypes
<1>2. ctrlproto = "tcp" => StreamInv
  BY ConnectionAssumption DEF Init, StreamInv
<1>3. ctrlproto = "udp" => DatagramInv
  <2>1. <<>> \in Seq(Messages)
    OBVIOUS
  <2>2. QED
    BY <2>1 DEF Init, DatagramInv
<1>4. QED
  BY <1>1, <1>2, <1>3 DEF Init, ConnInv

(* What a client over TCP does lengthens what is on the way.               *)
LEMMA ConnectKeeps ==
    ASSUME ConnInv, ctrlproto = "tcp", UNCHANGED ctrlproto, NEW c \in Client,
           NEW h \in Handshakes, connect(c, h)
    PROVE  ConnTypes' /\ StreamInv'
<1>1. ConnTypes /\ StreamInv
  BY DEF ConnInv
<1>2. /\ client' = [client EXCEPT ![c] = "connected"] /\ wire' = [wire EXCEPT ![c] = h]
      /\ client[c] = "absent" /\ UNCHANGED <<sent, pc, cur, bufVars, replayed>>
  BY DEF connect
<1>3. ConnTypes'
  BY <1>1, <1>2 DEF ConnTypes, bufVars
<1>4. h \in Seq(Byte)
  BY ConnectionAssumption DEF Byte
<1>5. sent[c] = <<>> /\ c # cur
  BY <1>1, <1>2, ConnectionAssumption DEF ConnTypes, StreamInv
<1>6. Greeted(c)'
  <2>1. h \o FlattenSeq(sent[c]) = h
    BY <1>4, <1>5, FlattenEmpty, ConcatEmptySeq
  <2>2. wire'[c] = h /\ sent' = sent
    BY <1>1, <1>2 DEF StreamInv
  <2>3. QED
    BY <2>1, <2>2 DEF Greeted
<1>7. \A d \in Client : d # c => (Greeted(d)' <=> Greeted(d))
  BY <1>1, <1>2 DEF Greeted, StreamInv
<1>8. \A q : /\ cur \in Client /\ Ahead(q) => Ahead(q)'
             /\ LessThanOne(q) => LessThanOne(q)'
             /\ WholeOrFirst(q) => WholeOrFirst(q)'
  BY <1>1, <1>2, <1>5, SMTT(30) DEF StreamInv, Ahead, LessThanOne, WholeOrFirst, InBuffer, bufVars
<1>9. QED
  <2>1. wire' \in [Client -> Seq(Byte)]
    BY <1>1, <1>2, <1>4 DEF StreamInv, Byte
  <2>2. pc \in {"handshake", "recv", "parse"} => cur \in Client
    BY <1>1 DEF StreamInv, ConnTypes
  <2>3. QED
    BY <1>1, <1>2, <1>3, <1>5, <1>6, <1>7, <1>8, <2>1, <2>2, SMTT(30) DEF StreamInv, ConnTypes, Byte

(* One more message is sent: it comes last in what is ahead,               *)
LEMMA SentLast ==
    ASSUME NEW q \in Seq(Messages), NEW p \in Seq(Messages), NEW m \in Messages
    PROVE  Append(q, m) \in Seq(Messages) /\ Append(p \o q, m) = p \o Append(q, m)
<1>1. p \o q \in Seq(Messages) /\ <<m>> \in Seq(Messages)
  BY ConcatProperties
<1>2. Append(p \o q, m) = (p \o q) \o <<m>> /\ Append(q, m) = q \o <<m>>
  BY <1>1, AppendIsConcat
<1>3. Joined(p, q, <<m>>)
  BY <1>1, AllJoined
<1>4. Append(p \o q, m) = p \o Append(q, m)
  BY <1>2, <1>3, Zenon DEF Joined
<1>5. QED
  BY <1>4, AppendProperties

(* and its bytes come last in the stream.                                  *)
LEMMA StreamLast ==
    ASSUME NEW q \in Seq(Messages), NEW m \in Messages
    PROVE  \A b, w \in Seq(Byte) :
              FlattenSeq(q) = b \o w => FlattenSeq(Append(q, m)) = b \o (w \o m)
<1>1. m \in Seq(Byte) /\ q \in Seq(Seq(Byte))
  BY MessageShape, StreamBytes
<1>2. FlattenSeq(Append(q, m)) = FlattenSeq(q) \o m
  BY <1>1, FlattenAppend
<1>3. \A b, w \in Seq(Byte) : Joined(b, w, m)
  BY <1>1, AllJoined
<1>4. QED
  BY <1>2, <1>3, Zenon DEF Joined

(* So what a client sends is ahead of the server, and comes last.          *)
LEMMA SendKeeps ==
    ASSUME ConnInv, ctrlproto = "tcp", UNCHANGED ctrlproto, NEW c \in Client,
           NEW m \in Messages, client_send(c, m)
    PROVE  ConnTypes' /\ StreamInv'
<1>1. ConnTypes /\ StreamInv
  BY DEF ConnInv
<1>2. /\ sent' = [sent EXCEPT ![c] = Append(@, m)] /\ wire' = [wire EXCEPT ![c] = @ \o m]
      /\ client[c] \in {"connected", "accepted"}
      /\ UNCHANGED <<client, pc, cur, bufVars, replayed>>
  BY DEF client_send
<1>3. m \in Seq(Byte) /\ sent[c] \in Seq(Messages) /\ wire[c] \in Seq(Byte)
      /\ sent'[c] = Append(sent[c], m) /\ wire'[c] = wire[c] \o m
      /\ \A d \in Client : d # c => sent'[d] = sent[d] /\ wire'[d] = wire[d]
  BY <1>1, <1>2, MessageShape, SMTT(30) DEF ConnTypes, StreamInv, Byte
<1>4. ConnTypes'
  <2>1. Append(sent[c], m) \in Seq(Messages)
    BY <1>3, AppendProperties
  <2>2. QED
    BY <1>1, <1>2, <2>1 DEF ConnTypes, bufVars
<1>5. wire' \in [Client -> Seq(Byte)]
  <2>1. wire[c] \o m \in Seq(Byte)
    BY <1>3, ConcatProperties
  <2>2. QED
    BY <1>1, <1>2, <2>1 DEF StreamInv, Byte
<1>6. \A d \in Client : Greeted(d) => Greeted(d)'
  <2> SUFFICES ASSUME NEW d \in Client, Greeted(d) PROVE Greeted(d)'
    OBVIOUS
  <2>1. CASE d # c
    BY <1>3, <2>1 DEF Greeted
  <2>2. CASE d = c
    <3>1. PICK h \in Handshakes : wire[c] = h \o FlattenSeq(sent[c])
      BY <2>2 DEF Greeted
    <3>2. h \in Seq(Byte) /\ FlattenSeq(sent[c]) \in Seq(Byte)
      BY <1>3, StreamBytes, ConnectionAssumption DEF Byte
    <3>3. FlattenSeq(Append(sent[c], m)) = FlattenSeq(sent[c]) \o m
      BY <1>3, StreamBytes, FlattenAppend
    <3>4. Joined(h, FlattenSeq(sent[c]), m)
      BY <1>3, <3>2, AllJoined
    <3>5. wire'[c] = h \o FlattenSeq(sent'[c])
      BY <1>3, <3>1, <3>3, <3>4, Zenon DEF Joined
    <3>6. QED
      BY <2>2, <3>5 DEF Greeted
  <2>3. QED
    BY <2>1, <2>2
<1>7. ASSUME NEW q \in Seq(Messages), Ahead(q), cur = c
      PROVE  /\ Append(q, m) \in Seq(Messages) /\ Ahead(Append(q, m))'
             /\ LessThanOne(q) => LessThanOne(Append(q, m))'
             /\ WholeOrFirst(q) => WholeOrFirst(Append(q, m))'
  <2>1. InBuffer' = InBuffer /\ UNCHANGED <<bufhead, buflen>>
    BY <1>2 DEF InBuffer, bufVars
  <2>2. InBuffer \in Seq(Byte) /\ Len(InBuffer) = buflen /\ buflen \in Nat
    BY <1>1, BufferBytes
  <2>3. replayed \in Seq(Messages) /\ sent[c] = replayed \o q
        /\ FlattenSeq(q) = InBuffer \o wire[c]
    BY <1>1, <1>7 DEF ConnTypes, Ahead
  <2>4. /\ Append(q, m) \in Seq(Messages)
        /\ Append(replayed \o q, m) = replayed \o Append(q, m)
        /\ FlattenSeq(Append(q, m)) = InBuffer \o (wire[c] \o m)
    <3>1. \A p \in Seq(Messages) :
            Append(q, m) \in Seq(Messages) /\ Append(p \o q, m) = p \o Append(q, m)
      BY SentLast
    <3>2. FlattenSeq(Append(q, m)) = InBuffer \o (wire[c] \o m)
      BY <1>3, <2>2, <2>3, StreamLast, ZenonT(30)
    <3>3. QED
      BY <2>3, <3>1, <3>2, Zenon
  <2>5. Ahead(Append(q, m))'
    BY <1>2, <1>3, <1>7, <2>1, <2>3, <2>4 DEF Ahead
  <2>6. q # <<>> => Head(Append(q, m)) = Head(q)
    BY HeadTailAppend
  <2>7. q = <<>> => Head(Append(q, m)) = m /\ buflen = 0 /\ Len(m) \in 2..BufLen
    <3> SUFFICES ASSUME q = <<>>
                 PROVE  Head(Append(q, m)) = m /\ buflen = 0 /\ Len(m) \in 2..BufLen
      OBVIOUS
    <3>1. InBuffer \o wire[c] = <<>>
      BY <2>3, FlattenEmpty
    <3>2. InBuffer = <<>>
      BY <1>3, <2>2, <3>1, ConcatEqualIffEmpty
    <3>3. QED
      BY <2>2, <3>2, HeadTailAppend, MessageShape, EmptySeq
  <2>8. LessThanOne(q) => LessThanOne(Append(q, m))'
    <3>1. q = <<>> => buflen < Len(Head(Append(q, m)))
      BY <2>7, ConnectionAssumption
    <3>2. QED
      BY <2>1, <2>6, <3>1 DEF LessThanOne
  <2>9. WholeOrFirst(q) => WholeOrFirst(Append(q, m))'
    <3>1. Append(q, m) # <<>>
      BY AppendProperties
    <3>2. QED
      BY <2>1, <2>6, <3>1 DEF WholeOrFirst
  <2>10. QED
    BY <2>4, <2>5, <2>8, <2>9
<1>8. \A q : /\ cur \in Client /\ cur # c /\ Ahead(q) => Ahead(q)'
             /\ LessThanOne(q) => LessThanOne(q)'
             /\ WholeOrFirst(q) => WholeOrFirst(q)'
  BY <1>2, <1>3 DEF Ahead, LessThanOne, WholeOrFirst, InBuffer, bufVars
<1>9. pc \in {"handshake", "recv", "parse"} => cur \in Client
  BY <1>1 DEF StreamInv, ConnTypes
<1>10. pc = "recv" => \E q \in Seq(Messages) : Ahead(q)' /\ LessThanOne(q)'
  BY <1>1, <1>7, <1>8, <1>9 DEF StreamInv
<1>11. pc = "parse" => \E q \in Seq(Messages) : Ahead(q)' /\ WholeOrFirst(q)'
  BY <1>1, <1>7, <1>8, <1>9 DEF StreamInv
<1>12. QED
  <2>1. \A d \in Client : client[d] = "absent" => d # c
    BY <1>2
  <2>2. UNCHANGED <<client, pc, cur, replayed>>
    BY <1>2
  <2>3. QED
    BY <1>1, <1>3, <1>4, <1>5, <1>6, <1>9, <1>10, <1>11, <2>1, <2>2 DEF StreamInv, Byte

(* A client that closes leaves what it has sent on the way; one that is    *)
(* accepted has sent its greeting first.                                   *)
LEMMA CloseKeeps ==
    ASSUME ConnInv, ctrlproto = "tcp", UNCHANGED ctrlproto, NEW c \in Client,
           client_close(c) \/ accept(c)
    PROVE  ConnTypes' /\ StreamInv'
<1>1. ConnTypes /\ StreamInv
  BY DEF ConnInv
<1>2. \A d : Greeted(d) => Greeted(d)'
  BY DEF Greeted, client_close, accept
<1>3. CASE client_close(c)
  <2>1. /\ client' = [client EXCEPT ![c] = "closed"] /\ client[c] = "accepted"
        /\ UNCHANGED <<wire, sent, pc, cur, bufVars, replayed>>
    BY <1>3 DEF client_close
  <2>2. ConnTypes'
    BY <1>1, <2>1 DEF ConnTypes, bufVars
  <2>3. \A q : /\ Ahead(q) => Ahead(q)'
               /\ LessThanOne(q) => LessThanOne(q)'
               /\ WholeOrFirst(q) => WholeOrFirst(q)'
    BY <2>1 DEF Ahead, LessThanOne, WholeOrFirst, InBuffer, bufVars
  <2>4. QED
    BY <1>1, <1>2, <2>1, <2>2, <2>3, SMTT(30) DEF StreamInv, ConnTypes
<1>4. CASE accept(c)
  <2>1. /\ pc = "accept" /\ client[c] = "connected" /\ pc' = "handshake" /\ cur' = c
        /\ client' = [client EXCEPT ![c] = "accepted"] /\ replayed' = <<>>
        /\ UNCHANGED <<wire, sent, bufVars>>
    BY <1>4 DEF accept
  <2>2. c # NoClient /\ <<>> \in Seq(Messages)
    BY ConnectionAssumption
  <2>3. ConnTypes'
    BY <1>1, <2>1, <2>2 DEF ConnTypes, bufVars
  <2>4. Greeted(c)
    BY <1>1, <2>1 DEF StreamInv
  <2>5. QED
    BY <1>1, <1>2, <2>1, <2>2, <2>3, <2>4, SMTT(30) DEF StreamInv, ConnTypes
<1>5. QED
  BY <1>3, <1>4

(* A new start leaves the others as they are.                              *)
LEMMA RestartKeeps ==
    ASSUME ConnInv, ctrlproto = "tcp", UNCHANGED ctrlproto, cur \in Client, restart,
           buf' \in [0..BufLen - 1 -> Byte], bufhead' = 0, buflen' = 0, UNCHANGED replayed
    PROVE  ConnTypes' /\ StreamInv'
<1>1. ConnTypes /\ StreamInv
  BY DEF ConnInv
<1>2. /\ client' = [client EXCEPT ![cur] = "closed"] /\ wire' = [wire EXCEPT ![cur] = <<>>]
      /\ cur' = NoClient /\ pc' = "accept" /\ UNCHANGED sent
  BY DEF restart
<1>3. <<>> \in Seq(0..255)
  OBVIOUS
<1>4. ConnTypes'
  BY <1>1, <1>2, ConnectionAssumption, SMTT(30) DEF ConnTypes, Byte
<1>5. wire' \in [Client -> Seq(0..255)]
  BY <1>1, <1>2, <1>3 DEF StreamInv
<1>6. \A d \in Client : client'[d] = "connected" => Greeted(d)'
  <2> SUFFICES ASSUME NEW d \in Client, client'[d] = "connected" PROVE Greeted(d)'
    OBVIOUS
  <2>1. d # cur /\ client[d] = "connected" /\ wire'[d] = wire[d]
    BY <1>1, <1>2 DEF ConnTypes, StreamInv
  <2>2. QED
    BY <1>1, <1>2, <2>1 DEF StreamInv, Greeted
<1>7. \A d \in Client : client'[d] = "absent" => sent'[d] = <<>>
  BY <1>1, <1>2 DEF ConnTypes, StreamInv
<1>8. QED
  BY <1>2, <1>4, <1>5, <1>6, <1>7 DEF StreamInv

(* The handshake is read, and what was sent after it is all ahead.         *)
LEMMA HandshakeKeeps ==
    ASSUME ConnInv, ctrlproto = "tcp", UNCHANGED ctrlproto, NEW k \in 1..BufLen,
           recv_handshake(k)
    PROVE  ConnTypes' /\ StreamInv'
<1>1. ConnTypes /\ StreamInv /\ Tidy
  BY DEF ConnInv
<1>2. /\ pc = "handshake" /\ k \in 1..BufLen /\ k <= Len(wire[cur]) /\ k = wire[cur][1]
      /\ buf' = [i \in 0..BufLen - 1 |-> IF i < k THEN wire[cur][i + 1] ELSE buf[i]]
      /\ bufhead' = 0 /\ buflen' = 0 /\ UNCHANGED replayed
  BY <1>1 DEF recv_handshake
<1>3. cur \in Client /\ wire[cur] \in Seq(Byte) /\ replayed = <<>> /\ sent[cur] \in Seq(Messages)
  BY <1>1, <1>2 DEF StreamInv, ConnTypes, Byte
<1>4. PICK h \in Handshakes : wire[cur] = h \o FlattenSeq(sent[cur])
  BY <1>1, <1>2 DEF StreamInv, Greeted
<1>5. h \in Seq(Byte) /\ Len(h) \in 1..BufLen /\ h[1] = Len(h) /\ FlattenSeq(sent[cur]) \in Seq(Byte)
  BY <1>3, StreamBytes, ConnectionAssumption DEF Byte
<1>6. k = Len(h)
  <2>1. 1 \in 1..Len(h) /\ Len(FlattenSeq(sent[cur])) \in Nat
    BY <1>5, LenProperties, ConnectionAssumption
  <2>2. wire[cur][1] = h[1]
    BY <1>4, <1>5, <2>1, ConcatProperties
  <2>3. QED
    BY <1>2, <1>5, <2>2
<1>7. buf' \in [0..BufLen - 1 -> Byte]
  <2> SUFFICES ASSUME NEW i \in 0..BufLen - 1, i < k PROVE wire[cur][i + 1] \in Byte
    BY <1>1, <1>2, ZenonT(30) DEF ConnTypes, Byte
  <2>1. i + 1 \in 1..Len(wire[cur])
    BY <1>2, <1>3, LenProperties, ConnectionAssumption
  <2>2. QED
    BY <1>3, <2>1, ElementOfSeq, SMTT(30)
<1>8. CASE restart
  BY <1>2, <1>3, <1>7, <1>8, RestartKeeps
<1>9. CASE ~restart
  <2>1. /\ wire' = [wire EXCEPT ![cur] = SubSeq(@, k + 1, Len(@))]
        /\ pc' = "recv" /\ UNCHANGED <<client, sent, cur>>
    BY <1>9 DEF recv_handshake
  <2>2. SubSeq(wire[cur], k + 1, Len(wire[cur])) = FlattenSeq(sent[cur])
    <3>1. k \in 1..Len(wire[cur])
      BY <1>2, <1>3, LenProperties
    <3>2. /\ SubSeq(wire[cur], 1, k) \in Seq(Byte) /\ Len(SubSeq(wire[cur], 1, k)) = k
          /\ SubSeq(wire[cur], k + 1, Len(wire[cur])) \in Seq(Byte)
          /\ wire[cur] = SubSeq(wire[cur], 1, k) \o SubSeq(wire[cur], k + 1, Len(wire[cur]))
          /\ \A i \in 1..k : SubSeq(wire[cur], 1, k)[i] = wire[cur][i]
      <4> DEFINE w == wire[cur]
      <4>1. w \in Seq(Byte) /\ k \in 1..Len(w)
        BY <1>3, <3>1
      <4> HIDE DEF w
      <4>2. /\ SubSeq(w, 1, k) \in Seq(Byte) /\ Len(SubSeq(w, 1, k)) = k
            /\ SubSeq(w, k + 1, Len(w)) \in Seq(Byte)
            /\ w = SubSeq(w, 1, k) \o SubSeq(w, k + 1, Len(w))
            /\ \A i \in 1..k : SubSeq(w, 1, k)[i] = w[i]
        BY <4>1, CutAt
      <4>3. QED
        BY <4>2 DEF w
    <3>3. SubSeq(wire[cur], 1, k) = h
      <4>1. \A i \in 1..k : wire[cur][i] = h[i]
        BY <1>4, <1>5, <1>6, ConcatProperties, LenProperties
      <4>2. QED
        BY <1>5, <1>6, <3>2, <4>1, SeqEqual
    <3>4. h \o SubSeq(wire[cur], k + 1, Len(wire[cur])) = h \o FlattenSeq(sent[cur])
      BY <1>4, <3>2, <3>3, Zenon
    <3>5. QED
      BY <1>5, <3>2, <3>4, ConcatSimplifications, ZenonT(30)
  <2>3. /\ wire' \in [Client -> Seq(Byte)] /\ wire'[cur] = FlattenSeq(sent[cur])
        /\ \A d \in Client : d # cur => wire'[d] = wire[d]
    BY <1>1, <1>3, <1>5, <2>1, <2>2, ZenonT(30) DEF StreamInv, Byte
  <2>4. ConnTypes'
    BY <1>1, <1>2, <1>7, <2>1, ConnectionAssumption, SMTT(30) DEF ConnTypes, Byte
  <2>5. Ahead(sent[cur])' /\ LessThanOne(sent[cur])'
    <3>1. InBuffer' = <<>>
      BY <1>2 DEF InBuffer, Slice
    <3>2. replayed' \o sent[cur] = sent[cur] /\ InBuffer' \o wire'[cur] = FlattenSeq(sent[cur])
      BY <1>2, <1>3, <1>5, <2>3, <3>1, ConcatEmptySeq
    <3>3. sent[cur] # <<>> => 0 < Len(Head(sent[cur]))
      BY <1>3, StreamLength, ConnectionAssumption, SMTT(30)
    <3>4. QED
      BY <1>2, <2>1, <3>2, <3>3 DEF Ahead, LessThanOne
  <2>6. \A d \in Client : client[d] = "connected" => Greeted(d)'
    <3>1. \A d \in Client : client[d] = "connected" => Greeted(d) /\ d # cur
      BY <1>1, <1>3, ConnectionAssumption DEF StreamInv
    <3>2. QED
      BY <2>1, <2>3, <3>1 DEF Greeted
  <2>7. cur # NoClient
    BY <1>3, ConnectionAssumption
  <2>8. sent[cur]' = sent[cur]
    BY <2>1
  <2>9. QED
    BY <1>1, <1>3, <2>1, <2>3, <2>4, <2>5, <2>6, <2>7, <2>8 DEF StreamInv, Byte
<1>10. QED
  BY <1>8, <1>9

(* What recv reads goes from the way to the end of the buffer.             *)
LEMMA ReadMoves ==
    ASSUME ConnInv, ctrlproto = "tcp", NEW k \in 1..BufLen, recv(k)
    PROVE  LET got  == SubSeq(wire[cur], 1, k)
               left == SubSeq(wire[cur], k + 1, Len(wire[cur])) IN
           /\ cur \in Client /\ bufhead = 0 /\ k <= BufLen - buflen /\ k \in 1..Len(wire[cur])
           /\ got \in Seq(Byte) /\ Len(got) = k /\ left \in Seq(Byte)
           /\ wire[cur] = got \o left
           /\ wire' = [wire EXCEPT ![cur] = left]
           /\ buf' \in [0..BufLen - 1 -> Byte]
           /\ InBuffer' = InBuffer \o got
<1> DEFINE got  == SubSeq(wire[cur], 1, k)
           left == SubSeq(wire[cur], k + 1, Len(wire[cur]))
           w    == wire[cur]
<1>1. ConnTypes /\ StreamInv
  BY DEF ConnInv
<1>2. /\ pc = "recv" /\ k \in 1..BufLen - buflen /\ k <= Len(w)
      /\ buf' = Received(k) /\ buflen' = buflen + k /\ UNCHANGED bufhead
      /\ wire' = [wire EXCEPT ![cur] = left]
  BY DEF recv, Cuts
<1>3. cur \in Client /\ w \in Seq(Byte) /\ bufhead = 0
  BY <1>1, <1>2 DEF StreamInv, ConnTypes, Byte, LessThanOne
<1>4. k \in 1..Len(w) /\ Len(w) \in Nat
  BY <1>2, <1>3, LenProperties
<1>5. /\ got \in Seq(Byte) /\ Len(got) = k /\ left \in Seq(Byte) /\ w = got \o left
      /\ \A i \in 1..k : got[i] = w[i]
  <2> HIDE DEF w
  <2>1. /\ SubSeq(w, 1, k) \in Seq(Byte) /\ Len(SubSeq(w, 1, k)) = k
        /\ SubSeq(w, k + 1, Len(w)) \in Seq(Byte)
        /\ w = SubSeq(w, 1, k) \o SubSeq(w, k + 1, Len(w))
        /\ \A i \in 1..k : SubSeq(w, 1, k)[i] = w[i]
    BY <1>3, <1>4, CutAt
  <2>2. QED
    BY <2>1 DEF w
<1>6. /\ InBuffer \in Seq(Byte) /\ Len(InBuffer) = buflen /\ buflen \in Nat
      /\ \A i \in 1..buflen : InBuffer[i] = buf[i - 1]
  <2>1. /\ InBuffer \in Seq(Byte) /\ Len(InBuffer) = buflen /\ buflen \in Nat
        /\ \A i \in 1..buflen : InBuffer[i] = buf[bufhead + i - 1]
    BY <1>1, BufferBytes
  <2>2. \A i \in 1..buflen : bufhead + i - 1 = i - 1
    BY <1>3
  <2>3. QED
    BY <2>1, <2>2
<1>7. \A i \in 0..BufLen - 1 : Received(k)[i] = IF i \in buflen..buflen + k - 1
                                               THEN w[i - buflen + 1] ELSE buf[i]
  BY DEF Received
<1> HIDE DEF w, got, left
<1>8. buf' \in [0..BufLen - 1 -> Byte]
  <2>1. \A i \in 0..BufLen - 1 : i \in buflen..buflen + k - 1 => w[i - buflen + 1] \in Byte
    <3> SUFFICES ASSUME NEW i \in 0..BufLen - 1, i \in buflen..buflen + k - 1
                 PROVE  w[i - buflen + 1] \in Byte
      OBVIOUS
    <3>1. i - buflen + 1 \in 1..Len(w)
      BY <1>4, <1>6, ConnectionAssumption
    <3>2. QED
      BY <1>3, <3>1, ElementOfSeq
  <2>2. Received(k) \in [0..BufLen - 1 -> Byte]
    <3>1. \A i \in 0..BufLen - 1 : Received(k)[i] \in Byte
      BY <1>1, <1>7, <2>1, ZenonT(30) DEF ConnTypes, Byte
    <3>2. Received(k) = [i \in 0..BufLen - 1 |-> Received(k)[i]]
      BY DEF Received
    <3>3. QED
      BY <3>1, <3>2
  <2>3. QED
    BY <1>2, <2>2
<1>9. InBuffer' = InBuffer \o got
  <2>1. /\ InBuffer \o got \in Seq(Byte) /\ Len(InBuffer \o got) = buflen + k
        /\ \A i \in 1..buflen + k :
              (InBuffer \o got)[i] = IF i <= buflen THEN InBuffer[i] ELSE got[i - buflen]
    BY <1>5, <1>6, ConcatProperties, ZenonT(30)
  <2>2. \A i \in 1..buflen + k : buf'[0 + i - 1] = (InBuffer \o got)[i]
    <3> SUFFICES ASSUME NEW i \in 1..buflen + k PROVE buf'[0 + i - 1] = (InBuffer \o got)[i]
      OBVIOUS
    <3>1. 0 + i - 1 = i - 1 /\ i - 1 \in 0..BufLen - 1
      BY <1>2, <1>6, ConnectionAssumption
    <3>2. CASE i <= buflen
      <4>1. i - 1 \notin buflen..buflen + k - 1 /\ i \in 1..buflen
        BY <1>6, <3>2
      <4>2. buf'[i - 1] = buf[i - 1]
        BY <1>2, <1>7, <3>1, <4>1
      <4>3. InBuffer[i] = buf[i - 1]
        BY <1>6, <4>1
      <4>4. (InBuffer \o got)[i] = InBuffer[i]
        BY <2>1, <3>2
      <4>5. QED
        BY <3>1, <4>2, <4>3, <4>4, Zenon
    <3>3. CASE i > buflen
      <4>1. i - 1 \in buflen..buflen + k - 1 /\ (i - 1) - buflen + 1 = i - buflen
            /\ i - buflen \in 1..k
        BY <1>6, <3>3
      <4>2. buf'[i - 1] = w[i - buflen]
        BY <1>2, <1>7, <3>1, <4>1
      <4>3. got[i - buflen] = w[i - buflen]
        BY <1>5, <4>1
      <4>4. (InBuffer \o got)[i] = got[i - buflen]
        BY <1>6, <2>1, <3>3
      <4>5. QED
        BY <3>1, <4>2, <4>3, <4>4, Zenon
    <3>4. i <= buflen \/ i > buflen
      BY <1>6
    <3>5. QED
      BY <3>2, <3>3, <3>4, Zenon
  <2>3. 0 + (buflen + k) <= BufLen /\ buflen + k \in Nat
    BY <1>2, <1>6, ConnectionAssumption
  <2>4. \A b \in [0..BufLen - 1 -> Byte] :
          (\A i \in 1..buflen + k : b[0 + i - 1] = (InBuffer \o got)[i])
             => Slice(b, 0, buflen + k) = InBuffer \o got
    BY <2>1, <2>3, WindowIs, ZenonT(30)
  <2>5. Slice(buf', 0, buflen + k) = InBuffer \o got
    BY <1>8, <2>2, <2>4
  <2>6. QED
    BY <1>2, <1>3, <2>5 DEF InBuffer
<1>10. QED
  BY <1>2, <1>3, <1>4, <1>5, <1>8, <1>9, SMTT(30) DEF got, left, w

(* What is ahead stays ahead, and the buffer has whole messages, or no     *)
(* more than the first.                                                    *)
LEMMA RecvKeeps ==
    ASSUME ConnInv, ctrlproto = "tcp", UNCHANGED ctrlproto, NEW k \in 1..BufLen, recv(k)
    PROVE  ConnTypes' /\ StreamInv'
<1> DEFINE got  == SubSeq(wire[cur], 1, k)
           left == SubSeq(wire[cur], k + 1, Len(wire[cur]))
<1>1. ConnTypes /\ StreamInv /\ Tidy
  BY DEF ConnInv
<1>2. /\ pc = "recv" /\ pc' = "parse" /\ (Tidy => TidyCut(k))
      /\ buflen' = buflen + k /\ UNCHANGED <<client, sent, cur, bufhead, replayed>>
  BY DEF recv, Cuts
<1>3. /\ cur \in Client /\ bufhead = 0 /\ k <= BufLen - buflen /\ k \in 1..Len(wire[cur])
      /\ got \in Seq(Byte) /\ Len(got) = k /\ left \in Seq(Byte)
      /\ wire[cur] = got \o left
      /\ wire' = [wire EXCEPT ![cur] = left]
      /\ buf' \in [0..BufLen - 1 -> Byte]
      /\ InBuffer' = InBuffer \o got
  BY ReadMoves
<1>4. /\ InBuffer \in Seq(Byte) /\ Len(InBuffer) = buflen /\ buflen \in Nat
      /\ \A i \in 1..buflen : InBuffer[i] = buf[bufhead + i - 1]
  BY <1>1, BufferBytes
<1>5. TidyCut(k) <=> LET b == InBuffer \o got IN
                     b \in WholeMessages \/ Len(b) < 2 \/ Len(b) <= b[1] * 256 + b[2]
  <2>1. [i \in 1..buflen |-> buf[i - 1]] = InBuffer
    <3>1. \A i \in 1..buflen : bufhead + i - 1 = i - 1
      BY <1>3
    <3>2. QED
      BY <3>1 DEF InBuffer, Slice
  <2>2. QED
    BY <2>1, Zenon DEF TidyCut
<1> DEFINE b == InBuffer \o got
<1>6. /\ b \in Seq(Byte) /\ Len(b) = buflen + k /\ InBuffer' = b
      /\ b \in WholeMessages \/ Len(b) < 2 \/ Len(b) <= b[1] * 256 + b[2]
  <2>1. b \in Seq(Byte) /\ Len(b) = buflen + k
    BY <1>3, <1>4, ConcatProperties, ZenonT(30)
  <2>2. QED
    BY <1>1, <1>2, <1>3, <1>5, <2>1
<1>7. wire' \in [Client -> Seq(Byte)] /\ wire'[cur] = left
      /\ \A d \in Client : d # cur => wire'[d] = wire[d]
  <2> HIDE DEF left
  <2>1. QED
    BY <1>1, <1>3 DEF StreamInv, Byte
<1>8. PICK q \in Seq(Messages) : Ahead(q) /\ LessThanOne(q)
  BY <1>1, <1>2 DEF StreamInv
<1>9. FlattenSeq(q) = b \o left
  <2>1. FlattenSeq(q) = InBuffer \o (got \o left)
    BY <1>3, <1>8, Zenon DEF Ahead
  <2>2. Joined(InBuffer, got, left)
    BY <1>3, <1>4, AllJoined
  <2>3. QED
    BY <2>1, <2>2, Zenon DEF Joined
<1> HIDE DEF b, left, got
<1>10. Ahead(q)'
  BY <1>2, <1>6, <1>7, <1>8, <1>9 DEF Ahead
<1>11. /\ q # <<>> /\ Head(q) \in Messages /\ FlattenSeq(Tail(q)) \in Seq(Byte)
       /\ Head(q) \in Seq(Byte) /\ Len(Head(q)) \in 2..BufLen
       /\ Head(q)[1] * 256 + Head(q)[2] = Len(Head(q))
       /\ FlattenSeq(q) = Head(q) \o FlattenSeq(Tail(q))
  <2>1. q # <<>>
    <3> SUFFICES ASSUME q = <<>> PROVE FALSE
      OBVIOUS
    <3>1. b \o left = <<>>
      BY <1>9, FlattenEmpty
    <3>2. b = <<>>
      BY <1>3, <1>6, <3>1, ConcatEqualIffEmpty
    <3>3. QED
      BY <1>4, <1>6, <3>2, EmptySeq
  <2>2. QED
    BY <2>1, FirstMessage, MessageShape, StreamBytes, ZenonT(30)
<1>12. WholeOrFirst(q)'
  <2>1. CASE b \in WholeMessages
    <3>1. PICK n \in 1..MaxSent : \E s \in [1..n -> Messages] : b = FlattenSeq(s)
      BY <2>1 DEF WholeMessages
    <3>2. PICK s \in [1..n -> Messages] : b = FlattenSeq(s)
      BY <3>1
    <3>3. s \in Seq(Messages) /\ s # <<>>
      <4>1. n \in Nat \ {0}
        BY <3>1, ConnectionAssumption
      <4>2. s \in Seq(Messages) /\ Len(s) = n
        BY <4>1
      <4>3. QED
        BY <4>1, <4>2, EmptySeq
    <3>4. QED
      BY <1>6, <3>2, <3>3 DEF WholeOrFirst
  <2>2. CASE Len(b) < 2 \/ Len(b) <= b[1] * 256 + b[2]
    <3>1. Len(b) <= Len(Head(q))
      <4>1. CASE Len(b) < 2
        <5>1. Len(b) \in Nat /\ Len(Head(q)) \in Nat /\ Len(Head(q)) >= 2
          BY <1>6, <1>11, LenProperties, ConnectionAssumption
        <5>2. QED
          BY <4>1, <5>1
      <4>2. CASE Len(b) >= 2 /\ Len(b) <= b[1] * 256 + b[2]
        <5>1. /\ 1 \in 1..Len(b) /\ 2 \in 1..Len(b)
              /\ 1 \in 1..Len(Head(q)) /\ 2 \in 1..Len(Head(q))
          BY <1>4, <1>6, <1>11, <4>2, ConnectionAssumption, SMTT(30)
        <5>2. b \o left = Head(q) \o FlattenSeq(Tail(q))
          BY <1>9, <1>11, Zenon
        <5>3. b[1] = Head(q)[1] /\ b[2] = Head(q)[2]
          <6> DEFINE m == Head(q)
                     r == FlattenSeq(Tail(q))
          <6>1. /\ m \in Seq(Byte) /\ r \in Seq(Byte) /\ b \o left = m \o r
                /\ 1 \in 1..Len(b) /\ 2 \in 1..Len(b) /\ 1 \in 1..Len(m) /\ 2 \in 1..Len(m)
            BY <1>11, <5>1, <5>2, Zenon
          <6> HIDE DEF m, r
          <6>2. b[1] = m[1] /\ b[2] = m[2]
            BY <1>3, <1>6, <6>1, SameStart, SMTT(30)
          <6>3. QED
            BY <6>2 DEF m
        <5>4. QED
          BY <1>11, <4>2, <5>3
      <4>3. QED
        BY <1>4, <1>6, <2>2, <4>1, <4>2
    <3>2. QED
      BY <1>2, <1>3, <1>6, <1>11, <3>1 DEF WholeOrFirst
  <2>3. QED
    BY <1>6, <2>1, <2>2
<1>13. ConnTypes'
  BY <1>1, <1>2, <1>3, <1>4, ConnectionAssumption, SMTT(30) DEF ConnTypes, Byte
<1>14. \A d \in Client : client[d] = "connected" => Greeted(d)'
  <2>1. \A d \in Client : client[d] = "connected" => Greeted(d) /\ d # cur
    BY <1>1, <1>3, ConnectionAssumption DEF StreamInv
  <2>2. QED
    BY <1>2, <1>7, <2>1 DEF Greeted
<1>15. QED
  BY <1>1, <1>2, <1>7, <1>10, <1>12, <1>13, <1>14 DEF StreamInv, Byte

(* recv ends a connection only when nothing is ahead: the buffer has room  *)
(* for more than what it holds of a message.                               *)
LEMMA NothingAhead ==
    ASSUME ConnInv, ctrlproto = "tcp", pc = "recv",
           wire[cur] = <<>> \/ buflen = BufLen
    PROVE  replayed = sent[cur]
<1>1. ConnTypes /\ StreamInv
  BY DEF ConnInv
<1>2. cur \in Client /\ wire[cur] \in Seq(Byte)
  BY <1>1 DEF StreamInv, ConnTypes, Byte
<1>3. PICK q \in Seq(Messages) : Ahead(q) /\ LessThanOne(q)
  BY <1>1 DEF StreamInv
<1>4. InBuffer \in Seq(Byte) /\ Len(InBuffer) = buflen /\ buflen \in Nat
  BY <1>1, BufferBytes
<1>5. q = <<>>
  <2> SUFFICES ASSUME q # <<>> PROVE FALSE
    OBVIOUS
  <2>1. /\ Len(FlattenSeq(q)) \in Nat /\ Len(FlattenSeq(q)) >= Len(Head(q))
        /\ Len(Head(q)) \in 2..BufLen /\ buflen < Len(Head(q))
    BY <1>3, StreamLength DEF LessThanOne
  <2>2. wire[cur] = <<>>
    BY <1>4, <2>1, ConnectionAssumption
  <2>3. FlattenSeq(q) = InBuffer
    BY <1>3, <1>4, <2>2, ConcatEmptySeq DEF Ahead
  <2>4. QED
    BY <1>4, <2>1, <2>3, ConnectionAssumption
<1>6. QED
  BY <1>1, <1>2, <1>3, <1>5, ConcatEmptySeq DEF Ahead, ConnTypes

(* So the server starts anew.                                              *)
LEMMA EndKeepsStream ==
    ASSUME ConnInv, ctrlproto = "tcp", UNCHANGED ctrlproto, recv_end
    PROVE  ConnTypes' /\ StreamInv'
<1>1. ConnTypes /\ StreamInv
  BY DEF ConnInv
<1>2. pc \in {"handshake", "recv"} /\ restart /\ bufhead' = 0 /\ buflen' = 0
      /\ UNCHANGED <<buf, replayed>>
  BY DEF recv_end
<1>3. cur \in Client /\ buf' \in [0..BufLen - 1 -> Byte]
  BY <1>1, <1>2 DEF StreamInv, ConnTypes, Byte
<1>4. QED
  BY <1>2, <1>3, RestartKeeps

(* What the server parses is the first message that is ahead: all of it is *)
(* there, or no more than a part.                                          *)
LEMMA ParsesFirst ==
    ASSUME ConnInv, ctrlproto = "tcp", pc = "parse", NEW q \in Seq(Messages), Ahead(q),
           WholeOrFirst(q)
    PROVE  /\ cur \in Client /\ q # <<>>
           /\ Head(q) \in Messages /\ Len(Head(q)) \in 2..BufLen
           /\ InBuffer \o wire[cur] = Head(q) \o FlattenSeq(Tail(q))
           /\ buflen >= 2 => MsgLen = Len(Head(q))
           /\ buflen < Len(Head(q)) => bufhead = 0
           /\ buflen > Len(Head(q)) =>
                \E s \in Seq(Messages) : /\ s # <<>> /\ Head(s) = Head(q)
                                         /\ InBuffer = FlattenSeq(s)
<1>1. ConnTypes /\ StreamInv
  BY DEF ConnInv
<1>2. cur \in Client /\ wire[cur] \in Seq(Byte)
  BY <1>1 DEF StreamInv, ConnTypes, Byte
<1>3. InBuffer \in Seq(Byte) /\ Len(InBuffer) = buflen /\ buflen \in Nat
  BY <1>1, BufferBytes
<1>4. ASSUME NEW s \in Seq(Messages), s # <<>>, InBuffer = FlattenSeq(s)
      PROVE  /\ Head(s) \in Messages /\ FlattenSeq(Tail(s)) \in Seq(Byte)
             /\ InBuffer \o <<>> = Head(s) \o FlattenSeq(Tail(s))
             /\ buflen >= 2 /\ Len(Head(s)) <= buflen /\ MsgLen = Len(Head(s))
             /\ Claimed = Head(s)
  <2>1. /\ Head(s) \in Messages /\ FlattenSeq(Tail(s)) \in Seq(Byte)
        /\ FlattenSeq(s) = Head(s) \o FlattenSeq(Tail(s))
    BY <1>4, FirstMessage, StreamBytes
  <2>2. buflen >= 2 /\ Len(Head(s)) <= buflen
    BY <1>3, <1>4, StreamLength, ConnectionAssumption
  <2>3. InBuffer \o <<>> = Head(s) \o FlattenSeq(Tail(s)) /\ <<>> \in Seq(Byte)
    BY <1>3, <1>4, <2>1, ConcatEmptySeq
  <2>4. MsgLen = Len(Head(s)) /\ Claimed = Head(s)
    BY <1>1, <2>1, <2>2, <2>3, SizeAtHead, ClaimedIsMessage
  <2>5. QED
    BY <2>1, <2>2, <2>3, <2>4
<1>5. q # <<>>
  <2> SUFFICES ASSUME q = <<>> PROVE FALSE
    OBVIOUS
  <2>1. PICK s \in Seq(Messages) : s # <<>> /\ InBuffer = FlattenSeq(s)
    BY DEF WholeOrFirst
  <2>2. InBuffer \o wire[cur] = <<>>
    BY FlattenEmpty DEF Ahead
  <2>3. InBuffer = <<>>
    BY <1>2, <1>3, <2>2, ConcatEqualIffEmpty
  <2>4. QED
    BY <2>1, <2>3, StreamLength
<1>6. /\ Head(q) \in Messages /\ FlattenSeq(Tail(q)) \in Seq(Byte)
      /\ Len(Head(q)) \in 2..BufLen
      /\ InBuffer \o wire[cur] = Head(q) \o FlattenSeq(Tail(q))
  BY <1>5, FirstMessage, StreamBytes, MessageShape, Zenon DEF Ahead
<1>7. buflen >= 2 => MsgLen = Len(Head(q))
  BY <1>1, <1>2, <1>6, SizeAtHead
<1>8. Len(Head(q)) <= buflen => Claimed = Head(q)
  BY <1>1, <1>2, <1>6, ClaimedIsMessage
<1>9. buflen < Len(Head(q)) => bufhead = 0
  <2> SUFFICES ASSUME buflen < Len(Head(q)), bufhead # 0 PROVE FALSE
    OBVIOUS
  <2>1. PICK s \in Seq(Messages) : s # <<>> /\ InBuffer = FlattenSeq(s)
    BY DEF WholeOrFirst
  <2>2. buflen >= 2 /\ Len(Head(s)) <= buflen /\ MsgLen = Len(Head(s))
    BY <1>4, <2>1
  <2>3. QED
    BY <1>3, <1>6, <1>7, <2>2, ConnectionAssumption
<1>10. buflen > Len(Head(q)) =>
         \E s \in Seq(Messages) : s # <<>> /\ Head(s) = Head(q) /\ InBuffer = FlattenSeq(s)
  <2> SUFFICES ASSUME buflen > Len(Head(q))
               PROVE  \E s \in Seq(Messages) : s # <<>> /\ Head(s) = Head(q) /\ InBuffer = FlattenSeq(s)
    OBVIOUS
  <2>1. Len(Head(q)) <= buflen /\ ~(buflen <= Len(Head(q)))
    BY <1>3, <1>6, ConnectionAssumption, SMTT(30)
  <2>2. PICK s \in Seq(Messages) : s # <<>> /\ InBuffer = FlattenSeq(s)
    BY <2>1 DEF WholeOrFirst
  <2>3. QED
    BY <1>4, <1>8, <2>1, <2>2
<1>11. QED
  BY <1>2, <1>5, <1>6, <1>7, <1>9, <1>10

(* A message that is replayed leaves the buffer, and the others are ahead. *)
LEMMA ReplayMoves ==
    ASSUME ConnInv, ctrlproto = "tcp", pc = "parse", replay, UNCHANGED netVars,
           NEW q \in Seq(Messages), Ahead(q), WholeOrFirst(q)
    PROVE  /\ ConnTypes'
           /\ Tail(q) \in Seq(Messages) /\ Ahead(Tail(q))'
           /\ pc' = "recv"  => LessThanOne(Tail(q))'
           /\ pc' = "parse" => WholeOrFirst(Tail(q))'
           /\ pc' \in {"recv", "parse"}
<1> DEFINE m == Head(q)
           r == FlattenSeq(Tail(q))
           w == wire[cur]
<1>1. ConnTypes /\ StreamInv
  BY DEF ConnInv
<1>2. /\ cur \in Client /\ q # <<>> /\ m \in Messages /\ Len(m) \in 2..BufLen
      /\ InBuffer \o w = m \o r
      /\ buflen >= 2 => MsgLen = Len(m)
      /\ buflen > Len(m) => \E s \in Seq(Messages) : /\ s # <<>> /\ Head(s) = m
                                                     /\ InBuffer = FlattenSeq(s)
  BY ParsesFirst
<1>3. /\ InBuffer \in Seq(Byte) /\ Len(InBuffer) = buflen /\ buflen \in Nat
      /\ \A i \in 1..buflen : InBuffer[i] = buf[bufhead + i - 1]
      /\ bufhead \in Nat /\ bufhead + buflen <= BufLen
  BY <1>1, BufferBytes
<1>4. m \in Seq(Byte) /\ r \in Seq(Byte) /\ w \in Seq(Byte) /\ q = <<m>> \o Tail(q)
      /\ Tail(q) \in Seq(Messages)
  <2>1. Tail(q) \in Seq(Messages) /\ q = <<m>> \o Tail(q)
    BY <1>2, FirstMessage
  <2>2. m \in Seq(Byte)
    BY <1>2, MessageShape
  <2>3. r \in Seq(Byte)
    BY <2>1, StreamBytes
  <2>4. w \in Seq(Byte)
    BY <1>1, <1>2 DEF StreamInv, Byte
  <2>5. QED
    BY <2>1, <2>2, <2>3, <2>4
<1> HIDE DEF m, r, w
<1>5. MsgLen = Len(m) /\ Len(m) <= buflen /\ Len(m) \in Nat
      /\ replayed' = Append(replayed, Claimed) /\ UNCHANGED <<cur, buf>>
      /\ IF buflen > Len(m)
         THEN bufhead' = bufhead + Len(m) /\ buflen' = buflen - Len(m) /\ pc' = "parse"
         ELSE bufhead' = 0 /\ buflen' = 0 /\ pc' = "recv"
  <2>1. Len(m) \in Nat /\ Len(m) >= 2
    BY <1>2, ConnectionAssumption
  <2>2. /\ buflen >= 2 /\ buflen >= MsgLen
        /\ replayed' = Append(replayed, Claimed) /\ UNCHANGED <<cur, buf>>
        /\ IF buflen > MsgLen
           THEN bufhead' = bufhead + MsgLen /\ buflen' = buflen - MsgLen /\ pc' = "parse"
           ELSE bufhead' = 0 /\ buflen' = 0 /\ pc' = "recv"
    BY DEF replay, Complete, keep_rest
  <2>3. MsgLen = Len(m)
    BY <1>2, <2>2
  <2> HIDE DEF MsgLen
  <2>4. Len(m) <= buflen
    BY <1>3, <2>1, <2>2, <2>3
  <2>5. QED
    BY <2>1, <2>2, <2>3, <2>4
<1>6. Claimed = m
  BY <1>1, <1>2, <1>4, <1>5, ClaimedIsMessage
<1>7. PICK t \in Seq(Byte) : InBuffer = m \o t /\ t \o w = r
  <2>1. Len(m) <= Len(InBuffer)
    BY <1>3, <1>5
  <2>2. BeginsWith(InBuffer, w, m, r, Byte)
    BY <1>3, <1>4, SplitFirst
  <2>3. QED
    BY <1>2, <2>1, <2>2 DEF BeginsWith
<1>8. /\ Len(t) = buflen - Len(m) /\ Len(t) \in Nat
      /\ \A i \in 1..Len(t) : t[i] = buf[(bufhead + Len(m)) + i - 1]
  <2>1. /\ Len(m \o t) = Len(m) + Len(t) /\ Len(t) \in Nat
        /\ \A i \in 1..Len(m) + Len(t) : (m \o t)[i] = IF i <= Len(m) THEN m[i] ELSE t[i - Len(m)]
    BY <1>4, <1>7, ConcatProperties, LenProperties
  <2>2. Len(t) = buflen - Len(m)
    BY <1>3, <1>5, <1>7, <2>1
  <2>3. ASSUME NEW i \in 1..Len(t) PROVE t[i] = buf[(bufhead + Len(m)) + i - 1]
    <3>1. /\ Len(m) + i \in 1..buflen /\ Len(m) + i \in 1..Len(m) + Len(t)
          /\ (Len(m) + i) - Len(m) = i /\ ~(Len(m) + i <= Len(m))
          /\ bufhead + (Len(m) + i) - 1 = (bufhead + Len(m)) + i - 1
      BY <1>3, <1>5, <2>1, <2>2, <2>3, SMTT(30)
    <3>2. InBuffer[Len(m) + i] = t[i]
      BY <1>7, <2>1, <3>1
    <3>3. InBuffer[Len(m) + i] = buf[bufhead + (Len(m) + i) - 1]
      BY <1>3, <3>1
    <3>4. QED
      BY <3>1, <3>2, <3>3
  <2>4. QED
    BY <2>1, <2>2, <2>3
<1>9. InBuffer' = t
  <2>1. CASE buflen > Len(m)
    <3>1. buf \in [0..BufLen - 1 -> Byte] /\ bufhead + Len(m) \in Nat
          /\ (bufhead + Len(m)) + Len(t) <= BufLen
      <4>1. buf \in [0..BufLen - 1 -> Byte]
        BY <1>1 DEF ConnTypes, Byte
      <4>2. (bufhead + Len(m)) + Len(t) = bufhead + buflen /\ bufhead + Len(m) \in Nat
        BY <1>3, <1>5, <1>8
      <4>3. QED
        BY <1>3, <4>1, <4>2
    <3>2. \A i \in 1..Len(t) : buf[(bufhead + Len(m)) + i - 1] = t[i]
      BY <1>8
    <3>3. Slice(buf, bufhead + Len(m), Len(t)) = t
      BY <1>8, <3>1, <3>2, WindowIs
    <3>4. QED
      BY <1>5, <1>8, <2>1, <3>3 DEF InBuffer
  <2>2. CASE ~(buflen > Len(m))
    <3>1. Len(t) = 0 /\ buflen' = 0
      BY <1>3, <1>5, <1>8, <2>2
    <3>2. t = <<>>
      BY <3>1, EmptySeq
    <3>3. QED
      BY <3>1, <3>2 DEF InBuffer, Slice
  <2>3. QED
    BY <2>1, <2>2
<1>10. replayed' = Append(replayed, m) /\ replayed \in Seq(Messages)
       /\ replayed' \in Seq(Messages)
  BY <1>1, <1>2, <1>5, <1>6, AppendProperties DEF ConnTypes
<1>11. ConnTypes'
  <2>1. bufhead' \in 0..BufLen /\ buflen' \in 0..BufLen - bufhead'
    BY <1>3, <1>5, ConnectionAssumption, SMTT(30)
  <2>2. QED
    BY <1>1, <1>5, <1>10, <2>1 DEF ConnTypes, netVars
<1>12. Ahead(Tail(q))'
  <2>1. sent'[cur'] = replayed \o (<<m>> \o Tail(q))
    BY <1>4, <1>5, Zenon DEF Ahead, netVars
  <2>2. Joined(replayed, <<m>>, Tail(q)) /\ Append(replayed, m) = replayed \o <<m>>
    <3>1. <<m>> \in Seq(Messages)
      BY <1>2
    <3>2. QED
      BY <1>2, <1>4, <1>10, <3>1, AllJoined, AppendIsConcat
  <2>3. sent'[cur'] = replayed' \o Tail(q)
    BY <1>10, <2>1, <2>2, Zenon DEF Joined
  <2>4. wire'[cur'] = w
    BY <1>5 DEF netVars, w
  <2>5. FlattenSeq(Tail(q)) = InBuffer' \o wire'[cur']
    BY <1>7, <1>9, <2>4, Zenon DEF r
  <2>6. QED
    BY <2>3, <2>5 DEF Ahead
<1>13. pc' = "recv" => LessThanOne(Tail(q))'
  <2> SUFFICES ASSUME pc' = "recv" PROVE LessThanOne(Tail(q))'
    OBVIOUS
  <2>1. bufhead' = 0 /\ buflen' = 0
    BY <1>5
  <2>2. Tail(q) # <<>> => Len(Head(Tail(q))) \in 2..BufLen
    BY <1>4, StreamLength
  <2>3. QED
    BY <2>1, <2>2, ConnectionAssumption, SMTT(30) DEF LessThanOne
<1>14. pc' = "parse" => WholeOrFirst(Tail(q))'
  <2> SUFFICES ASSUME pc' = "parse" PROVE WholeOrFirst(Tail(q))'
    OBVIOUS
  <2>1. buflen > Len(m)
    BY <1>5
  <2>2. PICK s \in Seq(Messages) : s # <<>> /\ Head(s) = m /\ InBuffer = FlattenSeq(s)
    BY <1>2, <2>1
  <2>3. Tail(s) \in Seq(Messages) /\ FlattenSeq(Tail(s)) \in Seq(Byte)
        /\ FlattenSeq(s) = m \o FlattenSeq(Tail(s))
    BY <2>2, FirstMessage, StreamBytes
  <2>4. t = FlattenSeq(Tail(s))
    <3>1. m \o t = m \o FlattenSeq(Tail(s))
      BY <1>7, <2>2, <2>3, Zenon
    <3>2. QED
      BY <1>4, <2>3, <3>1, ConcatSimplifications, ZenonT(30)
  <2>5. Tail(s) # <<>>
    <3>1. Len(t) # 0
      BY <1>3, <1>5, <1>8, <2>1
    <3>2. t # <<>>
      BY <3>1
    <3>3. QED
      BY <2>4, <3>2, FlattenEmpty
  <2>6. QED
    BY <1>9, <2>3, <2>4, <2>5 DEF WholeOrFirst
<1>15. QED
  BY <1>4, <1>5, <1>11, <1>12, <1>13, <1>14

(* Parsing keeps what is ahead, or moves its first message to the replay.  *)
LEMMA ParseKeeps ==
    ASSUME ConnInv, ctrlproto = "tcp", UNCHANGED ctrlproto, parse
    PROVE  ConnTypes' /\ StreamInv'
<1>1. ConnTypes /\ StreamInv
  BY DEF ConnInv
<1>2. pc = "parse" /\ UNCHANGED netVars
      /\ (parse_short \/ parse_zero \/ parse_partial \/ parse_mismatch \/ replay)
  BY DEF parse
<1>3. PICK q \in Seq(Messages) : Ahead(q) /\ WholeOrFirst(q)
  BY <1>1, <1>2 DEF StreamInv
<1>4. /\ cur \in Client /\ q # <<>> /\ Len(Head(q)) \in 2..BufLen
      /\ buflen >= 2 => MsgLen = Len(Head(q))
      /\ buflen < Len(Head(q)) => bufhead = 0
  BY <1>2, <1>3, ParsesFirst
<1>5. bufhead \in Nat /\ buflen \in Nat
  BY <1>1, BufferBytes
<1>6. ASSUME UNCHANGED <<cur, buf, bufhead, buflen, replayed>>, buflen < Len(Head(q)),
             pc' = "recv"
      PROVE  ConnTypes' /\ StreamInv'
  <2>1. ConnTypes'
    BY <1>1, <1>2, <1>6 DEF ConnTypes, netVars
  <2>2. Ahead(q)' /\ LessThanOne(q)'
    BY <1>2, <1>3, <1>4, <1>6 DEF Ahead, LessThanOne, InBuffer, netVars
  <2>3. \A d : Greeted(d)' <=> Greeted(d)
    BY <1>2 DEF Greeted, netVars
  <2>4. cur # NoClient
    BY <1>4, ConnectionAssumption
  <2>5. QED
    BY <1>1, <1>2, <1>6, <2>1, <2>2, <2>3, <2>4 DEF StreamInv, netVars
<1>7. CASE parse_short
  <2>1. buflen < Len(Head(q))
    BY <1>4, <1>5, <1>7, ConnectionAssumption DEF parse_short
  <2>2. QED
    BY <1>6, <1>7, <2>1 DEF parse_short
<1>8. CASE parse_zero \/ parse_mismatch
  <2>1. FALSE
    BY <1>4, <1>8, ConnectionAssumption DEF parse_zero, parse_mismatch
  <2>2. QED
    BY <2>1
<1>9. CASE parse_partial
  <2>1. buflen < Len(Head(q)) /\ bufhead = 0
    BY <1>4, <1>5, <1>9 DEF parse_partial
  <2>2. buf' = buf
    <3>1. buf' = [i \in 0..BufLen - 1 |-> IF i < buflen /\ bufhead + i < BufLen
                                          THEN buf[bufhead + i] ELSE buf[i]]
      BY <1>9 DEF parse_partial
    <3>2. \A i \in 0..BufLen - 1 : bufhead + i = i
      BY <2>1
    <3>3. buf' = [i \in 0..BufLen - 1 |-> buf[i]]
      BY <3>1, <3>2
    <3>4. QED
      BY <1>1, <3>3 DEF ConnTypes
  <2>3. QED
    BY <1>6, <1>9, <2>1, <2>2 DEF parse_partial
<1>10. CASE replay
  <2>1. /\ ConnTypes'
        /\ Tail(q) \in Seq(Messages) /\ Ahead(Tail(q))'
        /\ pc' = "recv"  => LessThanOne(Tail(q))'
        /\ pc' = "parse" => WholeOrFirst(Tail(q))'
        /\ pc' \in {"recv", "parse"}
    BY <1>2, <1>3, <1>10, ReplayMoves
  <2>2. \A d : Greeted(d)' <=> Greeted(d)
    BY <1>2 DEF Greeted, netVars
  <2>3. cur # NoClient /\ cur' = cur
    BY <1>4, <1>10, ConnectionAssumption DEF replay
  <2>4. QED
    BY <1>1, <1>2, <2>1, <2>2, <2>3 DEF StreamInv, netVars
<1>11. QED
  BY <1>2, <1>7, <1>8, <1>9, <1>10

-----------------------------------------------------------------------------
(***************************************************************************)
(* Over UDP.                                                               *)
(***************************************************************************)

(* What clients send and the network loses leaves messages on the way.     *)
LEMMA FlyingKeeps ==
    ASSUME ConnInv, ctrlproto = "udp", Network
    PROVE  ConnTypes' /\ DatagramInv'
<1>1. ConnTypes /\ DatagramInv
  BY DEF ConnInv
<1>2. <<>> \in Seq(Messages) /\ ctrlproto # "tcp"
  OBVIOUS
<1>3. ASSUME NEW f \in Seq(Messages), NEW c \in Client, wire' = [wire EXCEPT ![c] = f],
             client' = client \/ client' = [client EXCEPT ![c] = "accepted"],
             UNCHANGED <<ctrlproto, sent, pc, cur, bufVars, replayed>>
      PROVE  ConnTypes' /\ DatagramInv'
  <2>1. ConnTypes'
    BY <1>1, <1>3 DEF ConnTypes, bufVars
  <2>2. DatagramInv'
    BY <1>1, <1>3 DEF DatagramInv, bufVars, InBuffer
  <2>3. QED
    BY <2>1, <2>2
<1>4. ASSUME NEW c \in Client, NEW h \in Handshakes, connect(c, h), UNCHANGED ctrlproto
      PROVE  ConnTypes' /\ DatagramInv'
  BY <1>2, <1>3, <1>4 DEF connect
<1>5. ASSUME NEW c \in Client, NEW m \in Messages, client_send(c, m), UNCHANGED ctrlproto
      PROVE  ConnTypes' /\ DatagramInv'
  <2>1. wire[c] \in Seq(Messages)
    BY <1>1 DEF DatagramInv
  <2>2. Append(wire[c], m) \in Seq(Messages)
    BY <2>1, AppendProperties
  <2>3. QED
    BY <1>2, <1>3, <1>5, <2>2 DEF client_send
<1>6. ASSUME NEW c \in Client, datagram_lost(c), UNCHANGED ctrlproto
      PROVE  ConnTypes' /\ DatagramInv'
  <2>1. PICK i \in 1..Len(wire[c]) : wire' = [wire EXCEPT ![c] = RemoveAt(@, i)]
    BY <1>6 DEF datagram_lost
  <2>2. wire[c] \in Seq(Messages) /\ Len(wire[c]) \in Nat
    BY <1>1 DEF DatagramInv
  <2>3. RemoveAt(wire[c], i) \in Seq(Messages)
    <3>1. /\ SubSeq(wire[c], 1, i - 1) \in Seq(Messages)
          /\ SubSeq(wire[c], i + 1, Len(wire[c])) \in Seq(Messages)
      BY <2>1, <2>2
    <3>2. QED
      BY <3>1, ConcatProperties DEF RemoveAt
  <2>4. QED
    BY <1>3, <1>6, <2>1, <2>3 DEF datagram_lost
<1>7. QED
  BY <1>2, <1>4, <1>5, <1>6 DEF Network, client_close

(* A datagram that is received is alone in the buffer.                     *)
LEMMA DatagramKeeps ==
    ASSUME ConnInv, ctrlproto = "udp", Datagrams
    PROVE  ConnTypes' /\ DatagramInv'
<1>1. ConnTypes /\ DatagramInv
  BY DEF ConnInv
<1>2. PICK c \in Client, d \in Messages \cup Malformed, again \in BOOLEAN : recvfrom(c, d, again)
  BY DEF Datagrams
<1>3. d \in Seq(Byte) /\ Len(d) \in Nat /\ Len(d) <= BufLen
  <2>1. d \in Seq(Byte) /\ Len(d) <= BufLen
    BY ConnectionAssumption DEF Byte
  <2>2. QED
    BY <2>1, LenProperties
<1>4. wire' \in [Client -> Seq(Messages)]
  <2>1. CASE wire' = wire
    BY <1>1, <2>1 DEF DatagramInv
  <2>2. CASE \E i \in 1..Len(wire[c]) : wire' = [wire EXCEPT ![c] = RemoveAt(@, i)]
    <3>1. PICK i \in 1..Len(wire[c]) : wire' = [wire EXCEPT ![c] = RemoveAt(@, i)]
      BY <2>2
    <3>2. wire[c] \in Seq(Messages) /\ Len(wire[c]) \in Nat
      BY <1>1 DEF DatagramInv
    <3>3. RemoveAt(wire[c], i) \in Seq(Messages)
      <4>1. /\ SubSeq(wire[c], 1, i - 1) \in Seq(Messages)
            /\ SubSeq(wire[c], i + 1, Len(wire[c])) \in Seq(Messages)
        BY <3>1, <3>2
      <4>2. QED
        BY <4>1, ConcatProperties DEF RemoveAt
    <3>4. QED
      BY <1>1, <3>1, <3>3 DEF DatagramInv
  <2>3. QED
    BY <1>2, <2>1, <2>2 DEF recvfrom
<1>5. /\ buf' = [i \in 0..BufLen - 1 |-> IF i < Len(d) THEN d[i + 1] ELSE buf[i]]
      /\ bufhead' = 0 /\ buflen' = Len(d) /\ cur' = c /\ pc' = "parse"
      /\ UNCHANGED <<client, sent, replayed>>
  BY <1>2 DEF recvfrom
<1>6. buf' \in [0..BufLen - 1 -> Byte]
  <2>1. \A i \in 0..BufLen - 1 : i < Len(d) => d[i + 1] \in Byte
    <3> SUFFICES ASSUME NEW i \in 0..BufLen - 1, i < Len(d) PROVE d[i + 1] \in Byte
      OBVIOUS
    <3>1. i + 1 \in 1..Len(d)
      BY <1>3, ConnectionAssumption
    <3>2. QED
      BY <1>3, <3>1, ElementOfSeq
  <2>2. QED
    BY <1>1, <1>5, <2>1, ZenonT(30) DEF ConnTypes, Byte
<1>7. InBuffer' = d
  <2>1. \A i \in 1..Len(d) : buf'[0 + i - 1] = d[i]
    <3> SUFFICES ASSUME NEW i \in 1..Len(d) PROVE buf'[0 + i - 1] = d[i]
      OBVIOUS
    <3>1. /\ 0 + i - 1 = i - 1 /\ i - 1 \in 0..BufLen - 1 /\ i - 1 < Len(d)
          /\ (i - 1) + 1 = i
      BY <1>3, ConnectionAssumption
    <3>2. buf'[i - 1] = d[(i - 1) + 1]
      BY <1>5, <3>1
    <3>3. QED
      BY <3>1, <3>2
  <2>2. \A b \in [0..BufLen - 1 -> Byte] :
          (\A i \in 1..Len(d) : b[0 + i - 1] = d[i]) => Slice(b, 0, Len(d)) = d
    <3>1. 0 + Len(d) <= BufLen
      BY <1>3
    <3>2. QED
      BY <1>3, <3>1, WindowIs, ZenonT(30)
  <2>3. Slice(buf', 0, Len(d)) = d
    BY <1>6, <2>1, <2>2
  <2>4. QED
    BY <1>5, <2>3 DEF InBuffer
<1>8. ConnTypes'
  BY <1>1, <1>3, <1>5, <1>6, ConnectionAssumption DEF ConnTypes, Byte
<1>9. QED
  BY <1>4, <1>5, <1>7, <1>8 DEF DatagramInv

(* Only a message is replayed of it, and the buffer is free for the next.  *)
LEMMA ParseDatagram ==
    ASSUME ConnInv, ctrlproto = "udp", Server
    PROVE  ConnTypes' /\ DatagramInv'
<1>1. ConnTypes /\ DatagramInv
  BY DEF ConnInv
<1>2. parse
  BY <1>1 DEF Server, accept, recv_handshake, recv, recv_end, DatagramInv
<1>3. /\ pc = "parse" /\ UNCHANGED netVars /\ bufhead = 0
      /\ parse_short \/ parse_zero \/ parse_mismatch \/ replay
  BY <1>1, <1>2 DEF parse, parse_partial, DatagramInv
<1>4. InBuffer \in Messages \cup Malformed
  BY <1>1, <1>3 DEF DatagramInv
<1>5. CASE parse_short \/ parse_zero \/ parse_mismatch
  <2>1. pc' = "recv" /\ bufhead' = 0 /\ UNCHANGED <<cur, buf, buflen, replayed>>
    BY <1>5 DEF parse_short, parse_zero, parse_mismatch
  <2>2. ConnTypes'
    BY <1>1, <1>3, <2>1 DEF ConnTypes, netVars
  <2>3. QED
    BY <1>1, <1>3, <2>1, <2>2 DEF DatagramInv, netVars
<1>6. CASE replay
  <2>1. /\ buflen >= 2 /\ buflen = MsgLen /\ replayed' = Append(replayed, Claimed)
        /\ bufhead' = 0 /\ buflen' = 0 /\ pc' = "recv" /\ UNCHANGED <<cur, buf>>
    BY <1>6 DEF replay, Complete, keep_rest
  <2>2. /\ InBuffer \in Seq(Byte) /\ Len(InBuffer) = buflen /\ buflen \in Nat
        /\ \A i \in 1..buflen : InBuffer[i] = buf[bufhead + i - 1]
    BY <1>1, BufferBytes
  <2>3. InBuffer[1] * 256 + InBuffer[2] = Len(InBuffer)
    <3>1. /\ 1 \in 1..buflen /\ 2 \in 1..buflen
          /\ bufhead + 1 - 1 = bufhead /\ bufhead + 2 - 1 = bufhead + 1
      BY <1>3, <2>1, <2>2
    <3>2. InBuffer[1] = buf[bufhead] /\ InBuffer[2] = buf[bufhead + 1]
      BY <2>2, <3>1
    <3>3. QED
      BY <2>1, <2>2, <3>2 DEF MsgLen
  <2>4. InBuffer \in Messages
    BY <1>4, <2>1, <2>2, <2>3, ConnectionAssumption, SMTT(30)
  <2>5. Claimed = InBuffer
    <3>1. Len(InBuffer) <= buflen /\ <<>> \in Seq(Byte)
      BY <2>2
    <3>2. QED
      BY <1>1, <2>4, <3>1, ClaimedIsMessage
  <2>6. replayed' \in Seq(Messages)
    BY <1>1, <2>1, <2>4, <2>5, AppendProperties DEF ConnTypes
  <2>7. ConnTypes'
    BY <1>1, <1>3, <2>1, <2>6, ConnectionAssumption, SMTT(30) DEF ConnTypes, netVars
  <2>8. QED
    BY <1>1, <1>3, <2>1, <2>7 DEF DatagramInv, netVars
<1>7. QED
  BY <1>3, <1>5, <1>6

-----------------------------------------------------------------------------
(* Every step of the clients, the network and the server keeps it.         *)
LEMMA ConnInvNext == ConnInv /\ [Next]_vars => ConnInv'
<1> SUFFICES ASSUME ConnInv, [Next]_vars PROVE ConnInv'
  OBVIOUS
<1>1. Tidy /\ ctrlproto \in Protos /\ ConnTypes
      /\ (ctrlproto = "tcp" => StreamInv) /\ (ctrlproto = "udp" => DatagramInv)
  BY DEF ConnInv
<1>2. ctrlproto = "tcp" \/ ctrlproto = "udp"
  BY <1>1, ConnectionAssumption
<1>3. CASE UNCHANGED vars
  <2>1. ConnTypes'
    BY <1>1, <1>3 DEF ConnTypes, vars, netVars, bufVars
  <2>2. InBuffer' = InBuffer /\ \A d : Greeted(d)' <=> Greeted(d)
    BY <1>3 DEF InBuffer, Greeted, vars, netVars, bufVars
  <2>3. \A q : /\ Ahead(q)' <=> Ahead(q)
               /\ LessThanOne(q)' <=> LessThanOne(q)
               /\ WholeOrFirst(q)' <=> WholeOrFirst(q)
    BY <1>3, <2>2 DEF Ahead, LessThanOne, WholeOrFirst, vars, netVars, bufVars
  <2>4. ctrlproto = "tcp" => StreamInv'
    BY <1>1, <1>3, <2>2, <2>3 DEF StreamInv, vars, netVars, bufVars
  <2>5. ctrlproto = "udp" => DatagramInv'
    BY <1>1, <1>3, <2>2 DEF DatagramInv, vars, netVars, bufVars
  <2>6. QED
    BY <1>1, <1>3, <2>1, <2>4, <2>5 DEF ConnInv, vars
<1>4. CASE Next /\ ctrlproto = "udp"
  <2>1. UNCHANGED ctrlproto
    BY <1>4 DEF Next, Server, Network, Datagrams
  <2>2. ConnTypes' /\ DatagramInv'
    BY <1>4, FlyingKeeps, DatagramKeeps, ParseDatagram DEF Next
  <2>3. QED
    BY <1>1, <1>4, <2>1, <2>2 DEF ConnInv
<1>5. CASE Next /\ ctrlproto = "tcp"
  <2>1. UNCHANGED ctrlproto
    BY <1>5 DEF Next, Server, Network, Datagrams
  <2>2. ConnTypes' /\ StreamInv'
    <3>1. ASSUME NEW c \in Client, client_close(c) \/ accept(c) PROVE ConnTypes' /\ StreamInv'
      BY <1>5, <2>1, <3>1, CloseKeeps
    <3>2. ASSUME NEW c \in Client, NEW h \in Handshakes, connect(c, h)
          PROVE  ConnTypes' /\ StreamInv'
      BY <1>5, <2>1, <3>2, ConnectKeeps
    <3>3. ASSUME NEW c \in Client, NEW m \in Messages, client_send(c, m)
          PROVE  ConnTypes' /\ StreamInv'
      BY <1>5, <2>1, <3>3, SendKeeps
    <3>4. ASSUME NEW k \in 1..BufLen, recv_handshake(k) \/ recv(k)
          PROVE  ConnTypes' /\ StreamInv'
      BY <1>5, <2>1, <3>4, HandshakeKeeps, RecvKeeps
    <3>5. CASE recv_end
      BY <1>5, <2>1, <3>5, EndKeepsStream
    <3>6. CASE parse
      BY <1>5, <2>1, <3>6, ParseKeeps
    <3>7. ASSUME NEW c \in Client PROVE ~datagram_lost(c)
      BY <1>5 DEF datagram_lost
    <3>8. ~Datagrams
      BY <1>5 DEF Datagrams, recvfrom
    <3>9. QED
      BY <1>5, <3>1, <3>2, <3>3, <3>4, <3>5, <3>6, <3>7, <3>8 DEF Next, Server, Network
  <2>3. QED
    BY <1>1, <1>5, <2>1, <2>2 DEF ConnInv
<1>6. QED
  BY <1>2, <1>3, <1>4, <1>5

(* What the invariant says of what is replayed.                            *)
LEMMA ConnInvShows == ConnInv => TypeOK /\ ReplayedInOrder
<1> SUFFICES ASSUME ConnInv PROVE TypeOK /\ ReplayedInOrder
  OBVIOUS
<1>1. ConnTypes /\ ctrlproto \in Protos
      /\ (ctrlproto = "tcp" => StreamInv) /\ (ctrlproto = "udp" => DatagramInv)
  BY DEF ConnInv
<1>2. TypeOK
  BY <1>1, ConnectionAssumption, SMTT(30) DEF TypeOK, ConnTypes, StreamInv, DatagramInv
<1>3. MessagesIntact
  BY <1>1, ElementOfSeq DEF ConnTypes, MessagesIntact
<1>4. ASSUME Serving PROVE IsPrefix(replayed, sent[cur])
  <2>1. PICK q \in Seq(Messages) : sent[cur] = replayed \o q
    BY <1>1, <1>4 DEF StreamInv, Serving, Ahead
  <2>2. replayed \in Seq(Messages) /\ Len(replayed) \in Nat /\ Len(q) \in Nat
    BY <1>1 DEF ConnTypes
  <2>3. /\ Len(sent[cur]) = Len(replayed) + Len(q)
        /\ \A i \in 1..Len(replayed) : sent[cur][i] = replayed[i]
    BY <2>1, <2>2, ConcatProperties
  <2>4. SubSeq(sent[cur], 1, Len(replayed)) = SubSeq(replayed, 1, Len(replayed))
    BY <2>2, <2>3
  <2>5. QED
    BY <2>2, <2>3, <2>4 DEF IsPrefix
<1>5. QED
  BY <1>2, <1>3, <1>4 DEF ReplayedInOrder

(* A connection is left only by a restart, when nothing is ahead.          *)
LEMMA LeavesNothingStep ==
    ASSUME ConnInv, [Next]_vars, Serving, cur' = NoClient
    PROVE  replayed = sent[cur]
<1>1. ctrlproto = "tcp" /\ pc \in {"recv", "parse"} /\ cur # NoClient
  BY DEF Serving
<1>2. recv_end
  <2>1. cur' # cur
    BY <1>1
  <2>2. Next
    BY <2>1 DEF vars
  <2>3. ~Network /\ ~Datagrams /\ Server
    BY <1>1, <2>1, <2>2 DEF Next, Network, Datagrams, connect, client_send, client_close,
       datagram_lost, recvfrom
  <2>4. QED
    BY <1>1, <2>1, <2>3 DEF Server, accept, recv_handshake, recv, parse, parse_short,
       parse_zero, parse_partial, parse_mismatch, replay
<1>3. pc = "recv" /\ (wire[cur] = <<>> \/ buflen = BufLen)
  BY <1>1, <1>2 DEF recv_end
<1>4. QED
  BY <1>1, <1>3, NothingAhead

(***************************************************************************)
(* Whatever clients connect, send and close, however recv cuts the first   *)
(* message in the buffer, and whatever datagrams are lost, repeated and    *)
(* overtaken: what is replayed are messages, whole, and over TCP the ones  *)
(* that were sent, in order.                                               *)
(***************************************************************************)
THEOREM ReplayedInOrderCorrect == Spec /\ Tidy => [](TypeOK /\ ReplayedInOrder)
<1>1. QED
  BY ConnInvInit, ConnInvNext, ConnInvShows, PTL DEF Spec

(***************************************************************************)
(* Over TCP the server goes on to the next client only after it has        *)
(* replayed all that the last has sent.                                    *)
(***************************************************************************)
THEOREM LeavesNothingCorrect == Spec /\ Tidy => LeavesNothing
<1>1. ConnInv /\ [Next]_vars => [Serving /\ cur' = NoClient => replayed = sent[cur]]_vars
  BY LeavesNothingStep
<1>2. QED
  BY <1>1, ConnInvInit, ConnInvNext, PTL DEF Spec, LeavesNothing

-----------------------------------------------------------------------------
(***************************************************************************)
(* Keys and buttons.                                                       *)
(***************************************************************************)
Press(x)   == Wire[ToggleMessage(x, TRUE)]
Release(x) == Wire[ToggleMessage(x, FALSE)]

(* After the messages of p, x is down: it was pressed and not released.    *)
Down(p, x) ==
    \E i \in 1..Len(p) : p[i] = Press(x) /\ \A j \in i + 1..Len(p) : p[j] # Release(x)

Downs(p) == {x \in AllToggled : Down(p, x)}

(* What a user presses is a key or one of three buttons.                   *)
LEMMA ToggledKinds ==
    ASSUME NEW x \in AllToggled
    PROVE  /\ x \in Keys \/ x \in Buttons
           /\ x \in Buttons => x \in {"left", "middle", "right"} /\ x \notin Keys
           /\ x \in Keys => x \notin Buttons
<1>1. x \in SDLKey \cup {"left", "middle", "right"}
  BY InputAssumption DEF AllToggled
<1>2. QED
  BY <1>1 DEF Keys, Buttons

(* The three buttons have three numbers.                                   *)
LEMMA ButtonNumbers ==
    SDL_BUTTON("left") = 1 /\ SDL_BUTTON("middle") = 2 /\ SDL_BUTTON("right") = 3
  BY DEF SDL_BUTTON

(* The message that the client makes of it.                                *)
LEMMA MessageMade ==
    ASSUME NEW x \in AllToggled, NEW down \in BOOLEAN
    PROVE  /\ x \in Keys => ToggleMessage(x, down) = sdlmsg_keyboard(down, x)
           /\ x \in Buttons => ToggleMessage(x, down) = sdlmsg_mousekey(down, SDL_BUTTON(x))
<1>1. Conf.ctrlenable
  BY DEF Conf
<1>2. CASE x \in Keys
  <2>1. Toggle(x, down) = KeyEvent(down, x)
    BY <1>2 DEF Toggle
  <2>2. ProcessEvent(KeyEvent(down, x), Conf) = <<sdlmsg_keyboard(down, x)>>
    BY <1>1 DEF ProcessEvent, KeyEvent
  <2>3. QED
    BY <1>2, <2>1, <2>2, ToggledKinds DEF ToggleMessage
<1>3. CASE x \in Buttons
  <2>1. Toggle(x, down) = ButtonEvent(down, SDL_BUTTON(x))
    BY <1>3, ToggledKinds DEF Toggle
  <2>2. ProcessEvent(ButtonEvent(down, SDL_BUTTON(x)), Conf)
          = <<sdlmsg_mousekey(down, SDL_BUTTON(x))>>
    BY <1>1 DEF ProcessEvent, ButtonEvent
  <2>3. QED
    BY <1>3, <2>1, <2>2, ToggledKinds DEF ToggleMessage
<1>4. QED
  BY <1>2, <1>3

(* Different keys and buttons, pressed or released, have different ones.   *)
LEMMA MessagesDiffer ==
    ASSUME NEW x \in AllToggled, NEW y \in AllToggled, NEW d \in BOOLEAN, NEW e \in BOOLEAN,
           Wire[ToggleMessage(x, d)] = Wire[ToggleMessage(y, e)]
    PROVE  x = y /\ d = e
<1>1. ToggleMessage(x, d) = ToggleMessage(y, e)
  BY InputAssumption DEF ToggleMessages
<1>2. CASE x \in Keys /\ y \in Keys
  <2>1. sdlmsg_keyboard(d, x) = sdlmsg_keyboard(e, y)
    BY <1>1, <1>2, MessageMade
  <2>2. QED
    BY <2>1 DEF sdlmsg_keyboard
<1>3. CASE x \in Keys /\ y \in Buttons
  <2>1. sdlmsg_keyboard(d, x) = sdlmsg_mousekey(e, SDL_BUTTON(y))
    BY <1>1, <1>3, MessageMade
  <2>2. QED
    BY <2>1 DEF sdlmsg_keyboard, sdlmsg_mousekey
<1>4. CASE x \in Buttons /\ y \in Keys
  <2>1. sdlmsg_keyboard(e, y) = sdlmsg_mousekey(d, SDL_BUTTON(x))
    BY <1>1, <1>4, MessageMade
  <2>2. QED
    BY <2>1 DEF sdlmsg_keyboard, sdlmsg_mousekey
<1>5. CASE x \in Buttons /\ y \in Buttons
  <2>1. sdlmsg_mousekey(d, SDL_BUTTON(x)) = sdlmsg_mousekey(e, SDL_BUTTON(y))
    BY <1>1, <1>5, MessageMade
  <2>2. d = e /\ SDL_BUTTON(x) = SDL_BUTTON(y)
    BY <2>1 DEF sdlmsg_mousekey
  <2>3. x \in {"left", "middle", "right"} /\ y \in {"left", "middle", "right"}
    BY <1>5, ToggledKinds
  <2>4. QED
    BY <2>2, <2>3, ButtonNumbers
<1>6. QED
  BY <1>2, <1>3, <1>4, <1>5, ToggledKinds

(* The server reads the message that the client wrote.                     *)
LEMMA ReadsBack ==
    ASSUME NEW m \in ToggleMessages
    PROVE  Read(Wire[m]) = m
<1>1. \E n \in ToggleMessages : Wire[n] = Wire[m]
  OBVIOUS
<1>2. Read(Wire[m]) \in ToggleMessages /\ Wire[Read(Wire[m])] = Wire[m]
  BY <1>1 DEF Read
<1>3. QED
  BY <1>2, InputAssumption

(* Nothing is down before the first message,                               *)
LEMMA DownsEmpty == Downs(<<>>) = {}
  BY EmptySeq DEF Downs, Down

(* and a message about x changes whether x is down, and nothing else.      *)
LEMMA DownsAppend ==
    ASSUME NEW p \in Seq(Messages), NEW x \in AllToggled, NEW d \in BOOLEAN
    PROVE  /\ Wire[ToggleMessage(x, d)] \in Messages
           /\ Downs(Append(p, Wire[ToggleMessage(x, d)])) = Pressed(Downs(p), x, d)
<1> DEFINE m == Wire[ToggleMessage(x, d)]
           s == Append(p, m)
<1>1. m \in Messages
  BY InputAssumption DEF ToggleMessages
<1> HIDE DEF m
<1>2. /\ Len(p) \in Nat /\ Len(s) = Len(p) + 1 /\ s[Len(p) + 1] = m
      /\ \A i \in 1..Len(p) : s[i] = p[i]
  BY <1>1, AppendProperties, LenProperties
<1> HIDE DEF s
<1>3. ASSUME NEW y \in AllToggled, y # x PROVE Down(s, y) <=> Down(p, y)
  <2>1. m # Press(y) /\ m # Release(y)
    BY <1>3, MessagesDiffer DEF m, Press, Release
  <2>2. ASSUME Down(s, y) PROVE Down(p, y)
    <3>1. PICK i \in 1..Len(s) : s[i] = Press(y) /\ \A j \in i + 1..Len(s) : s[j] # Release(y)
      BY <2>2 DEF Down
    <3>2. i \in 1..Len(p)
      BY <1>2, <2>1, <3>1
    <3>3. \A j \in i + 1..Len(p) : p[j] # Release(y)
      BY <1>2, <3>1, <3>2
    <3>4. QED
      BY <1>2, <3>1, <3>2, <3>3 DEF Down
  <2>3. ASSUME Down(p, y) PROVE Down(s, y)
    <3>1. PICK i \in 1..Len(p) : p[i] = Press(y) /\ \A j \in i + 1..Len(p) : p[j] # Release(y)
      BY <2>3 DEF Down
    <3>2. \A j \in i + 1..Len(s) : s[j] # Release(y)
      <4> SUFFICES ASSUME NEW j \in i + 1..Len(s) PROVE s[j] # Release(y)
        OBVIOUS
      <4>1. (j \in i + 1..Len(p) /\ j \in 1..Len(p)) \/ j = Len(p) + 1
        BY <1>2
      <4>2. QED
        BY <1>2, <2>1, <3>1, <4>1
    <3>3. i \in 1..Len(s) /\ s[i] = Press(y)
      BY <1>2, <3>1
    <3>4. QED
      BY <3>2, <3>3 DEF Down
  <2>4. QED
    BY <2>2, <2>3
<1>4. Down(s, x) <=> d
  <2>1. CASE d
    <3>1. m = Press(x)
      BY <2>1 DEF m, Press
    <3>2. Len(s) \in 1..Len(s) /\ s[Len(s)] = Press(x) /\ \A j \in Len(s) + 1..Len(s) : FALSE
      BY <1>2, <3>1
    <3>3. Down(s, x)
      BY <3>2 DEF Down
    <3>4. QED
      BY <2>1, <3>3
  <2>2. CASE ~d
    <3>1. m = Release(x) /\ m # Press(x)
      BY <2>2, MessagesDiffer DEF m, Press, Release
    <3>2. ASSUME NEW i \in 1..Len(s), s[i] = Press(x) PROVE \E j \in i + 1..Len(s) : s[j] = Release(x)
      <4>1. i # Len(s)
        BY <1>2, <3>1, <3>2
      <4>2. Len(s) \in i + 1..Len(s) /\ s[Len(s)] = Release(x)
        BY <1>2, <3>1, <4>1
      <4>3. QED
        BY <4>2
    <3>3. ~Down(s, x)
      BY <3>2 DEF Down
    <3>4. QED
      BY <2>2, <3>3
  <2>3. QED
    BY <2>1, <2>2
<1>5. Downs(s) = Pressed(Downs(p), x, d)
  BY <1>3, <1>4 DEF Downs, Pressed
<1>6. QED
  BY <1>1, <1>5 DEF m, s


-----------------------------------------------------------------------------
(* What the server's machine can hold down: no key without a number.       *)
NativeKeys == {NativeKey(x) : x \in Keys} \ {NoKey}

Natives ==
    [keys : SUBSET NativeKeys, buttons : SUBSET (1..3), wheel : Int,
     pointer : {Anywhere, <<0, 0>>}]

(* A message about a key does what the user did, to the key that the       *)
(* machine has for it,                                                     *)
LEMMA ReplaysKey ==
    ASSUME NEW n \in Natives, NEW x \in Keys, NEW d \in BOOLEAN
    PROVE  LET r == sdlmsg_replay(machine, NoRect, n, ToggleMessage(x, d)) IN
           /\ r \in Natives
           /\ r.keys = IF NativeKey(x) = NoKey THEN n.keys ELSE Pressed(n.keys, NativeKey(x), d)
           /\ r.buttons = n.buttons
<1> DEFINE msg == ToggleMessage(x, d)
           r == sdlmsg_replay(machine, NoRect, n, msg)
<1>1. msg = [msgtype |-> "keyboard", is_pressed |-> d, sdlkey |-> x]
  BY MessageMade DEF Keys, sdlmsg_keyboard
<1> HIDE DEF msg
<1>2. r = replay_key(machine, n, msg)
  BY <1>1 DEF sdlmsg_replay, native_win32, native_osx, native_x11
<1>3. r = IF NativeKey(x) = NoKey THEN n ELSE PostKey(n, NativeKey(x), d)
  BY <1>1, <1>2 DEF replay_key, NativeKey
<1>4. NativeKey(x) # NoKey => NativeKey(x) \in NativeKeys
  BY DEF NativeKeys
<1> HIDE DEF r
<1>5. CASE NativeKey(x) = NoKey
  BY <1>3, <1>5 DEF msg, r
<1>6. CASE NativeKey(x) # NoKey
  <2>1. r = [n EXCEPT !.keys = Pressed(n.keys, NativeKey(x), d)]
    BY <1>3, <1>6 DEF PostKey
  <2>2. Pressed(n.keys, NativeKey(x), d) \in SUBSET NativeKeys
    BY <1>4, <1>6 DEF Pressed, Natives
  <2>3. r \in Natives /\ r.keys = Pressed(n.keys, NativeKey(x), d) /\ r.buttons = n.buttons
    BY <2>1, <2>2 DEF Natives
  <2>4. QED
    BY <1>6, <2>3 DEF msg, r
<1>7. QED
  BY <1>5, <1>6

(* and one about a button to the button.                                   *)
LEMMA ReplaysButton ==
    ASSUME NEW n \in Natives, NEW x \in Buttons, NEW d \in BOOLEAN
    PROVE  LET r == sdlmsg_replay(machine, NoRect, n, ToggleMessage(x, d)) IN
           /\ r \in Natives
           /\ r.keys = n.keys
           /\ r.buttons = Pressed(n.buttons, SDL_BUTTON(x), d)
<1> DEFINE msg == ToggleMessage(x, d)
           r == sdlmsg_replay(machine, NoRect, n, msg)
           b == SDL_BUTTON(x)
<1>1. x \in AllToggled /\ b \in 1..3
  BY ToggledKinds, ButtonNumbers DEF Buttons
<1> HIDE DEF b
<1>2. msg = [msgtype |-> "mousekey", is_pressed |-> d, mousebutton |-> b]
  BY <1>1, MessageMade DEF sdlmsg_mousekey, b
<1> HIDE DEF msg
<1>3. r = IF OnWindows(machine) THEN button_win32(n, msg)
          ELSE IF machine.backend = "osx" THEN button_osx(n, msg)
          ELSE XTestFakeButtonEvent(n, b, d)
  BY <1>2 DEF sdlmsg_replay, native_win32, native_osx, native_x11
<1> HIDE DEF r
<1>4. Pressed(n.buttons, b, d) \in SUBSET (1..3)
  BY <1>1 DEF Pressed, Natives
<1> DEFINE p == [n EXCEPT !.buttons = Pressed(n.buttons, b, d)]
<1>5. p \in Natives /\ p.keys = n.keys /\ p.buttons = Pressed(n.buttons, b, d)
  BY <1>4 DEF Natives
<1> HIDE DEF p
<1>6. PostButton(n, b, d) = p
  BY DEF PostButton, p
<1>7. \/ r = p
      \/ r = MoveTo(p, IF n.pointer = Anywhere THEN <<0, 0>> ELSE n.pointer)
      \/ r = Scroll(p, 0)
  <2>1. button_win32(n, msg) = p
    BY <1>1, <1>2, <1>6 DEF button_win32
  <2>2. button_osx(n, msg) = MoveTo(p, IF n.pointer = Anywhere THEN <<0, 0>> ELSE n.pointer)
    BY <1>1, <1>2, <1>6 DEF button_osx
  <2>3. XTestFakeButtonEvent(n, b, d) = Scroll(p, 0)
    BY <1>1, <1>6 DEF XTestFakeButtonEvent
  <2>4. QED
    BY <1>3, <2>1, <2>2, <2>3
<1>8. r \in Natives /\ r.keys = n.keys /\ r.buttons = Pressed(n.buttons, b, d)
  <2>1. (IF n.pointer = Anywhere THEN <<0, 0>> ELSE n.pointer) \in {Anywhere, <<0, 0>>}
    BY DEF Natives
  <2>2. QED
    BY <1>5, <1>7, <2>1 DEF Natives, MoveTo, Scroll
<1>9. QED
  BY <1>8 DEF r, msg, b

-----------------------------------------------------------------------------
(***************************************************************************)
(* The invariant of the keys: a user holds what the messages sent have     *)
(* pressed and not released; the machine, what the messages replayed have, *)
(* and what users held who left.                                           *)
(***************************************************************************)
Past == UNION {held[c] : c \in {d \in Client : client[d] = "closed"}}

(* What is replayed now: before the handshake, nothing.                    *)
Replaying == IF pc \in {"recv", "parse"} THEN Downs(replayed) ELSE {}

(* The keys of D are down, but for two that share a key of the machine's;  *)
(* and what is down is of D, or of P.                                      *)
Follows(n, D, P) ==
    /\ n.keys \subseteq {NativeKey(x) : x \in (P \cup D) \cap Keys}
    /\ n.buttons \subseteq {SDL_BUTTON(x) : x \in (P \cup D) \cap Buttons}
    /\ \A x \in D \cap Keys : Alone(x) /\ NativeKey(x) # NoKey => NativeKey(x) \in n.keys
    /\ \A x \in D \cap Buttons : SDL_BUTTON(x) \in n.buttons

(* Over TCP; a lost datagram may leave anything down.                      *)
KeysInv ==
    /\ \A c \in Client : held[c] = Downs(sent[c])
    /\ Follows(native, Replaying, Past)

(* The connection's invariant and the keys'.                               *)
InputInv ==
    /\ ConnInv
    /\ held \in [Client -> SUBSET AllToggled]
    /\ native \in Natives
    /\ ctrlproto = "tcp" => KeysInv

(* Nothing is held or down at the start.                                   *)
LEMMA InputInvInit == InputInit /\ Tidy => InputInv
<1> SUFFICES ASSUME InputInit, Tidy PROVE InputInv
  OBVIOUS
<1>1. ConnInv /\ held = [c \in Client |-> {}] /\ native = Idle
  BY ConnInvInit DEF InputInit
<1>2. native \in Natives /\ native.keys = {} /\ native.buttons = {}
  BY <1>1 DEF Idle, Natives
<1>3. ctrlproto = "tcp" => KeysInv
  <2> SUFFICES ASSUME ctrlproto = "tcp" PROVE KeysInv
    OBVIOUS
  <2>1. sent = [c \in Client |-> <<>>] /\ Replaying = {}
    BY DEF InputInit, Init, Replaying
  <2>2. QED
    BY <1>1, <1>2, <2>1, DownsEmpty DEF KeysInv, Follows
<1>4. QED
  BY <1>1, <1>2, <1>3 DEF InputInv

(* A message that is replayed about x changes what follows,                *)
LEMMA ReplayFollows ==
    ASSUME NEW n \in Natives, NEW x \in AllToggled, NEW d \in BOOLEAN,
           NEW D \in SUBSET AllToggled, NEW P \in SUBSET AllToggled, Follows(n, D, P)
    PROVE  LET r == sdlmsg_replay(machine, NoRect, n, ToggleMessage(x, d)) IN
           r \in Natives /\ Follows(r, Pressed(D, x, d), P)
<1> DEFINE r == sdlmsg_replay(machine, NoRect, n, ToggleMessage(x, d))
           E == Pressed(D, x, d)
<1>1. /\ x \in Keys => /\ r \in Natives /\ r.buttons = n.buttons
                       /\ r.keys = IF NativeKey(x) = NoKey THEN n.keys
                                   ELSE Pressed(n.keys, NativeKey(x), d)
      /\ x \in Buttons => /\ r \in Natives /\ r.keys = n.keys
                          /\ r.buttons = Pressed(n.buttons, SDL_BUTTON(x), d)
  BY ReplaysKey, ReplaysButton
<1> HIDE DEF r
<1>2. \A y \in AllToggled : y # x => (y \in E <=> y \in D)
  BY DEF Pressed
<1>3. x \in E <=> d
  BY DEF Pressed
<1>4. Keys \subseteq AllToggled /\ Buttons \subseteq AllToggled /\ Keys \cap Buttons = {}
  BY DEF Keys, Buttons
<1> HIDE DEF E
<1>5. n.keys \subseteq NativeKeys /\ NoKey \notin NativeKeys
  BY DEF Natives, NativeKeys
<1>6. \A y, z \in Buttons : SDL_BUTTON(y) = SDL_BUTTON(z) => y = z
  <2>1. \A y \in Buttons : y \in {"left", "middle", "right"}
    BY <1>4, ToggledKinds
  <2>2. QED
    BY <2>1, ButtonNumbers
<1>7. CASE x \in Keys
  <2>1. \A y \in Buttons : y \in E <=> y \in D
    BY <1>2, <1>4, <1>7
  <2>2. ASSUME NEW k \in r.keys PROVE \E y \in (P \cup E) \cap Keys : k = NativeKey(y)
    <3>1. CASE k = NativeKey(x) /\ d
      BY <1>3, <1>7, <3>1
    <3>2. CASE ~(k = NativeKey(x) /\ d)
      <4>1. k \in n.keys /\ (k # NativeKey(x) \/ d)
        BY <1>1, <1>5, <1>7, <2>2, <3>2 DEF Pressed
      <4>2. PICK y \in (P \cup D) \cap Keys : k = NativeKey(y)
        BY <4>1 DEF Follows
      <4>3. y \in P \cup E
        BY <1>2, <1>3, <1>4, <4>1, <4>2
      <4>4. QED
        BY <4>2, <4>3
    <3>3. QED
      BY <3>1, <3>2
  <2>3. ASSUME NEW y \in E \cap Keys, Alone(y), NativeKey(y) # NoKey PROVE NativeKey(y) \in r.keys
    <3>1. CASE y = x
      BY <1>1, <1>3, <1>7, <2>3, <3>1 DEF Pressed
    <3>2. CASE y # x
      <4>1. NativeKey(y) \in n.keys
        BY <1>2, <1>4, <2>3, <3>2 DEF Follows
      <4>2. NativeKey(x) # NativeKey(y)
        BY <1>7, <2>3, <3>2 DEF Alone
      <4>3. QED
        BY <1>1, <1>7, <4>1, <4>2 DEF Pressed
    <3>3. QED
      BY <3>1, <3>2
  <2>4. r.keys \subseteq {NativeKey(y) : y \in (P \cup E) \cap Keys}
    BY <2>2
  <2>5. r.buttons \subseteq {SDL_BUTTON(y) : y \in (P \cup E) \cap Buttons}
    BY <1>1, <1>7, <2>1 DEF Follows
  <2>6. \A y \in E \cap Buttons : SDL_BUTTON(y) \in r.buttons
    BY <1>1, <1>7, <2>1 DEF Follows
  <2>7. r \in Natives /\ Follows(r, E, P)
    BY <1>1, <1>7, <2>3, <2>4, <2>5, <2>6 DEF Follows
  <2>8. QED
    BY <2>7 DEF r, E
<1>8. CASE x \in Buttons
  <2>1. \A y \in Keys : y \in E <=> y \in D
    BY <1>2, <1>4, <1>8
  <2>2. ASSUME NEW b \in r.buttons PROVE \E y \in (P \cup E) \cap Buttons : b = SDL_BUTTON(y)
    <3>1. CASE b = SDL_BUTTON(x) /\ d
      BY <1>3, <1>8, <3>1
    <3>2. CASE ~(b = SDL_BUTTON(x) /\ d)
      <4>1. b \in n.buttons /\ (b # SDL_BUTTON(x) \/ d)
        BY <1>1, <1>8, <2>2, <3>2 DEF Pressed
      <4>2. PICK y \in (P \cup D) \cap Buttons : b = SDL_BUTTON(y)
        BY <4>1 DEF Follows
      <4>3. y \in P \cup E
        BY <1>2, <1>3, <1>4, <4>1, <4>2
      <4>4. QED
        BY <4>2, <4>3
    <3>3. QED
      BY <3>1, <3>2
  <2>3. ASSUME NEW y \in E \cap Buttons PROVE SDL_BUTTON(y) \in r.buttons
    <3>1. CASE y = x
      BY <1>1, <1>3, <1>8, <3>1 DEF Pressed
    <3>2. CASE y # x
      <4>1. SDL_BUTTON(y) \in n.buttons /\ SDL_BUTTON(y) # SDL_BUTTON(x)
        BY <1>2, <1>4, <1>6, <1>8, <3>2 DEF Follows
      <4>2. QED
        BY <1>1, <1>8, <4>1 DEF Pressed
    <3>3. QED
      BY <3>1, <3>2
  <2>4. r.buttons \subseteq {SDL_BUTTON(y) : y \in (P \cup E) \cap Buttons}
    BY <2>2
  <2>5. r.keys \subseteq {NativeKey(y) : y \in (P \cup E) \cap Keys}
    BY <1>1, <1>8, <2>1 DEF Follows
  <2>6. \A y \in E \cap Keys : Alone(y) /\ NativeKey(y) # NoKey => NativeKey(y) \in r.keys
    BY <1>1, <1>8, <2>1 DEF Follows
  <2>7. r \in Natives /\ Follows(r, E, P)
    BY <1>1, <1>8, <2>3, <2>4, <2>5, <2>6 DEF Follows
  <2>8. QED
    BY <2>7 DEF r, E
<1>9. QED
  BY <1>7, <1>8, ToggledKinds


(* What has just been released may be down in the past.                    *)
LEMMA FollowsLonger ==
    ASSUME NEW n, NEW D, NEW P, NEW E, NEW Q, Follows(n, D, P),
           E \subseteq D, P \cup D \subseteq Q \cup E
    PROVE  Follows(n, E, Q)
<1>1. P \cup D \subseteq Q \cup E /\ E \subseteq D
  OBVIOUS
<1>2. n.keys \subseteq {NativeKey(x) : x \in (Q \cup E) \cap Keys}
  BY <1>1 DEF Follows
<1>3. n.buttons \subseteq {SDL_BUTTON(x) : x \in (Q \cup E) \cap Buttons}
  BY <1>1 DEF Follows
<1>4. QED
  BY <1>1, <1>2, <1>3 DEF Follows

(* What the users and the server do are steps of the connection.           *)
LEMMA InputSteps == InputInv /\ [InputNext]_inputvars => [Next]_vars
<1> SUFFICES ASSUME InputInv, [InputNext]_inputvars PROVE [Next]_vars
  OBVIOUS
<1>1. CASE UNCHANGED inputvars
  BY <1>1 DEF inputvars
<1>2. ASSUME NEW c \in Client, NEW x \in Toggled[ctrlproto][c], user_toggles(c, x)
      PROVE  Next
  <2> DEFINE d == x \notin held[c]
  <2>1. x \in AllToggled /\ d \in BOOLEAN
    BY DEF InputInv, ConnInv, AllToggled
  <2>2. client_send(c, Wire[ToggleMessage(x, d)]) /\ UNCHANGED ctrlproto
    BY <1>2 DEF user_toggles
  <2> HIDE DEF d
  <2>3. ToggleMessage(x, d) \in ToggleMessages
    BY <2>1 DEF ToggleMessages
  <2>4. Wire[ToggleMessage(x, d)] \in Messages
    BY <2>3, InputAssumption
  <2>5. QED
    BY <2>2, <2>4 DEF Next, Network
<1>3. CASE other_network
  BY <1>3 DEF other_network, Next, Network
<1>4. CASE served
  BY <1>4 DEF served, Next
<1>5. QED
  BY <1>1, <1>2, <1>3, <1>4 DEF InputNext

(* What the server adds to the replay is a message about a key or button.  *)
LEMMA ReplayGrows ==
    ASSUME ConnInv, Server \/ Datagrams, Len(replayed') > Len(replayed)
    PROVE  /\ pc = "parse" /\ pc' \in {"recv", "parse"} /\ UNCHANGED <<netVars, cur>>
           /\ \E x \in AllToggled, d \in BOOLEAN :
                 /\ replayed' = Append(replayed, Wire[ToggleMessage(x, d)])
                 /\ Last(replayed') = Wire[ToggleMessage(x, d)]
<1>1. replayed \in Seq(Messages) /\ replayed' \in Seq(Messages)
  <2>1. ConnInv'
    BY ConnInvNext DEF Next
  <2>2. QED
    BY <2>1 DEF ConnInv, ConnTypes
<1>2. replay /\ parse
  <2>1. Len(replayed) \in Nat /\ Len(<<>>) = 0
    BY <1>1
  <2>2. replayed' # replayed /\ replayed' # <<>>
    BY <2>1
  <2>3. QED
    BY <2>2 DEF Server, Datagrams, accept, recv_handshake, recv, recv_end, recvfrom,
       parse, parse_short, parse_zero, parse_partial, parse_mismatch
<1>3. /\ pc = "parse" /\ pc' \in {"recv", "parse"} /\ UNCHANGED <<netVars, cur>>
      /\ replayed' = Append(replayed, Claimed)
  BY <1>2 DEF parse, replay, keep_rest
<1>4. Last(replayed') = Claimed /\ Claimed \in Messages
  <2> DEFINE n == Len(replayed)
  <2>1. /\ n \in Nat /\ Len(replayed') = n + 1 /\ replayed'[n + 1] = Claimed
    <3>1. \A e : Len(Append(replayed, e)) = n + 1 /\ Append(replayed, e)[n + 1] = e /\ n \in Nat
      BY <1>1
    <3>2. QED
      BY <1>3, <3>1
  <2>2. replayed'[n + 1] \in Messages
    <3>1. n + 1 \in 1..Len(replayed')
      BY <2>1
    <3>2. QED
      BY <1>1, <3>1, ElementOfSeq
  <2>3. QED
    BY <2>1, <2>2 DEF Last
<1>5. PICK x \in AllToggled, d \in BOOLEAN : Claimed = Wire[ToggleMessage(x, d)]
  BY <1>4, InputAssumption DEF ToggleMessages
<1>6. QED
  BY <1>3, <1>4, <1>5

(* So the machine does what some user did.                                 *)
LEMMA ServedReplays ==
    ASSUME ConnInv, served
    PROVE  \/ UNCHANGED native /\ ~(Len(replayed') > Len(replayed))
           \/ /\ pc = "parse" /\ pc' \in {"recv", "parse"} /\ UNCHANGED <<netVars, cur>>
              /\ \E x \in AllToggled, d \in BOOLEAN :
                    /\ replayed' = Append(replayed, Wire[ToggleMessage(x, d)])
                    /\ native' = sdlmsg_replay(machine, NoRect, native, ToggleMessage(x, d))
<1>1. /\ Server \/ Datagrams
      /\ native' = IF Len(replayed') > Len(replayed) /\ Last(replayed') \in Messages
                   THEN sdlmsg_replay(machine, NoRect, native, Read(Last(replayed')))
                   ELSE native
  BY DEF served
<1>2. CASE ~(Len(replayed') > Len(replayed))
  BY <1>1, <1>2
<1>3. CASE Len(replayed') > Len(replayed)
  <2>1. /\ pc = "parse" /\ pc' \in {"recv", "parse"} /\ UNCHANGED <<netVars, cur>>
        /\ \E x \in AllToggled, d \in BOOLEAN :
              /\ replayed' = Append(replayed, Wire[ToggleMessage(x, d)])
              /\ Last(replayed') = Wire[ToggleMessage(x, d)]
    BY <1>1, <1>3, ReplayGrows
  <2>2. PICK x \in AllToggled, d \in BOOLEAN :
              /\ replayed' = Append(replayed, Wire[ToggleMessage(x, d)])
              /\ Last(replayed') = Wire[ToggleMessage(x, d)]
    BY <2>1
  <2>3. ToggleMessage(x, d) \in ToggleMessages
    BY DEF ToggleMessages
  <2>4. Wire[ToggleMessage(x, d)] \in Messages
    BY <2>3, InputAssumption
  <2>5. Read(Wire[ToggleMessage(x, d)]) = ToggleMessage(x, d)
    BY <2>3, ReadsBack
  <2>6. native' = sdlmsg_replay(machine, NoRect, native, ToggleMessage(x, d))
    BY <1>1, <1>3, <2>2, <2>4, <2>5, Zenon
  <2>7. QED
    BY <2>1, <2>2, <2>6
<1>4. QED
  BY <1>2, <1>3

(* A user presses or releases, and the message says so.                    *)
LEMMA UserKeeps ==
    ASSUME InputInv, NEW c \in Client, NEW x \in Toggled[ctrlproto][c], user_toggles(c, x),
           ConnInv'
    PROVE  InputInv'
<1> DEFINE d == x \notin held[c]
           m == Wire[ToggleMessage(x, d)]
<1>1. /\ held \in [Client -> SUBSET AllToggled] /\ x \in AllToggled /\ d \in BOOLEAN
      /\ held' = [held EXCEPT ![c] = Pressed(held[c], x, d)]
      /\ client_send(c, m) /\ UNCHANGED <<ctrlproto, machine, native>>
  BY DEF user_toggles, InputInv, ConnInv, AllToggled
<1> HIDE DEF d
<1>2. held' \in [Client -> SUBSET AllToggled]
  BY <1>1 DEF Pressed
<1>3. native' \in Natives'
  BY <1>1 DEF InputInv, Natives, NativeKeys, NativeKey
<1>4. ASSUME ctrlproto = "tcp" PROVE KeysInv'
  <2>1. KeysInv /\ sent \in [Client -> Seq(Messages)]
    BY <1>4 DEF InputInv, ConnInv, ConnTypes
  <2>2. /\ client[c] \in {"connected", "accepted"}
        /\ sent' = [sent EXCEPT ![c] = Append(sent[c], m)]
        /\ UNCHANGED <<client, pc, replayed>>
    BY <1>1, <1>4 DEF client_send
  <2>3. Downs(Append(sent[c], m)) = Pressed(Downs(sent[c]), x, d)
    BY <1>1, <2>1, DownsAppend
  <2> HIDE DEF m
  <2>4. \A b \in Client : held'[b] = Downs(sent'[b])
    BY <1>1, <2>1, <2>2, <2>3 DEF KeysInv
  <2>5. Past' = Past
    BY <1>1, <2>2 DEF Past
  <2>6. Replaying' = Replaying
    BY <2>2 DEF Replaying
  <2>7. Follows(native, Replaying, Past)'
    BY <1>1, <2>1, <2>5, <2>6 DEF KeysInv, Follows, NativeKey, Alone
  <2>8. QED
    BY <2>4, <2>7 DEF KeysInv
<1>5. QED
  BY <1>1, <1>2, <1>3, <1>4 DEF InputInv


(* Others connect, and leave with what they hold.                          *)
LEMMA NetworkKeeps ==
    ASSUME InputInv, other_network, ConnInv'
    PROVE  InputInv'
<1>1. /\ UNCHANGED <<ctrlproto, machine, held, native, sent, pc, replayed>>
      /\ client \in [Client -> {"absent", "connected", "accepted", "closed"}]
  BY DEF other_network, connect, client_close, datagram_lost, InputInv, ConnInv, ConnTypes
<1>2. native' \in Natives' /\ held' \in [Client -> SUBSET AllToggled]
  BY <1>1 DEF InputInv, Natives, NativeKeys, NativeKey
<1>3. ASSUME ctrlproto = "tcp" PROVE KeysInv'
  <2>1. KeysInv /\ Replaying' = Replaying
    BY <1>1, <1>3 DEF InputInv, Replaying
  <2>2. \A c \in Client : client[c] = "closed" => client'[c] = "closed"
    BY <1>1, <1>3 DEF other_network, connect, client_close, datagram_lost
  <2>3. Past \subseteq Past'
    BY <1>1, <2>2 DEF Past
  <2>4. Follows(native, Replaying', Past')
    <3>1. Follows(native, Replaying, Past)
      BY <2>1 DEF KeysInv
    <3>2. Past \cup Replaying \subseteq Past' \cup Replaying'
      BY <2>1, <2>3
    <3>3. Replaying' \subseteq Replaying
      BY <2>1
    <3> HIDE DEF Past, Replaying, Follows
    <3>4. QED
      BY <3>1, <3>2, <3>3, FollowsLonger
  <2>5. Follows(native, Replaying, Past)'
    BY <1>1, <2>4 DEF Follows, NativeKey, Alone
  <2>6. QED
    BY <1>1, <2>1, <2>5 DEF KeysInv
<1>4. QED
  BY <1>1, <1>2, <1>3 DEF InputInv

(* When the server replays nothing, nothing is replayed now that was not   *)
(* before; and what is no longer is what a user held who left.             *)
LEMMA ServedLeaves ==
    ASSUME InputInv, ctrlproto = "tcp", Server, UNCHANGED held,
           ~(Len(replayed') > Len(replayed))
    PROVE  /\ UNCHANGED sent /\ Replaying' \subseteq Replaying
           /\ Past \cup Replaying \subseteq Past' \cup Replaying'
<1>1. /\ StreamInv /\ ConnTypes /\ ConnInv /\ KeysInv
      /\ client \in [Client -> {"absent", "connected", "accepted", "closed"}]
  BY DEF InputInv, ConnInv, ConnTypes
<1>2. ASSUME NEW c \in Client, accept(c)
      PROVE  /\ UNCHANGED sent /\ Replaying' \subseteq Replaying
             /\ Past \cup Replaying \subseteq Past' \cup Replaying'
  <2>1. Replaying = {} /\ Replaying' = {} /\ UNCHANGED sent
    BY <1>2 DEF accept, Replaying
  <2>2. \A d \in Client : client[d] = "closed" => client'[d] = "closed"
    BY <1>1, <1>2 DEF accept
  <2>3. Past \subseteq Past'
    BY <2>2 DEF Past
  <2>4. QED
    BY <2>1, <2>3
<1>3. ASSUME restart PROVE Replaying' = {} /\ Past \subseteq Past' /\ UNCHANGED sent
  <2>1. pc' = "accept" /\ client' = [client EXCEPT ![cur] = "closed"] /\ UNCHANGED sent
    BY <1>3 DEF restart
  <2>2. \A d \in Client : client[d] = "closed" => client'[d] = "closed"
    BY <1>1, <2>1
  <2>3. Past \subseteq Past'
    BY <2>2 DEF Past
  <2>4. QED
    BY <2>1, <2>3 DEF Replaying
<1>4. ASSUME NEW k \in 1..BufLen, recv_handshake(k)
      PROVE  /\ UNCHANGED sent /\ Replaying' \subseteq Replaying
             /\ Past \cup Replaying \subseteq Past' \cup Replaying'
  <2>1. pc = "handshake" /\ Replaying = {} /\ replayed = <<>> /\ UNCHANGED replayed
    BY <1>1, <1>4 DEF recv_handshake, StreamInv, Replaying
  <2>2. CASE restart
    BY <1>3, <2>1, <2>2
  <2>3. CASE pc' = "recv" /\ UNCHANGED <<client, sent, cur>>
    <3>1. Replaying' = {}
      BY <2>1, <2>3, DownsEmpty DEF Replaying
    <3>2. Past' = Past
      BY <2>3 DEF Past
    <3>3. QED
      BY <2>1, <2>3, <3>1, <3>2
  <2>4. QED
    BY <1>4, <2>2, <2>3 DEF recv_handshake
<1>5. ASSUME UNCHANGED <<client, sent, replayed>>, pc \in {"recv", "parse"},
             pc' \in {"recv", "parse"}
      PROVE  /\ UNCHANGED sent /\ Replaying' \subseteq Replaying
             /\ Past \cup Replaying \subseteq Past' \cup Replaying'
  BY <1>5 DEF Past, Replaying
<1>6. ASSUME NEW k \in 1..BufLen, recv(k)
      PROVE  /\ UNCHANGED sent /\ Replaying' \subseteq Replaying
             /\ Past \cup Replaying \subseteq Past' \cup Replaying'
  BY <1>5, <1>6 DEF recv
<1>7. CASE recv_end
  <2>1. pc \in {"handshake", "recv"} /\ restart /\ cur \in Client
    BY <1>1, <1>7 DEF recv_end, StreamInv, ConnTypes
  <2>2. Replaying \subseteq Past'
    <3>1. CASE pc = "handshake"
      BY <3>1 DEF Replaying
    <3>2. CASE pc = "recv"
      <4>1. replayed = sent[cur]
        BY <1>1, <1>7, <3>2, NothingAhead DEF recv_end
      <4>2. Replaying = held[cur]
        BY <1>1, <2>1, <3>2, <4>1 DEF KeysInv, Replaying
      <4>3. client'[cur] = "closed"
        BY <1>1, <2>1 DEF restart
      <4>4. held'[cur] \subseteq Past'
        BY <2>1, <4>3 DEF Past
      <4>5. QED
        BY <4>2, <4>4
    <3>3. QED
      BY <2>1, <3>1, <3>2
  <2>3. QED
    BY <1>3, <2>1, <2>2
<1>8. CASE parse
  <2>1. ~replay
    <3>1. \A e : Len(Append(replayed, e)) > Len(replayed)
      BY <1>1 DEF ConnTypes
    <3>2. QED
      BY <3>1 DEF replay
  <2>2. pc = "parse" /\ pc' = "recv" /\ UNCHANGED <<netVars, replayed>>
    BY <1>8, <2>1 DEF parse, parse_short, parse_zero, parse_partial, parse_mismatch
  <2>3. QED
    BY <1>5, <2>2 DEF netVars
<1>9. QED
  BY <1>2, <1>4, <1>6, <1>7, <1>8 DEF Server

(* So the machine follows what is replayed.                                *)
LEMMA ServedKeeps ==
    ASSUME InputInv, served, ConnInv'
    PROVE  InputInv'
<1>1. /\ UNCHANGED <<machine, held, ctrlproto>>
      /\ Server \/ Datagrams
      /\ held \in [Client -> SUBSET AllToggled] /\ native \in Natives
      /\ replayed \in Seq(Messages)
  BY DEF served, Server, Datagrams, InputInv, ConnInv, ConnTypes
<1>2. Natives' = Natives
  BY <1>1 DEF Natives, NativeKeys, NativeKey
<1>3. CASE \E x \in AllToggled, d \in BOOLEAN :
                 /\ pc = "parse" /\ pc' \in {"recv", "parse"} /\ UNCHANGED <<netVars, cur>>
                 /\ replayed' = Append(replayed, Wire[ToggleMessage(x, d)])
                 /\ native' = sdlmsg_replay(machine, NoRect, native, ToggleMessage(x, d))
  <2>1. PICK x \in AllToggled, d \in BOOLEAN :
                 /\ pc = "parse" /\ pc' \in {"recv", "parse"} /\ UNCHANGED <<netVars, cur>>
                 /\ replayed' = Append(replayed, Wire[ToggleMessage(x, d)])
                 /\ native' = sdlmsg_replay(machine, NoRect, native, ToggleMessage(x, d))
    BY <1>3
  <2>2. native' \in Natives
    <3>1. x \in Keys \/ x \in Buttons
      BY ToggledKinds
    <3>2. QED
      BY <1>1, <2>1, <3>1, ReplaysKey, ReplaysButton
  <2>3. ASSUME ctrlproto = "tcp" PROVE KeysInv'
    <3>1. KeysInv
      BY <2>3 DEF InputInv
    <3>2. Past' = Past /\ UNCHANGED sent
      BY <1>1, <2>1 DEF Past, netVars
    <3>3. Replaying = Downs(replayed) /\ Replaying' = Pressed(Downs(replayed), x, d)
      BY <1>1, <2>1, DownsAppend DEF Replaying
    <3>4. Past \in SUBSET AllToggled /\ Downs(replayed) \in SUBSET AllToggled
      BY <1>1 DEF Past, Downs
    <3>5. Follows(native, Downs(replayed), Past)
      BY <3>1, <3>3 DEF KeysInv
    <3>6. Follows(native', Replaying', Past')
      <4> HIDE DEF Follows, Past
      <4>1. Follows(sdlmsg_replay(machine, NoRect, native, ToggleMessage(x, d)),
                    Pressed(Downs(replayed), x, d), Past)
        BY <1>1, <3>4, <3>5, ReplayFollows
      <4>2. QED
        BY <2>1, <3>2, <3>3, <4>1
    <3>7. Follows(native, Replaying, Past)'
      BY <1>1, <3>6 DEF Follows, NativeKey, Alone
    <3>8. QED
      BY <1>1, <3>1, <3>2, <3>7 DEF KeysInv
  <2>4. QED
    BY <1>1, <1>2, <2>2, <2>3 DEF InputInv
<1>4. CASE UNCHANGED native /\ ~(Len(replayed') > Len(replayed))
  <2>1. ASSUME ctrlproto = "tcp" PROVE KeysInv'
    <3>1. KeysInv /\ Server
      BY <1>1, <2>1 DEF InputInv, Datagrams, recvfrom
    <3>2. /\ UNCHANGED sent /\ Replaying' \subseteq Replaying
          /\ Past \cup Replaying \subseteq Past' \cup Replaying'
      BY <1>1, <1>4, <2>1, <3>1, ServedLeaves
    <3>3. Follows(native, Replaying', Past')
      <4>1. Follows(native, Replaying, Past)
        BY <3>1 DEF KeysInv
      <4> HIDE DEF Past, Replaying, Follows
      <4>2. QED
        BY <3>2, <4>1, FollowsLonger
    <3>4. Follows(native, Replaying, Past)'
      BY <1>1, <1>4, <3>3 DEF Follows, NativeKey, Alone
    <3>5. QED
      BY <1>1, <3>1, <3>2, <3>4 DEF KeysInv
  <2>2. QED
    BY <1>1, <1>2, <1>4, <2>1 DEF InputInv
<1>5. QED
  <2>1. ConnInv
    BY DEF InputInv
  <2>2. QED
    BY <1>3, <1>4, <2>1, ServedReplays

(* Every step keeps it,                                                    *)
LEMMA InputInvNext == InputInv /\ [InputNext]_inputvars => InputInv'
<1> SUFFICES ASSUME InputInv, [InputNext]_inputvars PROVE InputInv'
  OBVIOUS
<1>1. ConnInv'
  BY InputSteps, ConnInvNext DEF InputInv
<1>2. ASSUME NEW c \in Client, NEW x \in Toggled[ctrlproto][c], user_toggles(c, x)
      PROVE  InputInv'
  BY <1>1, <1>2, UserKeeps
<1>3. CASE other_network
  BY <1>1, <1>3, NetworkKeeps
<1>4. CASE served
  BY <1>1, <1>4, ServedKeeps
<1>5. CASE UNCHANGED inputvars
  <2>1. UNCHANGED <<ctrlproto, client, sent, pc, replayed, machine, held, native>>
    BY <1>5 DEF inputvars, vars, netVars
  <2>2. native' \in Natives' /\ held' \in [Client -> SUBSET AllToggled]
    BY <2>1 DEF InputInv, Natives, NativeKeys, NativeKey
  <2>3. Past' = Past /\ Replaying' = Replaying
    BY <2>1 DEF Past, Replaying
  <2>4. ctrlproto = "tcp" => KeysInv'
    BY <2>1, <2>3 DEF InputInv, KeysInv, Follows, NativeKey, Alone
  <2>5. QED
    BY <1>1, <2>1, <2>2, <2>4 DEF InputInv
<1>6. QED
  BY <1>2, <1>3, <1>4, <1>5 DEF InputNext

(* and when the replay has caught up, the machine follows the users.       *)
LEMMA InputInvShows == InputInv => ReplayedInOrder /\ NoStuckKeys
<1> SUFFICES ASSUME InputInv PROVE ReplayedInOrder /\ NoStuckKeys
  OBVIOUS
<1>1. ReplayedInOrder
  BY ConnInvShows DEF InputInv
<1>2. ASSUME CaughtUp PROVE NoStuckKeys
  <2>1. /\ ctrlproto = "tcp" /\ pc \in {"recv", "parse"} /\ cur # NoClient
        /\ Len(replayed) = Len(sent[cur])
    BY <1>2 DEF CaughtUp, Serving
  <2>2. KeysInv /\ StreamInv /\ ConnTypes
    BY <2>1 DEF InputInv, ConnInv
  <2>3. cur \in Client /\ replayed = sent[cur]
    <3>1. PICK q \in Seq(Messages) : sent[cur] = replayed \o q
      BY <2>1, <2>2 DEF StreamInv, Ahead
    <3>2. replayed \in Seq(Messages) /\ Len(replayed \o q) = Len(replayed) + Len(q)
          /\ Len(replayed) \in Nat /\ Len(q) \in Nat
      BY <2>2 DEF ConnTypes
    <3>3. q = <<>>
      <4>1. Len(q) = 0
        BY <2>1, <3>1, <3>2
      <4>2. QED
        BY <4>1, EmptySeq
    <3>4. QED
      BY <2>1, <2>2, <3>1, <3>2, <3>3, ConcatEmptySeq DEF ConnTypes
  <2>4. Replaying = held[cur]
    BY <2>1, <2>2, <2>3 DEF KeysInv, Replaying
  <2>5. HeldByAny = Past \cup held[cur]
    BY <2>3 DEF HeldByAny, Past
  <2>6. QED
    BY <2>2, <2>4, <2>5 DEF NoStuckKeys, KeysInv, Follows
<1>3. QED
  BY <1>1, <1>2 DEF NoStuckKeys

(***************************************************************************)
(* Whatever the users press and release, and however the network cuts it:  *)
(* when all that the served TCP client has sent is replayed, the machine   *)
(* holds down the keys and buttons of its user, and of those who left, and *)
(* no others; and it is never ahead of the order they were pressed in.     *)
(***************************************************************************)
THEOREM NoStuckKeysCorrect == InputSpec /\ Tidy => [](ReplayedInOrder /\ NoStuckKeys)
<1>1. QED
  BY InputInvInit, InputInvNext, InputInvShows, PTL DEF InputSpec

(***************************************************************************)
(* Users who press and release keys are clients of the connection: the     *)
(* detailed specification implements it, so the server leaves nothing      *)
(* of what they did when it goes on to the next.                           *)
(***************************************************************************)
THEOREM UsersAreClients == InputSpec /\ Tidy => Spec /\ LeavesNothing
<1>1. InputInit => Init
  BY DEF InputInit
<1>2. InputSpec /\ Tidy => Spec
  BY <1>1, InputInvInit, InputInvNext, InputSteps, PTL DEF InputSpec, Spec
<1>3. QED
  BY <1>2, LeavesNothingCorrect
=============================================================================
