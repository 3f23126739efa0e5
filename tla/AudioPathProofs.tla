--------------------------- MODULE AudioPathProofs ---------------------------
(***************************************************************************)
(* The three parts of the sound's way.  The AudioBuffer implements the     *)
(* sample queue, and packets carry samples in order, whatever the sizes of *)
(* chunks and of packets; the capture keeps to the clock; the player gives *)
(* every sample once and in order.                                         *)
(***************************************************************************)
EXTENDS AudioPath, SoundCapture, SoundPlayer, ListLemmas

(* The positions of the buffer that are in use hold samples.               *)
InUse == bufhead..buftail - 1

HoldsSamples == \A i \in InUse : buffer[i] \in Sample

(* The buffer is in gClients exactly while the encoder's loop runs; the    *)
(* way out may begin before or after it was added.                         *)
RegisteredInLoop ==
    /\ apc \in {"loop", "waiting", "woken", "encode"} => registered
    /\ apc \in {"off", "start", "done"} => ~registered

AudioInv == TypeOK /\ HeadBeforeTail /\ HoldsSamples /\ RegisteredInLoop /\ StagingFits

-----------------------------------------------------------------------------
(* The buffer has room, and NoSample is no sample.                         *)
LEMMA Sizes == BufSize \in Nat /\ BufSize > 0 /\ NoSample \notin Sample
  BY AudioAssumption DEF BufSize, Sample

(* The buffer starts empty and without a client.                           *)
LEMMA AudioInvInit == Init => AudioInv
<1> SUFFICES ASSUME Init PROVE AudioInv
  OBVIOUS
<1>1. TypeOK
  BY Sizes, AudioAssumption DEF Init, TypeOK, Fresh
<1>2. HeadBeforeTail /\ HoldsSamples /\ InUse = {}
  BY Sizes DEF Init, HeadBeforeTail, HoldsSamples, InUse
<1>3. RegisteredInLoop /\ StagingFits
  BY AudioAssumption DEF Init, RegisteredInLoop, StagingFits
<1>4. QED
  BY <1>1, <1>2, <1>3 DEF AudioInv

(* A chunk is queued behind what is in use, which may have been moved.     *)
LEMMA FillKeeps ==
    ASSUME TypeOK, HeadBeforeTail, HoldsSamples, NEW n \in 1..ChunkSize,
           captured + n <= MaxSamples, ~Overflow(n),
           fill_at_tail(n) \/ fill_after_move(n)
    PROVE  /\ buffer' \in [0..BufSize - 1 -> Sample \cup {NoSample}]
           /\ bufhead' \in 0..BufSize /\ buftail' \in 0..BufSize /\ bframes' \in 0..BufSize
           /\ HeadBeforeTail' /\ HoldsSamples' /\ bframes' = bframes + n
           /\ \A i \in 0..bframes - 1 : buffer'[bufhead' + i] = buffer[bufhead + i]
           /\ \A i \in 0..n - 1 : buffer'[bufhead' + bframes + i] = captured + 1 + i
<1> USE Sizes, AudioAssumption
<1>0. n \in Nat /\ n > 0 /\ captured \in Nat /\ bufhead \in 0..BufSize
      /\ buftail \in 0..BufSize /\ bframes = buftail - bufhead /\ bufhead <= buftail
      /\ buffer \in [0..BufSize - 1 -> Sample \cup {NoSample}]
  BY SMTT(30) DEF TypeOK, HeadBeforeTail
<1>1. CASE fill_at_tail(n)
  <2>1. bufhead' = bufhead /\ buftail' = buftail + n /\ bframes' = bframes + n
        /\ buffer' = Put(buffer, buftail, n) /\ buftail + n <= BufSize
    BY <1>0, <1>1, SMTT(30) DEF fill_at_tail
  <2>2. buffer' \in [0..BufSize - 1 -> Sample \cup {NoSample}]
    BY <1>0, <2>1 DEF Put, Sample
  <2>3. \A i \in 0..bframes - 1 : buffer'[bufhead' + i] = buffer[bufhead + i]
    BY <1>0, <2>1 DEF Put
  <2>4. \A i \in 0..n - 1 : buffer'[bufhead' + bframes + i] = captured + 1 + i
    BY <1>0, <2>1 DEF Put
  <2>5. HoldsSamples'
    BY <1>0, <2>1 DEF HoldsSamples, InUse, Put, Sample
  <2>6. QED
    BY <1>0, <2>1, <2>2, <2>3, <2>4, <2>5 DEF HeadBeforeTail
<1>2. CASE fill_after_move(n)
  <2>1. bufhead' = 0 /\ buftail' = bframes + n /\ bframes' = bframes + n
        /\ buffer' = Put(Moved(buffer), bframes, n) /\ bframes + n <= BufSize
    BY <1>0, <1>2, SMTT(30) DEF fill_after_move, Overflow
  <2>2. Moved(buffer) \in [0..BufSize - 1 -> Sample \cup {NoSample}]
        /\ \A i \in 0..bframes - 1 : Moved(buffer)[i] = buffer[bufhead + i]
    BY <1>0 DEF Moved
  <2>3. buffer' \in [0..BufSize - 1 -> Sample \cup {NoSample}]
    BY <1>0, <2>1, <2>2 DEF Put, Sample
  <2>4. \A i \in 0..bframes - 1 : buffer'[bufhead' + i] = buffer[bufhead + i]
    BY <1>0, <2>1, <2>2 DEF Put
  <2>5. \A i \in 0..n - 1 : buffer'[bufhead' + bframes + i] = captured + 1 + i
    BY <1>0, <2>1 DEF Put
  <2>6. HoldsSamples'
    <3>1. \A i \in 0..bframes - 1 : Moved(buffer)[i] \in Sample
      BY <1>0, <2>2 DEF HoldsSamples, InUse
    <3>2. QED
      BY <1>0, <2>1, <3>1 DEF HoldsSamples, InUse, Put, Sample
  <2>7. QED
    BY <1>0, <2>1, <2>3, <2>4, <2>5, <2>6 DEF HeadBeforeTail
<1>3. QED
  BY <1>1, <1>2

(* A read takes what is eldest, and at most what is wanted.                *)
LEMMA ReadTakes ==
    ASSUME TypeOK, HeadBeforeTail, HoldsSamples, StagingFits, read_copy
    PROVE  \E c \in 1..BufSize :
             /\ c <= bframes /\ c <= FrameSize - Len(samples)
             /\ copied' = [i \in 1..c |-> buffer[bufhead + i - 1]]
             /\ copied' \in Seq(Sample) /\ Len(copied') = c
             /\ samples' = samples \o copied'
             /\ bframes' = bframes - c /\ HeadBeforeTail'
             /\ bufhead' \in 0..BufSize /\ buftail' \in 0..BufSize
             /\ \/ c = bframes /\ bufhead' = 0 /\ buftail' = 0
                \/ c < bframes /\ bufhead' = bufhead + c /\ buftail' = buftail
             /\ buffer' = buffer
<1> USE Sizes, AudioAssumption
<1>0. /\ bufhead \in 0..BufSize /\ buftail \in 0..BufSize /\ bframes = buftail - bufhead
      /\ bufhead <= buftail /\ Len(samples) \in Nat /\ Len(samples) <= FrameSize
  BY LenProperties DEF TypeOK, HeadBeforeTail, StagingFits
<1> DEFINE c == IF bframes >= Wanted THEN Wanted ELSE bframes
<1>1. c \in 1..BufSize /\ c <= bframes /\ c <= FrameSize - Len(samples)
  BY <1>0 DEF read_copy, Wanted
<1>2. \A i \in 1..c : buffer[bufhead + i - 1] \in Sample
  BY <1>0, <1>1 DEF HoldsSamples, InUse
<1>3. /\ copied' = [i \in 1..c |-> buffer[bufhead + i - 1]]
      /\ bframes' = bframes - c /\ samples' = samples \o copied' /\ buffer' = buffer
      /\ IF bframes' = 0 THEN bufhead' = 0 /\ buftail' = 0
                         ELSE bufhead' = bufhead + c /\ buftail' = buftail
  BY DEF read_copy
<1> HIDE DEF c
<1>4. copied' \in Seq(Sample) /\ Len(copied') = c
  BY <1>1, <1>2, <1>3
<1>5. HeadBeforeTail' /\ bufhead' \in 0..BufSize /\ buftail' \in 0..BufSize
      /\ \/ c = bframes /\ bufhead' = 0 /\ buftail' = 0
         \/ c < bframes /\ bufhead' = bufhead + c /\ buftail' = buftail
  BY <1>0, <1>1, <1>3 DEF HeadBeforeTail
<1>6. QED
  BY <1>1, <1>3, <1>4, <1>5

(* The four parts of the invariant that only a fill or a read disturbs.    *)
LEMMA BufferSame ==
    ASSUME AudioInv, UNCHANGED abVars
    PROVE  HeadBeforeTail' /\ HoldsSamples'
  BY DEF AudioInv, HeadBeforeTail, HoldsSamples, InUse, abVars

(* A fill, with or without the move to the front, keeps the invariant.     *)
LEMMA FillInv ==
    ASSUME AudioInv, NEW n \in 1..ChunkSize, audio_source_buffer_fill(n)
    PROVE  AudioInv'
<1> USE AudioAssumption
<1>0. TypeOK /\ HeadBeforeTail /\ HoldsSamples /\ RegisteredInLoop /\ StagingFits
  BY DEF AudioInv
<1>1. /\ captured' = captured + n /\ captured' \in 0..MaxSamples
      /\ apc' \in {"off", "start", "loop", "waiting", "woken", "encode", "quit", "done"}
      /\ RegisteredInLoop' /\ StagingFits'
      /\ UNCHANGED <<registered, launched, samples, copied, packet>>
  BY <1>0 DEF TypeOK, RegisteredInLoop, StagingFits, audio_source_buffer_fill
<1>2. CASE UNCHANGED abVars
  BY <1>0, <1>1, <1>2, BufferSame DEF AudioInv, TypeOK, abVars
<1>3. CASE ~Overflow(n) /\ (fill_at_tail(n) \/ fill_after_move(n))
  <2>1. captured + n <= MaxSamples
    BY DEF audio_source_buffer_fill
  <2>2. /\ buffer' \in [0..BufSize - 1 -> Sample \cup {NoSample}]
        /\ bufhead' \in 0..BufSize /\ buftail' \in 0..BufSize /\ bframes' \in 0..BufSize
        /\ HeadBeforeTail' /\ HoldsSamples' /\ bframes' = bframes + n
        /\ \A i \in 0..bframes - 1 : buffer'[bufhead' + i] = buffer[bufhead + i]
        /\ \A i \in 0..n - 1 : buffer'[bufhead' + bframes + i] = captured + 1 + i
    BY <1>0, <1>3, <2>1, FillKeeps
  <2>4. TypeOK'
    BY <1>0, <1>1, <2>2 DEF TypeOK
  <2>5. QED
    BY <1>1, <2>2, <2>4 DEF AudioInv
<1>4. QED
  BY <1>2, <1>3 DEF audio_source_buffer_fill, audio_source_buffer_fill_one

(* A read, with or without the rewinding of the buffer, keeps it.          *)
LEMMA ReadInv ==
    ASSUME AudioInv, read_copy, registered
    PROVE  AudioInv'
<1> USE AudioAssumption
<1>0. TypeOK /\ HeadBeforeTail /\ HoldsSamples /\ RegisteredInLoop /\ StagingFits
  BY DEF AudioInv
<1>1. PICK c \in 1..BufSize :
        /\ c <= bframes /\ c <= FrameSize - Len(samples)
        /\ copied' = [i \in 1..c |-> buffer[bufhead + i - 1]]
        /\ copied' \in Seq(Sample) /\ Len(copied') = c
        /\ samples' = samples \o copied'
        /\ bframes' = bframes - c /\ HeadBeforeTail'
        /\ bufhead' \in 0..BufSize /\ buftail' \in 0..BufSize
        /\ \/ c = bframes /\ bufhead' = 0 /\ buftail' = 0
           \/ c < bframes /\ bufhead' = bufhead + c /\ buftail' = buftail
        /\ buffer' = buffer
  BY <1>0, ReadTakes
<1>2. samples' \in Seq(Sample) /\ Len(samples') = Len(samples) + c /\ Len(samples) \in Nat
  BY <1>0, <1>1, ConcatProperties, LenProperties DEF TypeOK
<1>3. StagingFits'
  BY <1>0, <1>1, <1>2 DEF StagingFits
<1>4. HoldsSamples'
  <2>1. CASE bufhead' = 0 /\ buftail' = 0
    BY <2>1 DEF HoldsSamples, InUse
  <2>2. CASE c < bframes /\ bufhead' = bufhead + c /\ buftail' = buftail
    <3>1. bufhead \in Nat /\ buftail \in Nat /\ c \in Nat
      BY <1>0, Sizes DEF TypeOK
    <3>2. InUse' \subseteq InUse
      BY <2>2, <3>1 DEF InUse
    <3>3. QED
      BY <1>0, <1>1, <3>2 DEF HoldsSamples
  <2>3. QED
    BY <1>1, <2>1, <2>2
<1>5. TypeOK' /\ RegisteredInLoop'
  BY <1>0, <1>1, <1>2, Sizes, SMTT(30) DEF TypeOK, RegisteredInLoop, read_copy
<1>6. QED
  BY <1>1, <1>3, <1>4, <1>5 DEF AudioInv

(* Cutting a packet leaves the buffer as it is.                            *)
LEMMA EncodeInv ==
    ASSUME AudioInv, encode
    PROVE  AudioInv'
<1> USE AudioAssumption
<1>0. TypeOK /\ HeadBeforeTail /\ HoldsSamples /\ RegisteredInLoop /\ StagingFits
  BY DEF AudioInv
<1>1. HeadBeforeTail' /\ HoldsSamples' /\ RegisteredInLoop'
  BY <1>0, BufferSame DEF encode, RegisteredInLoop
<1>2. CASE UNCHANGED <<samples, packet>>
  BY <1>0, <1>1, <1>2 DEF AudioInv, TypeOK, StagingFits, encode, abVars
<1>3. CASE /\ Len(samples) >= FrameSize
           /\ packet' = SubSeq(samples, 1, FrameSize)
           /\ samples' = SubSeq(samples, FrameSize + 1, Len(samples))
  <2>1. /\ packet' \in Seq(Sample) /\ samples' \in Seq(Sample)
        /\ Len(samples') = Len(samples) - FrameSize
    <3>1. samples \in Seq(Sample) /\ Len(samples) \in Nat
      BY <1>0, LenProperties DEF TypeOK
    <3>2. packet' \in Seq(Sample)
      BY <1>3, <3>1, SubSeqProperties
    <3>3. samples' \in Seq(Sample) /\ Len(samples') = Len(samples) - FrameSize
      BY <1>3, <3>1, SubSeqProperties
    <3>4. QED
      BY <3>2, <3>3
  <2>2. StagingFits'
    BY <1>0, <1>3, <2>1 DEF StagingFits
  <2>3. TypeOK'
    BY <1>0, <2>1 DEF TypeOK, encode, abVars
  <2>4. QED
    BY <1>1, <2>2, <2>3 DEF AudioInv
<1>4. QED
  BY <1>2, <1>3 DEF encode

(* Every step keeps the invariant.                                         *)
LEMMA AudioInvNext == AudioInv /\ [Next]_vars => AudioInv'
<1> SUFFICES ASSUME AudioInv, [Next]_vars PROVE AudioInv'
  OBVIOUS
<1> USE AudioAssumption
<1>0. TypeOK /\ HeadBeforeTail /\ HoldsSamples /\ RegisteredInLoop /\ StagingFits
  BY DEF AudioInv
<1>1. ASSUME NEW n \in 1..ChunkSize, audio_source_buffer_fill(n) PROVE AudioInv'
  BY <1>1, FillInv
<1>2. ASSUME encoder_start PROVE AudioInv'
  <2>1. CASE UNCHANGED <<abVars, registered, samples, copied>>
    BY <1>0, <1>2, <2>1, BufferSame
       DEF AudioInv, TypeOK, RegisteredInLoop, StagingFits, encoder_start,
       audio_source_client_register, abVars
  <2>2. CASE buffer' = Fresh /\ bufhead' = 0 /\ buftail' = 0 /\ bframes' = 0
             /\ registered' = TRUE /\ apc' = "loop" /\ samples' = <<>> /\ copied' = <<>>
    <3>1. TypeOK'
      BY <1>0, <1>2, <2>2, Sizes DEF TypeOK, Fresh, encoder_start, audio_source_client_register
    <3>2. HeadBeforeTail' /\ HoldsSamples' /\ RegisteredInLoop' /\ StagingFits'
      BY <2>2, Sizes
         DEF HeadBeforeTail, HoldsSamples, InUse, RegisteredInLoop, StagingFits
    <3>3. QED
      BY <3>1, <3>2 DEF AudioInv
  <2>3. QED
    BY <1>2, <2>1, <2>2 DEF encoder_start, audio_source_client_register
<1>3. ASSUME encoder_loop \/ read_timeout \/ read_after_wait PROVE AudioInv'
  <2>1. registered
    BY <1>0, <1>3 DEF RegisteredInLoop, encoder_loop, read_timeout, read_after_wait
  <2>2. CASE read_copy
    BY <2>1, <2>2, ReadInv
  <2>3. CASE /\ UNCHANGED <<abVars, registered, captured, launched, samples, copied, packet>>
             /\ apc' \in {"waiting", "woken", "loop", "quit"}
    BY <1>0, <2>1, <2>3, BufferSame
       DEF AudioInv, TypeOK, RegisteredInLoop, StagingFits, abVars
  <2>4. QED
    BY <1>3, <2>2, <2>3 DEF encoder_loop, read_timeout, read_after_wait
<1>4. ASSUME encode PROVE AudioInv'
  BY <1>4, EncodeInv
<1>5. ASSUME encoder_quit \/ launch \/ stop \/ join PROVE AudioInv'
  <2>1. UNCHANGED abVars /\ UNCHANGED <<captured, samples, copied, packet>>
        /\ launched' \in BOOLEAN /\ registered' \in BOOLEAN
        /\ apc' \in {"off", "start", "loop", "waiting", "woken", "encode", "quit", "done"}
    BY <1>0, <1>5 DEF TypeOK, encoder_quit, audio_source_client_unregister, launch, stop, join
  <2>2. RegisteredInLoop'
    BY <1>0, <1>5 DEF RegisteredInLoop, encoder_quit,
       audio_source_client_unregister, launch, stop, join
  <2>3. QED
    BY <1>0, <2>1, <2>2, BufferSame DEF AudioInv, TypeOK, StagingFits, abVars
<1>6. CASE UNCHANGED vars
  BY <1>0, <1>6, BufferSame DEF AudioInv, TypeOK, RegisteredInLoop, StagingFits, vars, abVars
<1>7. QED
  BY <1>1, <1>2, <1>3, <1>4, <1>5, <1>6 DEF Next, Encoder

(* The invariant holds in every reachable state, for all sizes.            *)
THEOREM AudioCorrect == Spec => []AudioInv
<1>1. QED
  BY AudioInvInit, AudioInvNext, PTL DEF Spec

(* The comment of asource.cpp, bufhead <= buftail, holds for all sizes.    *)
THEOREM HeadBeforeTailCorrect == Spec => []HeadBeforeTail
<1>1. AudioInv => HeadBeforeTail
  BY DEF AudioInv
<1>2. QED
  BY <1>1, AudioCorrect, PTL

(* The encoder's buffer of one packet is never overrun, for all sizes.     *)
THEOREM StagingFitsCorrect == Spec => []StagingFits
<1>1. AudioInv => StagingFits
  BY DEF AudioInv
<1>2. QED
  BY <1>1, AudioCorrect, PTL
-----------------------------------------------------------------------------
(* The refinement.                                                         *)
LEMMA QueuedIsSeq ==
    ASSUME AudioInv
    PROVE  /\ Queued \in Seq(Sample)
           /\ Len(Queued) = IF registered THEN bframes ELSE 0
<1>1. /\ bframes \in Nat /\ bufhead \in Nat /\ bframes = buftail - bufhead
      /\ buftail \in Nat /\ HoldsSamples /\ registered \in BOOLEAN
  BY Sizes DEF AudioInv, TypeOK, HeadBeforeTail
<1>2. \A i \in 1..bframes : buffer[bufhead + i - 1] \in Sample
  BY <1>1 DEF HoldsSamples, InUse
<1>3. QED
  BY <1>1, <1>2 DEF Queued

(* What is queued depends on the buffer alone.                             *)
LEMMA SameQueued == UNCHANGED <<abVars, registered>> => Queued' = Queued
  BY DEF Queued, abVars

(* A chunk that fits is appended.                                          *)
LEMMA FillAppends ==
    ASSUME AudioInv, registered, NEW n \in 1..ChunkSize,
           captured + n <= MaxSamples, ~Overflow(n),
           fill_at_tail(n) \/ fill_after_move(n), registered' = registered
    PROVE  Queued' = Queued \o [i \in 1..n |-> captured + i]
<1>1. /\ bframes' = bframes + n
      /\ \A i \in 0..bframes - 1 : buffer'[bufhead' + i] = buffer[bufhead + i]
      /\ \A i \in 0..n - 1 : buffer'[bufhead' + bframes + i] = captured + 1 + i
      /\ bufhead' \in 0..BufSize
  BY FillKeeps DEF AudioInv
<1>2. bframes \in Nat /\ n \in Nat /\ captured \in Nat /\ bufhead \in Nat /\ BufSize \in Nat
  BY AudioAssumption, Sizes DEF AudioInv, TypeOK
<1> DEFINE q == [i \in 1..bframes |-> buffer[bufhead + i - 1]]
           r == [i \in 1..n |-> captured + i]
<1>3. Queued = q /\ Queued' = [i \in 1..bframes + n |-> buffer'[bufhead' + i - 1]]
  BY <1>1 DEF Queued
<1>4. ASSUME NEW i \in 1..bframes PROVE buffer'[bufhead' + i - 1] = q[i]
  <2>1. i - 1 \in 0..bframes - 1
    BY <1>2
  <2>2. buffer'[bufhead' + (i - 1)] = buffer[bufhead + (i - 1)]
    BY <1>1, <2>1
  <2>3. bufhead' + (i - 1) = bufhead' + i - 1 /\ bufhead + (i - 1) = bufhead + i - 1
    BY <1>1, <1>2
  <2>4. QED
    BY <2>2, <2>3
<1>5. ASSUME NEW i \in bframes + 1..bframes + n
      PROVE  buffer'[bufhead' + i - 1] = r[i - bframes]
  <2>1. i - bframes - 1 \in 0..n - 1 /\ i - bframes \in 1..n
    BY <1>2
  <2>2. buffer'[bufhead' + bframes + (i - bframes - 1)] = captured + 1 + (i - bframes - 1)
    BY <1>1, <2>1
  <2>3. bufhead' + bframes + (i - bframes - 1) = bufhead' + i - 1
        /\ captured + 1 + (i - bframes - 1) = captured + (i - bframes)
    BY <1>1, <1>2
  <2>4. QED
    BY <2>1, <2>2, <2>3
<1>6. q \o r = [i \in 1..bframes + n |-> IF i <= bframes THEN q[i] ELSE r[i - bframes]]
  BY <1>2
<1> HIDE DEF q, r
<1>7. \A i \in 1..bframes + n :
        buffer'[bufhead' + i - 1] = (IF i <= bframes THEN q[i] ELSE r[i - bframes])
  <2> SUFFICES ASSUME NEW i \in 1..bframes + n
               PROVE  buffer'[bufhead' + i - 1] = (IF i <= bframes THEN q[i] ELSE r[i - bframes])
    OBVIOUS
  <2>1. CASE i \in 1..bframes
    BY <1>2, <1>4, <2>1
  <2>2. CASE i \in bframes + 1..bframes + n
    BY <1>2, <1>5, <2>2
  <2>3. QED
    BY <1>2, <2>1, <2>2
<1>8. Queued' = q \o r
  BY <1>3, <1>6, <1>7
<1>9. QED
  BY <1>3, <1>8 DEF q, r

(* A read returns the eldest samples and leaves the others.                *)
LEMMA ReadRemoves ==
    ASSUME AudioInv, registered, read_copy
    PROVE  \E c \in 1..Len(Queued) :
             /\ copied' = SubSeq(Queued, 1, c)
             /\ Queued' = SubSeq(Queued, c + 1, Len(Queued))
             /\ samples' = samples \o copied'
<1>1. PICK c \in 1..BufSize :
        /\ c <= bframes
        /\ copied' = [i \in 1..c |-> buffer[bufhead + i - 1]]
        /\ samples' = samples \o copied'
        /\ bframes' = bframes - c
        /\ \/ c = bframes /\ bufhead' = 0 /\ buftail' = 0
           \/ c < bframes /\ bufhead' = bufhead + c /\ buftail' = buftail
        /\ buffer' = buffer
  BY ReadTakes DEF AudioInv
<1>2. bframes \in Nat /\ c \in Nat /\ bufhead \in Nat
  BY Sizes DEF AudioInv, TypeOK
<1>3. Queued = [i \in 1..bframes |-> buffer[bufhead + i - 1]] /\ Len(Queued) = bframes
      /\ Queued \in Seq(Sample)
  BY QueuedIsSeq DEF Queued
<1>4. registered'
  BY DEF read_copy
<1>5. copied' = SubSeq(Queued, 1, c)
  BY <1>1, <1>2, <1>3
<1>6. Queued' = SubSeq(Queued, c + 1, Len(Queued))
  <2>1. CASE c = bframes
    <3>1. Queued' = <<>>
      BY <1>1, <1>2, <1>4, <2>1 DEF Queued
    <3>2. SubSeq(Queued, c + 1, Len(Queued)) = <<>>
      BY <1>2, <1>3, <2>1
    <3>3. QED
      BY <3>1, <3>2
  <2>2. CASE c < bframes /\ bufhead' = bufhead + c
    <3>1. Queued' = [i \in 1..bframes - c |-> buffer[bufhead + c + i - 1]]
      BY <1>1, <1>4, <2>2 DEF Queued
    <3>2. SubSeq(Queued, c + 1, Len(Queued)) = [i \in 1..bframes - c |-> Queued[c + i]]
      BY <1>2, <1>3, <2>2
    <3>3. \A i \in 1..bframes - c : Queued[c + i] = buffer[bufhead + c + i - 1]
      BY <1>2, <1>3, <2>2
    <3>4. QED
      BY <3>1, <3>2, <3>3
  <2>3. QED
    BY <1>1, <2>1, <2>2
<1>7. QED
  BY <1>1, <1>2, <1>3, <1>5, <1>6, SMTT(30)

(* What a step does to the samples on their way.                           *)
Filled(n) ==
    /\ captured' = captured + n /\ captured + n <= MaxSamples
    /\ registered' = registered /\ UNCHANGED <<samples, copied, packet>>
    /\ \/ /\ registered /\ Len(Queued) + n <= BufSize
          /\ Queued' = Queued \o [i \in 1..n |-> captured + i]
       \/ /\ ~registered \/ Len(Queued) + n > BufSize
          /\ Queued' = Queued

Taken(c) ==
    /\ registered /\ registered' = registered /\ UNCHANGED <<captured, packet>>
    /\ copied' = SubSeq(Queued, 1, c)
    /\ Queued' = SubSeq(Queued, c + 1, Len(Queued))
    /\ samples' = samples \o copied'

Opened ==
    /\ ~registered /\ registered' = TRUE /\ UNCHANGED <<captured, packet>>
    /\ Queued' = <<>> /\ copied' = <<>> /\ samples' = <<>>

Closed ==
    /\ registered /\ registered' = FALSE /\ UNCHANGED <<captured, samples, copied, packet>>
    /\ Queued' = <<>>

CutOff ==
    /\ Len(samples) >= FrameSize
    /\ packet' = SubSeq(samples, 1, FrameSize)
    /\ samples' = SubSeq(samples, FrameSize + 1, Len(samples))
    /\ Queued' = Queued /\ UNCHANGED <<registered, captured, copied>>

Idle == Queued' = Queued /\ UNCHANGED <<registered, captured, samples, copied, packet>>

(* A fill adds the chunk to what is queued, or drops it.                   *)
LEMMA FillStep ==
    ASSUME AudioInv, NEW n \in 1..ChunkSize, audio_source_buffer_fill(n)
    PROVE  Filled(n)
<1>1. captured' = captured + n /\ captured + n <= MaxSamples /\ registered' = registered
      /\ UNCHANGED <<samples, copied, packet>>
  BY DEF audio_source_buffer_fill
<1>2. CASE ~registered
  BY <1>1, <1>2, SameQueued DEF Filled, audio_source_buffer_fill
<1>3. CASE registered
  <2>1. Len(Queued) = bframes
    BY <1>3, QueuedIsSeq
  <2>2. Overflow(n) <=> bframes + n > BufSize
    BY Sizes, AudioAssumption DEF Overflow, AudioInv, TypeOK, HeadBeforeTail
  <2>3. bframes + n \in Int /\ BufSize \in Int
    BY Sizes, AudioAssumption DEF AudioInv, TypeOK
  <2>4. CASE Overflow(n) /\ UNCHANGED abVars
    BY <1>1, <2>1, <2>2, <2>4, SameQueued DEF Filled
  <2>5. CASE ~Overflow(n) /\ (fill_at_tail(n) \/ fill_after_move(n))
    <3>1. Queued' = Queued \o [i \in 1..n |-> captured + i]
      BY <1>1, <1>3, <2>5, FillAppends
    <3>2. Len(Queued) + n <= BufSize
      BY <2>1, <2>2, <2>3, <2>5
    <3>3. QED
      BY <1>1, <1>3, <3>1, <3>2 DEF Filled
  <2>6. QED
    BY <1>3, <2>4, <2>5 DEF audio_source_buffer_fill, audio_source_buffer_fill_one
<1>4. QED
  BY <1>2, <1>3

(* A read moves the first of what is queued to the encoder.                *)
LEMMA ReadStep ==
    ASSUME AudioInv, registered, read_copy
    PROVE  \E c \in 1..Len(Queued) : Taken(c)
<1>1. registered' = registered /\ UNCHANGED <<captured, packet>>
  BY DEF read_copy
<1>2. QED
  BY <1>1, ReadRemoves DEF Taken

(* Every step is one of six about what is queued, staged and sent.         *)
LEMMA Steps ==
    ASSUME AudioInv, [Next]_vars
    PROVE  \/ \E n \in 1..ChunkSize : Filled(n)
           \/ \E c \in 1..Len(Queued) : Taken(c)
           \/ Opened \/ Closed \/ CutOff \/ Idle
<1>0. RegisteredInLoop /\ registered \in BOOLEAN
  BY DEF AudioInv, TypeOK
<1>1. CASE \E n \in 1..ChunkSize : audio_source_buffer_fill(n)
  BY <1>1, FillStep
<1>2. CASE encoder_start
  <2>1. ~registered
    BY <1>0, <1>2 DEF RegisteredInLoop, encoder_start, audio_source_client_register
  <2>2. CASE registered' = TRUE /\ bframes' = 0 /\ samples' = <<>> /\ copied' = <<>>
    <3>1. Queued' = <<>>
      BY <2>2 DEF Queued
    <3>2. QED
      BY <1>2, <2>1, <2>2, <3>1 DEF Opened, encoder_start, audio_source_client_register
  <2>3. CASE UNCHANGED <<abVars, registered, samples, copied>>
    BY <1>2, <2>3, SameQueued DEF Idle, encoder_start, audio_source_client_register
  <2>4. QED
    BY <1>2, <2>2, <2>3 DEF encoder_start, audio_source_client_register
<1>3. CASE encoder_loop \/ read_timeout \/ read_after_wait
  <2>1. registered
    BY <1>0, <1>3 DEF RegisteredInLoop, encoder_loop, read_timeout, read_after_wait
  <2>2. CASE read_copy
    BY <2>1, <2>2, ReadStep
  <2>3. CASE UNCHANGED <<abVars, registered, captured, launched, samples, copied, packet>>
    BY <2>3, SameQueued DEF Idle
  <2>4. QED
    BY <1>3, <2>2, <2>3 DEF encoder_loop, read_timeout, read_after_wait
<1>4. CASE encode
  <2>1. Queued' = Queued /\ UNCHANGED <<registered, captured, copied>>
    BY <1>4, SameQueued DEF encode
  <2>2. QED
    BY <1>4, <2>1 DEF encode, CutOff, Idle
<1>5. CASE encoder_quit
  <2>1. CASE registered
    <3>1. Queued' = <<>>
      BY <1>5 DEF encoder_quit, audio_source_client_unregister, Queued
    <3>2. QED
      BY <1>5, <2>1, <3>1 DEF encoder_quit, audio_source_client_unregister, Closed
  <2>2. CASE ~registered
    BY <1>0, <1>5, <2>2, SameQueued DEF encoder_quit, audio_source_client_unregister, Idle
  <2>3. QED
    BY <2>1, <2>2
<1>6. CASE launch \/ stop \/ join \/ UNCHANGED vars
  BY <1>6, SameQueued DEF launch, stop, join, vars, Idle
<1>7. QED
  BY <1>1, <1>2, <1>3, <1>4, <1>5, <1>6 DEF Next, Encoder

(* Each of the six is a step of the sample queue, or a stutter.            *)
LEMMA SampleQueueStep ==
    AudioInv /\ [Next]_vars => [SQ!SQNext]_(SQ!sqvars)
<1> SUFFICES ASSUME AudioInv, [Next]_vars PROVE [SQ!SQNext]_(SQ!sqvars)
  OBVIOUS
<1> USE DEF SQ!SQNext, SQ!sqvars
<1>0. Queued \in Seq(Sample) /\ Len(Queued) \in Nat
  BY QueuedIsSeq, LenProperties
<1>1. CASE \E n \in 1..ChunkSize : Filled(n)
  <2>1. PICK n \in 1..ChunkSize : Filled(n)
    BY <1>1
  <2>2. SQ!Fits(n) <=> ~(Len(Queued) + n > BufSize)
    BY <1>0, Sizes DEF SQ!Fits
  <2>3. SQ!QueueChunk(n) \/ SQ!DropChunk(n)
    BY <2>1, <2>2 DEF Filled, SQ!QueueChunk, SQ!DropChunk, SQ!Fits
  <2>4. QED
    BY <2>3
<1>2. CASE \E c \in 1..Len(Queued) : Taken(c)
  BY <1>0, <1>2 DEF Taken, SQ!Read
<1>3. CASE Opened
  BY <1>3 DEF Opened, SQ!Open
<1>4. CASE Closed
  BY <1>4 DEF Closed, SQ!Close
<1>5. CASE CutOff \/ Idle
  BY <1>5 DEF CutOff, Idle
<1>6. QED
  BY <1>1, <1>2, <1>3, <1>4, <1>5, Steps

(* The AudioBuffer is a bounded first-in first-out queue of samples that   *)
(* drops a chunk only when it does not fit, for all sizes of chunks and    *)
(* packets.                                                                *)
THEOREM SampleQueueCorrect == Spec => ImplementsSampleQueue
<1>1. Init => SQ!SQInit
  BY DEF Init, SQ!SQInit, Queued
<1>2. QED
  BY <1>1, AudioCorrect, SampleQueueStep, PTL DEF Spec, ImplementsSampleQueue, SQ!SQSpec

-----------------------------------------------------------------------------
(* The order of the samples.  What the last packet, the encoder and the    *)
(* buffer hold, in this sequence, is in the order of capture.              *)
UpTo(s, m) == Ordered(s) /\ \A i \in 1..Len(s) : s[i] <= m

OnTheWay == packet \o samples \o Queued

(* The elements of a concatenation.                                        *)
LEMMA ConcatElements ==
    ASSUME NEW s \in Seq(Nat), NEW t \in Seq(Nat)
    PROVE  /\ Len(s) \in Nat /\ Len(t) \in Nat /\ Len(s \o t) = Len(s) + Len(t)
           /\ s \o t \in Seq(Nat)
           /\ \A i \in 1..Len(s) : (s \o t)[i] = s[i] /\ s[i] \in Nat
           /\ \A i \in 1..Len(t) : (s \o t)[Len(s) + i] = t[i]
<1>1. Len(s) \in Nat /\ Len(t) \in Nat /\ \A i \in 1..Len(s) : s[i] \in Nat
  BY LenProperties
<1>2. /\ s \o t \in Seq(Nat) /\ Len(s \o t) = Len(s) + Len(t)
      /\ \A i \in 1..Len(s) + Len(t) :
            (s \o t)[i] = IF i <= Len(s) THEN s[i] ELSE t[i - Len(s)]
  BY ConcatProperties
<1>3. ASSUME NEW i \in 1..Len(t) PROVE (s \o t)[Len(s) + i] = t[i]
  <2>1. Len(s) + i \in 1..Len(s) + Len(t) /\ ~(Len(s) + i <= Len(s)) /\ Len(s) + i - Len(s) = i
    BY <1>1
  <2>2. QED
    BY <1>2, <2>1
<1>4. ASSUME NEW i \in 1..Len(s) PROVE (s \o t)[i] = s[i]
  BY <1>1, <1>2
<1>5. QED
  BY <1>1, <1>2, <1>3, <1>4

(* A part of what is in order is in order.                                 *)
LEMMA UpToParts ==
    ASSUME NEW s \in Seq(Nat), NEW t \in Seq(Nat), NEW m \in Nat, UpTo(s \o t, m)
    PROVE  UpTo(s, m) /\ UpTo(t, m)
<1>1. /\ Len(s) \in Nat /\ Len(t) \in Nat /\ Len(s \o t) = Len(s) + Len(t)
      /\ \A i \in 1..Len(s) : (s \o t)[i] = s[i]
      /\ \A i \in 1..Len(t) : (s \o t)[Len(s) + i] = t[i]
  BY ConcatElements
<1>2. UpTo(s, m)
  <2>1. \A i \in 1..Len(s) : i \in 1..Len(s \o t)
    BY <1>1
  <2>2. QED
    BY <1>1, <2>1 DEF UpTo, Ordered
<1>3. Ordered(t)
  <2> SUFFICES ASSUME NEW i \in 1..Len(t), NEW j \in 1..Len(t), i < j PROVE t[i] < t[j]
    BY DEF Ordered
  <2>1. Len(s) + i \in 1..Len(s \o t) /\ Len(s) + j \in 1..Len(s \o t)
        /\ Len(s) + i < Len(s) + j
    BY <1>1
  <2>2. QED
    BY <1>1, <2>1 DEF UpTo, Ordered
<1>4. ASSUME NEW i \in 1..Len(t) PROVE t[i] <= m
  <2>1. Len(s) + i \in 1..Len(s \o t)
    BY <1>1
  <2>2. QED
    BY <1>1, <2>1 DEF UpTo
<1>5. QED
  BY <1>2, <1>3, <1>4 DEF UpTo

(* What is captured later keeps what is in order so.                       *)
LEMMA UpToGrows ==
    ASSUME NEW s \in Seq(Nat), NEW m \in Nat, NEW n \in Nat, UpTo(s, m)
    PROVE  UpTo(s \o [i \in 1..n |-> m + i], m + n)
<1> DEFINE t == [i \in 1..n |-> m + i]
<1>1. t \in Seq(Nat) /\ Len(t) = n /\ \A i \in 1..n : t[i] = m + i
  OBVIOUS
<1> HIDE DEF t
<1>2. /\ Len(s) \in Nat /\ Len(s \o t) = Len(s) + n
      /\ \A i \in 1..Len(s) : (s \o t)[i] = s[i]
      /\ \A i \in Len(s) + 1..Len(s) + n : (s \o t)[i] = m + (i - Len(s))
  <2>1. /\ Len(s) \in Nat /\ Len(s \o t) = Len(s) + n
        /\ \A i \in 1..Len(s) : (s \o t)[i] = s[i]
        /\ \A i \in 1..n : (s \o t)[Len(s) + i] = m + i
    BY <1>1, ConcatElements
  <2>2. ASSUME NEW i \in Len(s) + 1..Len(s) + n PROVE (s \o t)[i] = m + (i - Len(s))
    <3>1. i - Len(s) \in 1..n /\ Len(s) + (i - Len(s)) = i
      BY <2>1
    <3>2. QED
      BY <2>1, <3>1
  <2>3. QED
    BY <2>1, <2>2
<1>3. \A i \in 1..Len(s) : s[i] \in Nat
  OBVIOUS
<1>4. Ordered(s \o t)
  <2> SUFFICES ASSUME NEW i \in 1..Len(s \o t), NEW j \in 1..Len(s \o t), i < j
               PROVE  (s \o t)[i] < (s \o t)[j]
    BY DEF Ordered
  <2>1. CASE j \in 1..Len(s)
    BY <1>2, <2>1 DEF UpTo, Ordered
  <2>2. CASE i \in 1..Len(s) /\ j \in Len(s) + 1..Len(s) + n
    BY <1>2, <1>3, <2>2, SMTT(30) DEF UpTo
  <2>3. CASE i \in Len(s) + 1..Len(s) + n /\ j \in Len(s) + 1..Len(s) + n
    BY <1>2, <2>3
  <2>4. QED
    BY <1>2, <2>1, <2>2, <2>3
<1>5. \A i \in 1..Len(s \o t) : (s \o t)[i] <= m + n
  <2> SUFFICES ASSUME NEW i \in 1..Len(s \o t) PROVE (s \o t)[i] <= m + n
    OBVIOUS
  <2>1. CASE i \in 1..Len(s)
    BY <1>2, <1>3, <2>1 DEF UpTo
  <2>2. CASE i \in Len(s) + 1..Len(s) + n
    BY <1>2, <2>2
  <2>3. QED
    BY <1>2, <2>1, <2>2
<1>6. QED
  BY <1>4, <1>5 DEF UpTo, t

(* A sequence is its beginning and the rest.                               *)
LEMMA SplitSeq ==
    ASSUME NEW s \in Seq(Nat), NEW k \in 0..Len(s)
    PROVE  /\ SubSeq(s, 1, k) \in Seq(Nat) /\ SubSeq(s, k + 1, Len(s)) \in Seq(Nat)
           /\ SubSeq(s, 1, k) \o SubSeq(s, k + 1, Len(s)) = s
<1>1. Len(s) \in Nat /\ k \in Nat /\ k <= Len(s) /\ \A i \in 1..Len(s) : s[i] \in Nat
  BY LenProperties
<1>2. SubSeq(s, 1, k) \in Seq(Nat) /\ SubSeq(s, k + 1, Len(s)) \in Seq(Nat)
  BY <1>1, SubSeqProperties
<1>3. SubSeq(s, 1, k) \o SubSeq(s, k + 1, Len(s)) = s
  <2>1. 1 \in 1..Len(s) + 1 /\ k \in 1 - 1..Len(s) /\ Len(s) \in k..Len(s)
    BY <1>1
  <2>2. SubSeq(s, 1, k) \o SubSeq(s, k + 1, Len(s)) = SubSeq(s, 1, Len(s))
    BY <2>1, ConcatAdjacentSubSeq, Zenon
  <2>3. QED
    BY <2>2, SubSeqFull, Zenon
<1>4. QED
  BY <1>2, <1>3

Regroups(a, b, c, d) ==
    /\ ((a \o b) \o c) \o d = (a \o b) \o (c \o d)
    /\ (a \o (b \o c)) \o d = (a \o b) \o (c \o d)
    /\ (a \o (b \o c)) \o d = a \o ((b \o c) \o d)

(* Associativity for four sequences.                                       *)
LEMMA AllRegroup == \A a, b, c, d \in Seq(Nat) : Regroups(a, b, c, d)
<1> SUFFICES ASSUME NEW a \in Seq(Nat), NEW b \in Seq(Nat), NEW c \in Seq(Nat),
                    NEW d \in Seq(Nat)
             PROVE  Regroups(a, b, c, d)
  OBVIOUS
<1>1. a \o b \in Seq(Nat) /\ b \o c \in Seq(Nat)
  BY ConcatProperties
<1>2. Joined(a, b, c) /\ Joined(a \o b, c, d) /\ Joined(a, b \o c, d) /\ Joined(b, c, d)
  BY <1>1, AllJoined
<1>3. QED
  BY <1>2, Zenon DEF Joined, Regroups

InOrder == UpTo(OnTheWay, captured)

(* What is encoded is cut off the front of the samples.                    *)
LEMMA EncodeCuts ==
    ASSUME AudioInv, [Next]_vars, Encodes
    PROVE  CutOff
<1>1. encode
  <2>1. apc = "encode" /\ apc' = "loop"
    BY DEF Encodes
  <2>2. ~(launch \/ stop \/ join \/ UNCHANGED vars)
    BY <2>1 DEF launch, stop, join, vars
  <2>3. \A n : ~audio_source_buffer_fill(n)
    BY <2>1 DEF audio_source_buffer_fill
  <2>4. ~(encoder_start \/ encoder_loop \/ read_timeout \/ read_after_wait \/ encoder_quit)
    BY <2>1, Zenon DEF encoder_start, encoder_loop, read_timeout, read_after_wait, encoder_quit
  <2> QED
    BY <2>2, <2>3, <2>4 DEF Next, Encoder
<1>2. Queued' = Queued
  BY <1>1, SameQueued DEF encode
<1>3. Len(samples) \in Nat /\ FrameSize \in Nat
  BY AudioAssumption DEF AudioInv, TypeOK
<1>4. ~(Len(samples) < FrameSize)
  BY <1>3 DEF Encodes
<1> QED
  BY <1>1, <1>2, <1>4 DEF Encodes, encode, CutOff

(* Every step keeps all the samples on the way in order.                   *)
LEMMA InOrderNext ==
    ASSUME AudioInv, InOrder, [Next]_vars
    PROVE  InOrder' /\ (CutOff => Ordered(packet \o packet'))
<1>0. /\ packet \in Seq(Nat) /\ samples \in Seq(Nat) /\ Queued \in Seq(Nat)
      /\ packet \o samples \in Seq(Nat) /\ OnTheWay \in Seq(Nat)
      /\ captured \in Nat /\ ChunkSize \in Nat
  <2>1. packet \in Seq(Nat) /\ samples \in Seq(Nat) /\ Queued \in Seq(Nat)
    <3>1. packet \in Seq(Sample) /\ samples \in Seq(Sample) /\ Queued \in Seq(Sample)
      BY QueuedIsSeq DEF AudioInv, TypeOK
    <3>2. Sample \subseteq Nat
      BY DEF Sample
    <3>3. QED
      BY <3>1, <3>2, SeqMonotonic
  <2>2. packet \o samples \in Seq(Nat) /\ OnTheWay \in Seq(Nat)
    BY <2>1, ConcatProperties DEF OnTheWay
  <2>3. QED
    BY <2>1, <2>2, AudioAssumption DEF AudioInv, TypeOK
<1>1. ASSUME \E n \in 1..ChunkSize : Filled(n) PROVE InOrder'
  <2>1. PICK n \in 1..ChunkSize : Filled(n)
    BY <1>1
  <2>2. packet' = packet /\ samples' = samples /\ captured' = captured + n /\ n \in Nat
    BY <2>1 DEF Filled
  <2>3. CASE Queued' = Queued
    BY SMTT(30), <1>0, <2>2, <2>3 DEF InOrder, OnTheWay, UpTo
  <2>4. CASE Queued' = Queued \o [i \in 1..n |-> captured + i]
    <3> DEFINE chunk == [i \in 1..n |-> captured + i]
    <3>0. chunk \in Seq(Nat)
      BY <1>0, <2>2
    <3> HIDE DEF chunk
    <3>1. OnTheWay' = OnTheWay \o chunk
      <4>1. OnTheWay' = (packet \o samples) \o (Queued \o chunk)
        BY <2>2, <2>4 DEF OnTheWay, chunk
      <4>2. Regroups(packet, samples, Queued, chunk)
        BY <1>0, <3>0, AllRegroup
      <4>3. QED
        BY <4>1, <4>2, Zenon DEF Regroups, OnTheWay
    <3>2. QED
      BY <1>0, <2>2, <3>1, UpToGrows DEF InOrder, chunk
  <2>5. QED
    BY <2>1, <2>3, <2>4 DEF Filled
<1>2. ASSUME \E c \in 1..Len(Queued) : Taken(c) PROVE InOrder'
  <2>1. PICK c \in 1..Len(Queued) : Taken(c)
    BY <1>2
  <2>2. packet' = packet /\ captured' = captured
        /\ samples' = samples \o SubSeq(Queued, 1, c)
        /\ Queued' = SubSeq(Queued, c + 1, Len(Queued))
    BY <2>1 DEF Taken
  <2>3. SubSeq(Queued, 1, c) \in Seq(Nat) /\ SubSeq(Queued, c + 1, Len(Queued)) \in Seq(Nat)
        /\ SubSeq(Queued, 1, c) \o SubSeq(Queued, c + 1, Len(Queued)) = Queued
    <3>1. c \in 0..Len(Queued)
      BY <1>0, LenProperties
    <3>2. QED
      BY <1>0, <3>1, SplitSeq
  <2>4. OnTheWay' = OnTheWay
    <3> DEFINE eldest == SubSeq(Queued, 1, c)
               others == SubSeq(Queued, c + 1, Len(Queued))
    <3>1. OnTheWay' = (packet \o (samples \o eldest)) \o others
      BY <2>2 DEF OnTheWay
    <3>2. OnTheWay = (packet \o samples) \o (eldest \o others)
      BY <2>3 DEF OnTheWay
    <3> HIDE DEF eldest, others
    <3>3. eldest \in Seq(Nat) /\ others \in Seq(Nat)
      BY <2>3 DEF eldest, others
    <3>4. Regroups(packet, samples, eldest, others)
      BY <1>0, <3>3, AllRegroup
    <3>5. QED
      BY <3>1, <3>2, <3>4, Zenon DEF Regroups
  <2>5. QED
    BY <2>2, <2>4 DEF InOrder
<1>3. ASSUME Opened \/ Closed PROVE InOrder'
  <2>1. packet' = packet /\ captured' = captured /\ Queued' = <<>>
        /\ samples' \in {<<>>, samples}
    BY <1>3 DEF Opened, Closed
  <2>2. OnTheWay' \in {packet, packet \o samples}
    <3>1. OnTheWay' = packet \o samples'
      <4>1. OnTheWay' = (packet \o samples') \o <<>> /\ packet \o samples' \in Seq(Nat)
        BY <1>0, <2>1, ConcatProperties, EmptySeq DEF OnTheWay
      <4>2. QED
        BY <4>1, ConcatEmptySeq
    <3>2. packet \o <<>> = packet
      BY <1>0, ConcatEmptySeq
    <3>3. QED
      BY <2>1, <3>1, <3>2
  <2>3. UpTo(packet \o samples, captured) /\ UpTo(packet, captured)
    BY <1>0, UpToParts DEF InOrder, OnTheWay
  <2>4. QED
    BY <2>1, <2>2, <2>3 DEF InOrder
<1>4. ASSUME CutOff PROVE InOrder' /\ Ordered(packet \o packet')
  <2>1. captured' = captured /\ Queued' = Queued
        /\ packet' = SubSeq(samples, 1, FrameSize)
        /\ samples' = SubSeq(samples, FrameSize + 1, Len(samples))
        /\ FrameSize \in 0..Len(samples)
    BY <1>0, <1>4, AudioAssumption, LenProperties DEF CutOff
  <2>2. packet' \in Seq(Nat) /\ samples' \in Seq(Nat) /\ samples = packet' \o samples'
    BY <1>0, <2>1, SplitSeq
  <2>3. OnTheWay' = (packet' \o samples') \o Queued /\ OnTheWay' \in Seq(Nat)
    BY <1>0, <2>1, <2>2, ConcatProperties DEF OnTheWay
  <2>4. OnTheWay = packet \o OnTheWay'
    <3>1. OnTheWay = (packet \o (packet' \o samples')) \o Queued
      BY <2>2 DEF OnTheWay
    <3>2. Regroups(packet, packet', samples', Queued)
      BY <1>0, <2>2, AllRegroup
    <3>3. QED
      BY <2>3, <3>1, <3>2, Zenon DEF Regroups
  <2>5. OnTheWay = (packet \o packet') \o (samples' \o Queued)
        /\ packet \o packet' \in Seq(Nat) /\ samples' \o Queued \in Seq(Nat)
    <3>1. OnTheWay = (packet \o (packet' \o samples')) \o Queued
      BY <2>2 DEF OnTheWay
    <3>2. Regroups(packet, packet', samples', Queued)
      BY <1>0, <2>2, AllRegroup
    <3>3. packet \o packet' \in Seq(Nat) /\ samples' \o Queued \in Seq(Nat)
      BY <1>0, <2>2, ConcatProperties
    <3>4. QED
      BY <3>1, <3>2, <3>3, Zenon DEF Regroups
  <2>6. UpTo(OnTheWay', captured)
    BY <1>0, <2>3, <2>4, UpToParts DEF InOrder
  <2>7. UpTo(packet \o packet', captured)
    BY <1>0, <2>5, UpToParts DEF InOrder
  <2>8. QED
    BY <2>1, <2>6, <2>7 DEF InOrder, UpTo
<1>5. ASSUME Idle PROVE InOrder'
  BY <1>5 DEF Idle, InOrder, OnTheWay
<1>6. QED
  BY <1>1, <1>2, <1>3, <1>4, <1>5, Steps

(* No packet carries a sample twice or out of order, and none repeats a    *)
(* sample of the packet before it, for all sizes and across sessions.      *)
THEOREM PacketsInOrderCorrect == Spec => PacketsInOrder
<1>1. Init => InOrder
  <2>1. Init => OnTheWay = <<>>
    BY DEF Init, OnTheWay, Queued
  <2>2. QED
    BY <2>1 DEF InOrder, UpTo, Ordered
<1>2. AudioInv /\ InOrder /\ [Next]_vars
      => InOrder' /\ [Encodes => Ordered(packet \o packet')]_vars
  BY InOrderNext, EncodeCuts
<1>3. QED
  BY <1>1, <1>2, AudioCorrect, PTL DEF Spec, PacketsInOrder

-----------------------------------------------------------------------------
(***************************************************************************)
(* The loop-back capture keeps to the clock within its bounds, whatever    *)
(* the period, the nap, the lateness of Sleep and the rate of the samples. *)
(***************************************************************************)
Since   == now - silenceFrom
Active  == playing \/ capturing > 0
Longest == Nap + Late

CaptureTypeOK ==
    /\ now \in Nat /\ bursts \in Nat /\ ready \in Nat /\ wakes \in Nat /\ wframes \in Nat
    /\ silenceFrom \in Nat /\ fillSilence \in Nat /\ given \in Nat /\ silentNaps \in Nat
    /\ playing \in BOOLEAN
    /\ capturing \in 0..PacketTime - 1
    /\ cpc \in {"call", "look", "nap", "copy", "ended"}

(* No time passes but in a nap, which starts from silenceFrom.             *)
NapsFromSilence ==
    /\ Since \in 0..Longest
    /\ cpc = "nap" => wakes = silenceFrom + Nap
    /\ cpc = "copy" => ready > 0
    /\ cpc = "nap" /\ ready > 0 => Since > 0
    /\ cpc \in {"call", "look"} /\ ready = 0 => Since = 0

(* The time that the samples read take, with those of packets and silence  *)
(* that wait to be read.                                                   *)
InTicks == (given + fillSilence + ready * Period) * Grain

(* How far sound is ahead, of what its beginnings allow; while nothing is  *)
(* captured in a nap, one that begins is not used yet.                     *)
Margin(begun) == begun * (PacketTime - 1) - (InTicks - silenceFrom)

AheadOfClock ==
    /\ Margin(bursts) >= capturing - Since
    /\ cpc = "nap" /\ ready = 0 =>
         \/ Active /\ Since <= capturing
         \/ Active /\ Margin(bursts - 1) >= 0
         \/ ~Active /\ Margin(bursts) >= 0

(* How far silenceFrom is behind what is accounted for, with what may      *)
(* still be lost: the nap in which sound ends, and that in which it began; *)
(* what was rounded off is not lost again.                                 *)
EndCost   == Longest - 1
BurstCost == 2 * Longest - PacketTime - 1
Rounded   == silentNaps * (Grain - 1)
Credit    == InTicks + capturing - silenceFrom + bursts * BurstCost + Rounded

BehindClock ==
    /\ Credit >= 0
    /\ cpc = "ended" \/
       /\ Active /\ (ready > 0 \/ cpc # "nap") =>
            Credit - Since >= EndCost
       /\ ~Active /\ ready > 0 => Credit - Since >= 0 /\ (cpc = "nap" => Credit >= Longest)
       /\ cpc = "nap" /\ ready = 0 /\ Active =>
            Credit - Since >= EndCost \/ Credit - capturing >= BurstCost

CaptureInv == CaptureTypeOK /\ NapsFromSilence /\ AheadOfClock /\ BehindClock

-----------------------------------------------------------------------------
(* Products with a sum, which the provers do not take apart themselves.    *)
LEMMA Products ==
    ASSUME NEW a \in Int, NEW b \in Int, NEW c \in Int
    PROVE  /\ a * b \in Int
           /\ (a + c) * b = a * b + c * b
           /\ (a - c) * b = a * b - c * b
  OBVIOUS

(* What the sizes are, and in which order.                                 *)
LEMMA CaptureSizes ==
    /\ Grain \in Nat /\ Period \in Nat /\ PacketTime \in Nat
    /\ Nap \in Nat /\ Late \in Nat /\ Chunk \in Nat
    /\ 1 <= Grain /\ 1 <= Period /\ 1 <= PacketTime /\ PacketTime <= Nap /\ Period <= Chunk
    /\ Longest \in Nat /\ EndCost \in Nat /\ BurstCost \in Nat
    /\ EndCost = Longest - 1 /\ BurstCost = 2 * Longest - PacketTime - 1
    /\ Nap <= Longest /\ Longest = Nap + Late
<1>1. Grain \in Nat \ {0} /\ Period \in Nat \ {0}
  BY CaptureAssumption
<1>2. Period * Grain \in Nat /\ Period * Grain >= 1
  BY <1>1
<1> QED
  BY <1>1, <1>2, CaptureAssumption DEF PacketTime, Longest, EndCost, BurstCost

(* The products in the invariant are numbers.                              *)
LEMMA TimesAreNumbers ==
    ASSUME CaptureTypeOK
    PROVE  /\ InTicks \in Int /\ Rounded \in Int
           /\ bursts * (PacketTime - 1) \in Int /\ bursts * BurstCost \in Int
           /\ (bursts - 1) * (PacketTime - 1) = bursts * (PacketTime - 1) - (PacketTime - 1)
           /\ given + fillSilence + ready * Period \in Int
<1> USE CaptureSizes DEF CaptureTypeOK
<1>1. ready * Period \in Int
  BY Products
<1>2. given + fillSilence + ready * Period \in Int
  BY <1>1
<1>3. InTicks \in Int /\ Rounded \in Int
  BY <1>2, Products DEF InTicks, Rounded
<1>4. /\ bursts * (PacketTime - 1) \in Int /\ bursts * BurstCost \in Int
      /\ (bursts - 1) * (PacketTime - 1) = bursts * (PacketTime - 1) - 1 * (PacketTime - 1)
  BY Products
<1> QED
  BY <1>2, <1>3, <1>4

(* Samples that are added take their time.                                 *)
LEMMA TicksAdded ==
    ASSUME CaptureTypeOK, NEW n \in Int,
           given' + fillSilence' + ready' * Period = given + fillSilence + ready * Period + n
    PROVE  InTicks' = InTicks + n * Grain
<1> DEFINE m == given + fillSilence + ready * Period
<1>1. m \in Int
  BY TimesAreNumbers
<1>2. InTicks = m * Grain /\ InTicks' = (m + n) * Grain
  BY DEF InTicks
<1> HIDE DEF m
<1> QED
  BY <1>1, <1>2, CaptureSizes, Products

(* A time in whole samples is less than a sample short.                    *)
LEMMA RoundedDown ==
    ASSUME NEW d \in Nat
    PROVE  /\ d \div Grain \in Nat
           /\ (d \div Grain) * Grain <= d /\ d <= (d \div Grain) * Grain + (Grain - 1)
BY CaptureSizes

(* Nothing is owed when the capture starts.                                *)
LEMMA CaptureInvInit == CaptureInit => CaptureInv
<1> SUFFICES ASSUME CaptureInit PROVE CaptureInv
  OBVIOUS
<1> USE CaptureSizes DEF CaptureInit
<1>1. 0 * Period = 0 /\ 0 * Grain = 0 /\ 0 * (Grain - 1) = 0
      /\ 0 * (PacketTime - 1) = 0 /\ 0 * BurstCost = 0
  OBVIOUS
<1>2. CaptureTypeOK /\ NapsFromSilence
  <2>1. capturing \in 0..PacketTime - 1
    OBVIOUS
  <2>2. CaptureTypeOK
    BY <2>1 DEF CaptureTypeOK
  <2>3. NapsFromSilence
    BY DEF NapsFromSilence, Since
  <2>4. QED
    BY <2>2, <2>3
<1>3. InTicks = 0 /\ Rounded = 0
  BY <1>1 DEF InTicks, Rounded
<1>4. AheadOfClock
  BY <1>1, <1>3 DEF AheadOfClock, Margin, Since
<1>5. BehindClock
  BY <1>1, <1>3 DEF BehindClock, Credit, Active
<1>6. QED
  BY <1>2, <1>4, <1>5 DEF CaptureInv

(* A tick passes; one more packet may be ready.                            *)
LEMMA TickKeeps == ASSUME CaptureInv, tick PROVE CaptureInv'
<1> USE CaptureSizes DEF CaptureInv, CaptureTypeOK
<1>1. /\ InTicks \in Int /\ Rounded \in Int
      /\ bursts * (PacketTime - 1) \in Int /\ bursts * BurstCost \in Int
      /\ (bursts - 1) * (PacketTime - 1) = bursts * (PacketTime - 1) - (PacketTime - 1)
  BY TimesAreNumbers
<1>2. Rounded' = Rounded /\ bursts' = bursts /\ silenceFrom' = silenceFrom /\ now' = now + 1
  BY DEF tick, readvars, Rounded
<1>3. CASE Active /\ capturing + 1 = PacketTime
  <2>1. capturing' = 0 /\ ready' = ready + 1
    BY <1>3 DEF tick, Active
  <2>2. given' + fillSilence' + ready' * Period = given + fillSilence + ready * Period + Period
    <3>1. (ready + 1) * Period = ready * Period + 1 * Period /\ ready * Period \in Int
      BY Products
    <3> QED
      BY <2>1, <3>1 DEF tick, readvars
  <2>3. InTicks' = InTicks + PacketTime
    BY <2>2, TicksAdded DEF PacketTime
  <2>4. CaptureTypeOK' /\ NapsFromSilence'
    BY <2>1 DEF tick, readvars, NapsFromSilence, Since
  <2>5. AheadOfClock'
    BY <1>1, <1>2, <1>3, <2>1, <2>3 DEF tick, AheadOfClock, Margin, Active, Since
  <2>6. Since' = Since + 1 /\ Since \in 0..Longest - 1 /\ cpc = "nap" /\ cpc' = "nap"
    BY DEF tick, readvars, NapsFromSilence, Since
  <2>7. Credit' = Credit + 1 /\ Credit \in Int
    BY <1>1, <1>2, <1>3, <2>1, <2>3 DEF Credit
  <2>8. BehindClock'
    BY <1>3, <2>1, <2>6, <2>7 DEF BehindClock
  <2> QED
    BY <2>4, <2>5, <2>8
<1>4. CASE Active /\ capturing + 1 # PacketTime
  <2>1. capturing' = capturing + 1 /\ ready' = ready /\ Active'
    BY <1>4 DEF tick, Active
  <2>2. InTicks' = InTicks
    BY <2>1 DEF tick, readvars, InTicks
  <2>3. CaptureTypeOK' /\ NapsFromSilence'
    BY <1>4, <2>1 DEF tick, readvars, NapsFromSilence, Since
  <2>4. AheadOfClock'
    BY <1>1, <1>2, <1>4, <2>1, <2>2 DEF tick, AheadOfClock, Margin, Since
  <2>5. Since' = Since + 1 /\ Since \in 0..Longest - 1 /\ cpc = "nap" /\ cpc' = "nap"
    BY DEF tick, readvars, NapsFromSilence, Since
  <2>6. Credit' = Credit + 1 /\ Credit \in Int
    BY <1>1, <1>2, <2>1, <2>2 DEF Credit
  <2>7. BehindClock'
    BY <1>4, <2>1, <2>5, <2>6 DEF BehindClock
  <2> QED
    BY <2>3, <2>4, <2>7
<1>5. CASE ~Active
  <2>1. capturing' = capturing /\ ready' = ready /\ ~Active'
    BY <1>5 DEF tick, Active
  <2>2. InTicks' = InTicks
    BY <2>1 DEF tick, readvars, InTicks
  <2>3. CaptureTypeOK' /\ NapsFromSilence'
    BY <2>1 DEF tick, readvars, NapsFromSilence, Since
  <2>4. AheadOfClock'
    BY <1>1, <1>2, <1>5, <2>1, <2>2 DEF tick, AheadOfClock, Margin, Since
  <2>5. Since' = Since + 1 /\ Since \in 0..Longest - 1 /\ cpc = "nap" /\ cpc' = "nap"
    BY DEF tick, readvars, NapsFromSilence, Since
  <2>6. Credit' = Credit /\ Credit \in Int
    BY <1>1, <1>2, <2>1, <2>2 DEF Credit
  <2>7. BehindClock'
    BY <1>5, <2>1, <2>5, <2>6 DEF BehindClock
  <2> QED
    BY <2>3, <2>4, <2>7
<1>6. QED
  BY <1>3, <1>4, <1>5

(* Something begins to be played, or ends.                                 *)
LEMMA PlayKeeps == ASSUME CaptureInv, play_or_stop PROVE CaptureInv'
<1> USE CaptureSizes DEF CaptureInv, CaptureTypeOK
<1> DEFINE b == bursts * (PacketTime - 1)
           k == bursts * BurstCost
<1>1. InTicks \in Int /\ Rounded \in Int /\ b \in Int /\ k \in Int
  BY TimesAreNumbers
<1>2. /\ (bursts - 1) * (PacketTime - 1) = b - (PacketTime - 1)
      /\ (bursts + 1) * (PacketTime - 1) = b + (PacketTime - 1)
      /\ (bursts + 1) * BurstCost = k + BurstCost
      /\ (bursts + 1) - 1 = bursts
  BY Products
<1>3. InTicks' = InTicks /\ Rounded' = Rounded
  BY DEF play_or_stop, readvars, InTicks, Rounded
<1>4. CaptureTypeOK' /\ NapsFromSilence'
  BY DEF play_or_stop, readvars, NapsFromSilence, Since
<1>5. AheadOfClock'
  BY <1>1, <1>2, <1>3 DEF play_or_stop, readvars, AheadOfClock, Margin, Active, Since
<1>6. BehindClock'
  <2>1. Since' = Since /\ Since \in 0..Longest /\ BurstCost >= EndCost
    BY DEF play_or_stop, readvars, NapsFromSilence, Since
  <2>2. CASE playing
    <3>1. Credit' = Credit /\ Credit \in Int
      BY <1>1, <1>3, <2>2 DEF play_or_stop, readvars, Credit
    <3>2. /\ cpc = "nap" /\ cpc' = "nap" /\ Active /\ (Active' <=> capturing > 0)
          /\ ready' = ready /\ capturing' = capturing
      BY <2>2 DEF play_or_stop, readvars, Active
    <3>3. QED
      BY <2>1, <3>1, <3>2 DEF BehindClock, NapsFromSilence
  <2>3. CASE ~playing
    <3>1. Credit' = Credit + BurstCost /\ Credit \in Int
      BY <1>1, <1>2, <1>3, <2>3 DEF play_or_stop, readvars, Credit
    <3>2. cpc = "nap" /\ cpc' = "nap" /\ Active' /\ ready' = ready /\ capturing' = capturing
      BY <2>3 DEF play_or_stop, readvars, Active
    <3>3. Active <=> capturing > 0
      BY <2>3 DEF Active
    <3>4. QED
      BY <2>1, <3>1, <3>2, <3>3 DEF BehindClock
  <2>4. QED
    BY <2>2, <2>3
<1>7. QED
  BY <1>4, <1>5, <1>6

(* Silence that was due is given.                                          *)
LEMMA SilenceKeeps == ASSUME CaptureInv, read_silence PROVE CaptureInv'
<1> USE CaptureSizes DEF CaptureInv, CaptureTypeOK
<1>1. PICK n \in Nat : /\ fillSilence' = fillSilence - n /\ given' = given + n
                       /\ n <= fillSilence /\ n <= Chunk
                       /\ wframes' = Chunk - n
                       /\ cpc' = IF n = Chunk THEN "call" ELSE "look"
  BY DEF read_silence
<1>2. CaptureTypeOK' /\ NapsFromSilence'
  BY <1>1 DEF read_silence, devicevars, NapsFromSilence, Since
<1>3. InTicks' = InTicks /\ Rounded' = Rounded /\ InTicks \in Int /\ Rounded \in Int
  <2>1. given' + fillSilence' = given + fillSilence
    BY <1>1
  <2> QED
    BY <2>1, TimesAreNumbers DEF read_silence, devicevars, InTicks, Rounded
<1>4. AheadOfClock'
  BY <1>1, <1>3, TimesAreNumbers DEF read_silence, devicevars, AheadOfClock, Margin, Active, Since
<1>5. BehindClock'
  BY <1>1, <1>3, TimesAreNumbers
  DEF read_silence, devicevars, BehindClock, Credit, Active, Since, NapsFromSilence
<1>6. QED
  BY <1>2, <1>4, <1>5

(* The thread looks for packets, and sleeps if there is none.              *)
LEMMA LookKeeps == ASSUME CaptureInv, GetNextPacketSize PROVE CaptureInv'
<1> USE CaptureSizes DEF CaptureInv, CaptureTypeOK
<1>1. CaptureTypeOK' /\ NapsFromSilence'
  BY DEF GetNextPacketSize, devicevars, NapsFromSilence, Since
<1>2. InTicks' = InTicks /\ Rounded' = Rounded
  BY DEF GetNextPacketSize, devicevars, InTicks, Rounded
<1>3. AheadOfClock'
  BY <1>2, TimesAreNumbers
  DEF GetNextPacketSize, devicevars, AheadOfClock, Margin, Active, Since, NapsFromSilence
<1>4. BehindClock'
  BY <1>2, TimesAreNumbers
  DEF GetNextPacketSize, devicevars, BehindClock, Credit, Active, Since, NapsFromSilence
<1>5. QED
  BY <1>1, <1>3, <1>4

(* Nothing came in a nap: it was silent, but for what is being captured.   *)
LEMMA WakeKeeps == ASSUME CaptureInv, after_sleep PROVE CaptureInv'
<1> USE CaptureSizes DEF CaptureInv, CaptureTypeOK
<1> DEFINE n == Since \div Grain
<1>0. Since \in Nat /\ Since = now - silenceFrom
  BY DEF NapsFromSilence, Since
<1>1. /\ InTicks \in Int /\ Rounded \in Int
      /\ bursts * (PacketTime - 1) \in Int /\ bursts * BurstCost \in Int
      /\ (bursts - 1) * (PacketTime - 1) = bursts * (PacketTime - 1) - (PacketTime - 1)
  BY TimesAreNumbers
<1>2. n \in Nat /\ n * Grain \in Int /\ n * Grain <= Since /\ Since <= n * Grain + (Grain - 1)
  BY <1>0, RoundedDown, Products
<1>3. CASE ready = 0
  <2>1. /\ fillSilence' = fillSilence + n /\ silenceFrom' = now /\ cpc' = "call"
        /\ silentNaps' = silentNaps + 1
        /\ UNCHANGED <<now, playing, bursts, capturing, ready, wakes, wframes, given>>
    BY <1>0, <1>3 DEF after_sleep, devicevars, Since
  <2>2. InTicks' = InTicks + n * Grain
    <3>1. given' + fillSilence' + ready' * Period = given + fillSilence + ready * Period + n
      BY <1>2, <2>1, TimesAreNumbers, Products
    <3> HIDE DEF n
    <3> QED
      BY <1>2, <3>1, TicksAdded
  <2>3. Rounded' = Rounded + (Grain - 1)
    BY <2>1, Products DEF Rounded
  <2> HIDE DEF n
  <2>4. CaptureTypeOK' /\ NapsFromSilence'
    BY <1>2, <1>3, <2>1 DEF after_sleep, NapsFromSilence, Since
  <2>5. AheadOfClock'
    BY <1>0, <1>1, <1>2, <1>3, <2>1, <2>2
    DEF after_sleep, AheadOfClock, Margin, Active, Since, NapsFromSilence
  <2>6. BehindClock'
    BY <1>0, <1>1, <1>2, <1>3, <2>1, <2>2, <2>3
    DEF after_sleep, BehindClock, Credit, Active, Since, NapsFromSilence
  <2> QED
    BY <2>4, <2>5, <2>6
<1>4. CASE ready # 0
  <2>1. /\ cpc' = "copy"
        /\ UNCHANGED <<now, playing, bursts, capturing, ready, wakes, wframes, given,
                       fillSilence, silenceFrom, silentNaps>>
    BY <1>4 DEF after_sleep, devicevars
  <2>2. InTicks' = InTicks /\ Rounded' = Rounded
    BY <2>1 DEF InTicks, Rounded
  <2>3. CaptureTypeOK' /\ NapsFromSilence'
    BY <1>4, <2>1 DEF NapsFromSilence, Since
  <2>4. AheadOfClock'
    BY <1>1, <2>1, <2>2 DEF AheadOfClock, Margin, Active, Since
  <2>5. BehindClock'
    BY <1>1, <1>4, <2>1, <2>2
    DEF after_sleep, BehindClock, Credit, Active, Since, NapsFromSilence
  <2> QED
    BY <2>3, <2>4, <2>5
<1>5. QED
  BY <1>3, <1>4

(* Packets are copied as far as there is room.                             *)
LEMMA CopyKeeps == ASSUME CaptureInv, copy_packets PROVE CaptureInv'
<1> USE CaptureSizes DEF CaptureInv, CaptureTypeOK
<1>1. /\ Copied \in 0..ready
      /\ Copied * Period <= wframes /\ Copied * Period \in Nat
      /\ (ready - Copied) * Period = ready * Period - Copied * Period
  <2>1. wframes \div Period \in Nat /\ (wframes \div Period) * Period <= wframes
    OBVIOUS
  <2>2. Copied \in 0..ready /\ Copied <= wframes \div Period
    BY <2>1 DEF Copied
  <2>3. Copied * Period \in Nat /\ Copied * Period <= (wframes \div Period) * Period
    BY <2>1, <2>2
  <2>4. QED
    BY <2>1, <2>2, <2>3, Products
<1>2. CaptureTypeOK' /\ NapsFromSilence'
  BY <1>1 DEF copy_packets, NapsFromSilence, Since
<1>3. InTicks' = InTicks /\ Rounded' = Rounded
  <2>1. given' + fillSilence' + ready' * Period = given + fillSilence + ready * Period
    BY <1>1, Products DEF copy_packets
  <2> QED
    BY <2>1 DEF copy_packets, InTicks, Rounded
<1>4. AheadOfClock'
  BY <1>1, <1>3, TimesAreNumbers
  DEF copy_packets, AheadOfClock, Margin, Active, Since, NapsFromSilence
<1>5. BehindClock'
  BY <1>1, <1>3, TimesAreNumbers
  DEF copy_packets, BehindClock, Credit, Active, Since, NapsFromSilence
<1>6. QED
  BY <1>2, <1>4, <1>5

(* Every step of the capture keeps the invariant.                          *)
LEMMA CaptureInvNext == CaptureInv /\ [CaptureNext]_capturevars => CaptureInv'
<1> SUFFICES ASSUME CaptureInv, [CaptureNext]_capturevars PROVE CaptureInv'
  OBVIOUS
<1>1. CASE read_fails
  BY <1>1 DEF read_fails, devicevars, readvars, CaptureInv, CaptureTypeOK, NapsFromSilence,
              AheadOfClock, Margin, BehindClock, Credit, InTicks, Rounded, Active, Since
<1>2. CASE UNCHANGED capturevars
  BY <1>2 DEF capturevars, devicevars, readvars, CaptureInv, CaptureTypeOK, NapsFromSilence,
              AheadOfClock, Margin, BehindClock, Credit, InTicks, Rounded, Active, Since
<1>3. QED
  BY <1>1, <1>2, TickKeeps, PlayKeeps, SilenceKeeps, LookKeeps, WakeKeeps, CopyKeeps
     DEF CaptureNext

(* Within what is due for the beginnings and the ends of sound, and what   *)
(* is rounded off, what the encoders are given neither gets ahead of the   *)
(* clock nor falls behind it.                                              *)
THEOREM SoundKeepsClockCorrect == CaptureSpec => []SoundKeepsClock
<1>1. CaptureInv => SoundKeepsClock
  <2> SUFFICES ASSUME CaptureInv PROVE SoundKeepsClock
    OBVIOUS
  <2> USE CaptureSizes DEF CaptureInv, CaptureTypeOK
  <2>1. /\ InTicks \in Int /\ Rounded \in Int
        /\ bursts * (PacketTime - 1) \in Int /\ bursts * BurstCost \in Int
    BY TimesAreNumbers
  <2>2. bursts * (2 * (Nap + Late) - PacketTime - 1) = bursts * BurstCost
    BY DEF BurstCost, Longest
  <2>3. Accounted = InTicks + capturing
    BY DEF Accounted, InTicks
  <2>4. QED
    BY <2>1, <2>2, <2>3
    DEF SoundKeepsClock, AheadOfClock, Margin, BehindClock, Credit, Rounded, Since
<1>2. QED
  BY <1>1, CaptureInvInit, CaptureInvNext, PTL DEF CaptureSpec

-----------------------------------------------------------------------------
(***************************************************************************)
(* The player gives every sample once and in order, whatever the sizes.    *)
(***************************************************************************)

(* What is not silence.                                                    *)
Heardable == Nat \ {0}

SoundTypeOK ==
    /\ packets \in Nat /\ samples_in \in Nat /\ abpos \in Nat /\ pktsize \in Nat
    /\ queue \in Seq(Seq(Seq(Heardable))) /\ frames \in Seq(Seq(Heardable))
    /\ audiobuf \in Seq(Nat) /\ stream \in Seq(Nat)
    /\ fpc \in {"idle", "again", "get", "decode", "overrun", "exited"}
    /\ skipped \subseteq 1..samples_in

(* A packet is taken when less is left than SDL asks for; what is decoded  *)
(* of it and what is not are no more than what is in it.                   *)
BufferOK ==
    /\ abpos <= absize /\ absize <= BufferMax
    /\ fpc = "get" => abpos = 0 /\ absize < Asked
    /\ fpc = "decode" => abpos = 0 /\ absize + Len(FlattenSeq(frames)) <= Asked + pktsize
    /\ fpc \in {"idle", "again", "get"} => frames = <<>>
    /\ fpc = "overrun" => Asked + pktsize + SilenceSize > BufferMax

(* The numbers after m, n of them.                                         *)
UpFrom(m, n) == [k \in 1..n |-> m + k]

(* A queue of packets, each as the sequence of its samples.                *)
SamplesOf(q) == [i \in 1..Len(q) |-> FlattenSeq(q[i])]

(* What is left of the samples 1..n when those of S are given up.          *)
Kept(n, S) == Without(S, UpFrom(0, n))

Flow == stream \o (Remaining \o Pending)

(* The sequence s carries what is kept, and silence.                       *)
Carries(s, n, S) == Without({Silence}, s) = Kept(n, S)

FlowWhole == Carries(Flow, samples_in, skipped)

SoundInv == SoundTypeOK /\ BufferOK /\ FlowWhole

-----------------------------------------------------------------------------
(* The numbers that follow are a sequence, and one more comes last.        *)
LEMMA UpFromGrows ==
    ASSUME NEW m \in Nat, NEW n \in Nat, NEW k \in Nat
    PROVE  /\ UpFrom(m, n) \in Seq(Heardable) /\ Len(UpFrom(m, n)) = n
           /\ \A i \in 1..n : UpFrom(m, n)[i] = m + i
           /\ UpFrom(m, n + k) = UpFrom(m, n) \o UpFrom(m + n, k)
<1>1. \A a, b \in Nat : /\ UpFrom(a, b) \in Seq(Heardable) /\ Len(UpFrom(a, b)) = b
                        /\ \A i \in 1..b : UpFrom(a, b)[i] = a + i
  BY DEF UpFrom, Heardable
<1>2. m + n \in Nat /\ n + k \in Nat
  OBVIOUS
<1>3. /\ UpFrom(m, n) \o UpFrom(m + n, k) \in Seq(Heardable)
      /\ Len(UpFrom(m, n) \o UpFrom(m + n, k)) = n + k
      /\ \A i \in 1..n : (UpFrom(m, n) \o UpFrom(m + n, k))[i] = m + i
      /\ \A i \in 1..k : (UpFrom(m, n) \o UpFrom(m + n, k))[n + i] = m + n + i
  <2> DEFINE a == UpFrom(m, n)
             b == UpFrom(m + n, k)
  <2>1. /\ a \in Seq(Heardable) /\ Len(a) = n /\ \A i \in 1..n : a[i] = m + i
        /\ b \in Seq(Heardable) /\ Len(b) = k /\ \A i \in 1..k : b[i] = m + n + i
    BY <1>1, <1>2
  <2> HIDE DEF a, b
  <2>2. a \o b \in Seq(Heardable) /\ Len(a \o b) = n + k
        /\ \A i \in 1..n + k : (a \o b)[i] = IF i <= n THEN a[i] ELSE b[i - n]
    BY <2>1, ConcatProperties, ZenonT(30)
  <2>3. \A i \in 1..n : (a \o b)[i] = m + i
    BY <2>1, <2>2
  <2>4. \A i \in 1..k : (a \o b)[n + i] = m + n + i
    <3> SUFFICES ASSUME NEW i \in 1..k PROVE (a \o b)[n + i] = m + n + i
      OBVIOUS
    <3>1. n + i \in 1..n + k /\ ~(n + i <= n) /\ (n + i) - n = i
      OBVIOUS
    <3>2. QED
      BY <2>1, <2>2, <3>1
  <2>5. QED
    BY <2>2, <2>3, <2>4 DEF a, b
<1>4. \A i \in 1..n + k : (UpFrom(m, n) \o UpFrom(m + n, k))[i] = UpFrom(m, n + k)[i]
  <2> SUFFICES ASSUME NEW i \in 1..n + k
               PROVE  (UpFrom(m, n) \o UpFrom(m + n, k))[i] = m + i
    BY <1>1, <1>2
  <2>1. CASE i \in 1..n
    BY <1>3, <2>1
  <2>2. CASE i \notin 1..n
    <3>1. i - n \in 1..k /\ n + (i - n) = i /\ m + n + (i - n) = m + i
      BY <2>2
    <3>2. QED
      BY <1>3, <3>1
  <2>3. QED
    BY <2>1, <2>2
<1>5. UpFrom(m, n + k) = UpFrom(m, n) \o UpFrom(m + n, k)
  <2>1. UpFrom(m, n + k) \in Seq(Heardable) /\ Len(UpFrom(m, n + k)) = n + k
    BY <1>1, <1>2
  <2>2. QED
    BY <1>3, <1>4, <2>1, SeqEqual
<1>6. QED
  BY <1>1, <1>5

(* The frames of the sizes given carry the samples after n, and no more.   *)
LEMMA FramesCarry ==
    ASSUME NEW n \in Nat, NEW sizes \in Seq(Nat)
    PROVE  /\ FramesAfter(n, sizes) \in Seq(Seq(Heardable))
           /\ FlattenSeq(FramesAfter(n, sizes)) = UpFrom(n, Total(sizes))
<1> DEFINE before(s, i) == n + Total(SubSeq(s, 1, i - 1))
<1>1. ASSUME NEW s \in Seq(Nat), NEW i \in 1..Len(s) PROVE before(s, i) \in Nat /\ s[i] \in Nat
  <2>1. Len(s) \in Nat /\ i \in Nat /\ s[i] \in Nat
    BY LenProperties, ElementOfSeq
  <2>2. SubSeq(s, 1, i - 1) \in Seq(Nat)
    BY <2>1, SubSeqProperties
  <2>3. Total(SubSeq(s, 1, i - 1)) \in Nat
    BY <2>2, TotalType
  <2>4. QED
    BY <2>1, <2>3
<1>2. ASSUME NEW s \in Seq(Nat)
      PROVE  /\ FramesAfter(n, s) \in Seq(Seq(Heardable))
             /\ Len(FramesAfter(n, s)) = Len(s)
             /\ \A i \in 1..Len(s) : FramesAfter(n, s)[i] = UpFrom(before(s, i), s[i])
  <2>1. FramesAfter(n, s) = [i \in 1..Len(s) |-> UpFrom(before(s, i), s[i])]
    BY DEF FramesAfter, UpFrom
  <2>2. \A i \in 1..Len(s) : UpFrom(before(s, i), s[i]) \in Seq(Heardable)
    <3> HIDE DEF before
    <3>1. QED
      BY <1>1, UpFromGrows
  <2>3. Len(s) \in Nat
    BY LenProperties
  <2> HIDE DEF before
  <2>4. QED
    BY <2>1, <2>2, <2>3
<1> DEFINE P == {s \in Seq(Nat) : FlattenSeq(FramesAfter(n, s)) = UpFrom(n, Total(s))}
<1>3. <<>> \in P
  <2>1. FramesAfter(n, <<>>) = <<>> /\ UpFrom(n, 0) = <<>>
    BY DEF FramesAfter, UpFrom
  <2>2. QED
    BY <2>1, FlattenEmpty, TotalEmpty, EmptySeq
<1>4. ASSUME NEW s \in Seq(Nat), NEW e \in Nat, s \in P PROVE Append(s, e) \in P
  <2> DEFINE t == Append(s, e)
  <2>1. /\ t \in Seq(Nat) /\ Len(t) = Len(s) + 1 /\ Len(s) \in Nat
        /\ \A i \in 1..Len(s) : t[i] = s[i]
        /\ t[Len(s) + 1] = e
    BY AppendProperties, LenProperties
  <2> HIDE DEF t
  <2>2. \A i \in 1..Len(t) : SubSeq(t, 1, i - 1) = SubSeq(s, 1, i - 1)
    <3> SUFFICES ASSUME NEW i \in 1..Len(t) PROVE SubSeq(t, 1, i - 1) = SubSeq(s, 1, i - 1)
      OBVIOUS
    <3>1. /\ SubSeq(t, 1, i - 1) \in Seq(Nat) /\ Len(SubSeq(t, 1, i - 1)) = i - 1
          /\ \A j \in 1..i - 1 : SubSeq(t, 1, i - 1)[j] = t[j]
      BY <2>1, SMTT(30)
    <3>2. /\ SubSeq(s, 1, i - 1) \in Seq(Nat) /\ Len(SubSeq(s, 1, i - 1)) = i - 1
          /\ \A j \in 1..i - 1 : SubSeq(s, 1, i - 1)[j] = s[j]
      BY <2>1, SMTT(30)
    <3>3. \A j \in 1..i - 1 : t[j] = s[j]
      BY <2>1
    <3>4. QED
      BY <3>1, <3>2, <3>3, SeqEqual
  <2>3. SubSeq(s, 1, Len(s)) = s
    BY SubSeqFull
  <2>4. FramesAfter(n, t) = Append(FramesAfter(n, s), UpFrom(n + Total(s), e))
    <3> DEFINE u == FramesAfter(n, s)
               x == UpFrom(n + Total(s), e)
    <3>1. x \in Seq(Heardable)
      <4>1. n + Total(s) \in Nat
        BY TotalType
      <4>2. QED
        BY <4>1, UpFromGrows
    <3>2. u \in Seq(Seq(Heardable)) /\ Len(u) = Len(s)
          /\ \A i \in 1..Len(s) : u[i] = UpFrom(before(s, i), s[i])
      BY <1>2
    <3>3. FramesAfter(n, t) \in Seq(Seq(Heardable)) /\ Len(FramesAfter(n, t)) = Len(s) + 1
          /\ \A i \in 1..Len(s) + 1 : FramesAfter(n, t)[i] = UpFrom(before(t, i), t[i])
      BY <1>2, <2>1
    <3>4. \A i \in 1..Len(s) : FramesAfter(n, t)[i] = u[i]
      <4> SUFFICES ASSUME NEW i \in 1..Len(s) PROVE FramesAfter(n, t)[i] = u[i]
        OBVIOUS
      <4>1. i \in 1..Len(t)
        BY <2>1
      <4>2. SubSeq(t, 1, i - 1) = SubSeq(s, 1, i - 1)
        BY <2>2, <4>1
      <4> HIDE DEF u
      <4>3. QED
        BY <2>1, <3>2, <3>3, <4>1, <4>2
    <3>5. FramesAfter(n, t)[Len(s) + 1] = x
      <4>1. Len(s) + 1 \in 1..Len(t) /\ (Len(s) + 1) - 1 = Len(s)
        BY <2>1
      <4>2. SubSeq(t, 1, (Len(s) + 1) - 1) = s
        BY <2>2, <2>3, <4>1
      <4>3. before(t, Len(s) + 1) = n + Total(s)
        BY <4>2
      <4> HIDE DEF before
      <4>4. QED
        BY <2>1, <3>3, <4>1, <4>3
    <3> HIDE DEF u, x
    <3>6. /\ Append(u, x) \in Seq(Seq(Heardable)) /\ Len(Append(u, x)) = Len(s) + 1
          /\ \A i \in 1..Len(s) : Append(u, x)[i] = u[i]
          /\ Append(u, x)[Len(s) + 1] = x
      BY <3>1, <3>2, AppendProperties
    <3>7. \A i \in 1..Len(s) + 1 : Append(u, x)[i] = FramesAfter(n, t)[i]
      <4>1. \A i \in 1..Len(s) + 1 : i \in 1..Len(s) \/ i = Len(s) + 1
        BY <2>1
      <4>2. QED
        BY <3>4, <3>5, <3>6, <4>1
    <3>8. Append(u, x) = FramesAfter(n, t)
      BY <3>3, <3>6, <3>7, SeqEqual
    <3>9. QED
      BY <3>8 DEF u, x
  <2>5. FlattenSeq(FramesAfter(n, t)) = UpFrom(n, Total(s)) \o UpFrom(n + Total(s), e)
    <3>1. FramesAfter(n, s) \in Seq(Seq(Heardable)) /\ UpFrom(n + Total(s), e) \in Seq(Heardable)
      <4>1. n + Total(s) \in Nat
        BY TotalType
      <4>2. QED
        BY <1>2, <4>1, UpFromGrows
    <3>2. FlattenSeq(FramesAfter(n, s)) = UpFrom(n, Total(s))
      BY <1>4
    <3>3. QED
      BY <2>4, <3>1, <3>2, FlattenAppend
  <2>6. UpFrom(n, Total(s)) \o UpFrom(n + Total(s), e) = UpFrom(n, Total(s) + e)
    BY TotalType, UpFromGrows, ZenonT(30)
  <2>7. Total(t) = Total(s) + e
    BY TotalAppend DEF t
  <2>8. FlattenSeq(FramesAfter(n, t)) = UpFrom(n, Total(t))
    BY <2>5, <2>6, <2>7
  <2>9. QED
    BY <2>1, <2>8 DEF t
<1>5. \A s \in Seq(Nat) : s \in P
  <2> HIDE DEF P
  <2>1. QED
    BY <1>3, <1>4, SeqInduction
<1>6. QED
  BY <1>2, <1>5

(* What WithoutConcat states, folded so that the provers use it as it is.  *)
Splits(S, s, t) == Without(S, s \o t) = Without(S, s) \o Without(S, t)

(* And so it does, for sequences of numbers.                               *)
LEMMA AllSplit == \A s, t \in Seq(Nat) : \A S : Splits(S, s, t)
  BY WithoutConcat DEF Splits

(* The numbers up to n + m are those up to n and m more.                   *)
LEMMA UpFromZero ==
    ASSUME NEW n \in Nat, NEW m \in Nat
    PROVE  /\ UpFrom(0, n) \in Seq(Heardable) /\ UpFrom(n, m) \in Seq(Heardable)
           /\ Len(UpFrom(n, m)) = m /\ \A i \in 1..m : UpFrom(n, m)[i] = n + i
           /\ UpFrom(0, n + m) = UpFrom(0, n) \o UpFrom(n, m)
           /\ \A S : Without(S, UpFrom(0, n + m))
                       = Without(S, UpFrom(0, n)) \o Without(S, UpFrom(n, m))
<1>1. 0 + n = n /\ 0 \in Nat
  OBVIOUS
<1>2. UpFrom(0, n + m) = UpFrom(0, n) \o UpFrom(0 + n, m)
  BY <1>1, UpFromGrows, Zenon
<1>3. UpFrom(0, n + m) = UpFrom(0, n) \o UpFrom(n, m)
  BY <1>1, <1>2
<1>4. UpFrom(0, n) \in Seq(Heardable) /\ UpFrom(n, m) \in Seq(Heardable)
  BY <1>1, UpFromGrows
<1>5. Len(UpFrom(n, m)) = m /\ \A i \in 1..m : UpFrom(n, m)[i] = n + i
  BY UpFromGrows
<1>6. ASSUME NEW S
      PROVE  Without(S, UpFrom(0, n + m)) = Without(S, UpFrom(0, n)) \o Without(S, UpFrom(n, m))
  <2>1. Heardable \subseteq Nat
    BY DEF Heardable
  <2>2. UpFrom(0, n) \in Seq(Nat) /\ UpFrom(n, m) \in Seq(Nat)
    BY <1>4, <2>1, SeqMonotonic
  <2>3. Splits(S, UpFrom(0, n), UpFrom(n, m))
    BY <2>2, AllSplit
  <2>4. QED
    BY <1>3, <2>3, Zenon DEF Splits
<1>7. QED
  BY <1>3, <1>4, <1>5, <1>6, Zenon

(* Of what is kept no number is above n, and they are in order.            *)
LEMMA KeptInOrder ==
    ASSUME NEW S, NEW n \in Nat
    PROVE  Kept(n, S) \in Seq(Heardable) /\ Kept(n, S) \in Seq(Nat) /\ UpTo(Kept(n, S), n)
<1>0. \A k \in Nat : Kept(k, S) \in Seq(Heardable) /\ Kept(k, S) \in Seq(Nat)
  <2> SUFFICES ASSUME NEW k \in Nat PROVE Kept(k, S) \in Seq(Heardable) /\ Kept(k, S) \in Seq(Nat)
    OBVIOUS
  <2>1. UpFrom(0, k) \in Seq(Heardable)
    BY UpFromGrows
  <2>2. Kept(k, S) \in Seq(Heardable)
    BY <2>1, WithoutType DEF Kept
  <2>3. Heardable \subseteq Nat
    BY DEF Heardable
  <2>4. QED
    BY <2>2, <2>3, SeqMonotonic
<1> DEFINE P == {k \in Nat : UpTo(Kept(k, S), k)}
<1>1. 0 \in P
  <2>1. UpFrom(0, 0) = <<>>
    BY DEF UpFrom
  <2>2. Kept(0, S) = <<>>
    BY <2>1, WithoutEmpty DEF Kept
  <2>3. QED
    BY <2>2 DEF UpTo, Ordered
<1>2. ASSUME NEW k \in Nat, k \in P PROVE k + 1 \in P
  <2> DEFINE next == UpFrom(k, 1)
  <2>1. next \in Seq(Heardable) /\ Len(next) = 1 /\ next[1] = k + 1
        /\ UpFrom(0, k) \in Seq(Heardable) /\ UpFrom(0, k + 1) = UpFrom(0, k) \o next
    <3>1. next \in Seq(Heardable) /\ Len(next) = 1 /\ \A j \in 1..1 : next[j] = k + j
      BY UpFromZero
    <3>2. UpFrom(0, k) \in Seq(Heardable) /\ UpFrom(0, k + 1) = UpFrom(0, k) \o next
      BY UpFromZero
    <3> HIDE DEF next
    <3>3. QED
      BY <3>1, <3>2
  <2>2. next = [i \in 1..1 |-> k + i]
    BY DEF UpFrom
  <2>3. Kept(k + 1, S) = Kept(k, S) \o Without(S, next)
    BY UpFromZero DEF Kept, next
  <2> HIDE DEF next
  <2>4. UpTo(Kept(k, S), k) /\ Kept(k, S) \in Seq(Nat)
    BY <1>0, <1>2
  <2>5. CASE k + 1 \in S
    <3>1. Without(S, next) = <<>>
      <4>1. \A i \in 1..Len(next) : next[i] \in S
        BY <2>1, <2>5
      <4>2. QED
        BY <2>1, <4>1, WithoutAll
    <3>2. Kept(k + 1, S) = Kept(k, S)
      BY <2>3, <2>4, <3>1, ConcatEmptySeq
    <3>3. UpTo(Kept(k, S), k + 1)
      <4>1. \A i \in 1..Len(Kept(k, S)) : Kept(k, S)[i] \in Nat
        BY <2>4, ElementOfSeq
      <4>2. QED
        BY <2>4, <4>1 DEF UpTo
    <3>4. QED
      BY <3>2, <3>3
  <2>6. CASE k + 1 \notin S
    <3>1. Without(S, next) = next
      <4>1. \A i \in 1..Len(next) : next[i] \notin S
        BY <2>1, <2>6
      <4>2. QED
        BY <2>1, <4>1, WithoutNone
    <3>2. UpTo(Kept(k, S) \o [i \in 1..1 |-> k + i], k + 1)
      BY <2>4, UpToGrows
    <3>3. Kept(k + 1, S) = Kept(k, S) \o [i \in 1..1 |-> k + i]
      BY <2>2, <2>3, <3>1, Zenon
    <3>4. UpTo(Kept(k + 1, S), k + 1)
      BY <3>2, <3>3, Zenon
    <3>5. QED
      BY <3>4
  <2>7. QED
    BY <2>5, <2>6
<1>3. \A k \in Nat : k \in P
  <2> HIDE DEF P
  <2>1. QED
    BY <1>1, <1>2, SetInduction
<1>4. QED
  BY <1>0, <1>3

(* New samples that come into the queue are kept last,                     *)
LEMMA KeptGrows ==
    ASSUME NEW n \in Nat, NEW m \in Nat, NEW S \in SUBSET (1..n)
    PROVE  Kept(n + m, S) = Kept(n, S) \o UpFrom(n, m)
<1>1. /\ UpFrom(0, n) \in Seq(Heardable) /\ UpFrom(n, m) \in Seq(Heardable)
      /\ Len(UpFrom(n, m)) = m /\ \A i \in 1..m : UpFrom(n, m)[i] = n + i
      /\ UpFrom(0, n + m) = UpFrom(0, n) \o UpFrom(n, m)
  BY UpFromZero
<1>2. Without(S, UpFrom(n, m)) = UpFrom(n, m)
  <2>1. \A i \in 1..Len(UpFrom(n, m)) : UpFrom(n, m)[i] \notin S
    BY <1>1
  <2>2. QED
    BY <1>1, <2>1, WithoutNone
<1>3. QED
  <2>1. Without(S, UpFrom(0, n + m)) = Without(S, UpFrom(0, n)) \o Without(S, UpFrom(n, m))
    BY UpFromZero
  <2>2. QED
    BY <1>2, <2>1, Zenon DEF Kept

(* and new samples that do not are not kept.                               *)
LEMMA KeptSkips ==
    ASSUME NEW n \in Nat, NEW m \in Nat, NEW S \in SUBSET (1..n)
    PROVE  /\ Kept(n + m, S \cup ToSet(UpFrom(n, m))) = Kept(n, S)
           /\ ToSet(UpFrom(n, m)) \subseteq n + 1..n + m
<1> DEFINE T == ToSet(UpFrom(n, m))
<1>1. /\ UpFrom(0, n) \in Seq(Heardable) /\ UpFrom(n, m) \in Seq(Heardable)
      /\ Len(UpFrom(n, m)) = m /\ \A i \in 1..m : UpFrom(n, m)[i] = n + i
      /\ UpFrom(0, n + m) = UpFrom(0, n) \o UpFrom(n, m)
  BY UpFromZero
<1>2. (\A i \in T : i \in n + 1..n + m) /\ \A i \in 1..m : n + i \in T
  <2>1. DOMAIN UpFrom(n, m) = 1..m
    BY <1>1, LenProperties
  <2>2. ASSUME NEW t \in T PROVE t \in n + 1..n + m
    <3>1. PICK i \in 1..m : t = UpFrom(n, m)[i]
      BY <2>1 DEF ToSet
    <3>2. QED
      BY <1>1, <3>1
  <2>3. ASSUME NEW i \in 1..m PROVE n + i \in T
    <3>1. UpFrom(n, m)[i] \in T
      BY <2>1 DEF ToSet
    <3>2. QED
      BY <1>1, <3>1
  <2>4. QED
    BY <2>2, <2>3
<1> HIDE DEF T
<1>3. Without(S \cup T, UpFrom(n, m)) = <<>>
  <2>1. \A i \in 1..Len(UpFrom(n, m)) : UpFrom(n, m)[i] \in S \cup T
    BY <1>1, <1>2
  <2>2. QED
    BY <1>1, <2>1, WithoutAll
<1>4. Without(T, Kept(n, S)) = Kept(n, S)
  <2>1. Kept(n, S) \in Seq(Nat) /\ UpTo(Kept(n, S), n)
    BY KeptInOrder
  <2>2. \A i \in 1..Len(Kept(n, S)) : Kept(n, S)[i] \in Nat /\ Kept(n, S)[i] <= n
    BY <2>1, ElementOfSeq DEF UpTo
  <2>3. \A i \in 1..Len(Kept(n, S)) : Kept(n, S)[i] \notin T
    BY <1>2, <2>2
  <2>4. QED
    BY <2>1, <2>3, WithoutNone
<1>5. Without(S \cup T, UpFrom(0, n)) = Kept(n, S)
  BY <1>1, <1>4, WithoutTwice DEF Kept
<1>6. Kept(n, S) \o <<>> = Kept(n, S)
  BY KeptInOrder, ConcatEmptySeq
<1>7. Kept(n + m, S \cup T) = Without(S \cup T, UpFrom(0, n)) \o Without(S \cup T, UpFrom(n, m))
  BY UpFromZero DEF Kept
<1>8. QED
  BY <1>2, <1>3, <1>5, <1>6, <1>7 DEF T

(* What is given up in the middle of the flow is missing from it, and      *)
(* nothing else is: no sample is in the flow twice.                        *)
LEMMA GiveUp ==
    ASSUME NEW x \in Seq(Nat), NEW y \in Seq(Heardable), NEW w \in Seq(Nat),
           NEW n \in Nat, NEW S,
           Carries(x \o (y \o w), n, S)
    PROVE  Carries(x \o w, n, S \cup ToSet(y)) /\ ToSet(y) \subseteq 1..n
<1> DEFINE a == Without({Silence}, x)
           b == Without({Silence}, w)
           T == ToSet(y)
<1>0. y \in Seq(Nat)
  <2>1. Heardable \subseteq Nat
    BY DEF Heardable
  <2>2. QED
    BY <2>1, SeqMonotonic
<1>1. a \in Seq(Nat) /\ b \in Seq(Nat)
  BY WithoutType
<1>2. Without({Silence}, y) = y
  <2>1. \A i \in 1..Len(y) : y[i] \in Heardable
    BY ElementOfSeq
  <2>2. \A i \in 1..Len(y) : y[i] \notin {Silence}
    BY <2>1 DEF Heardable, Silence
  <2>3. QED
    BY <2>2, WithoutNone
<1>3. Without({Silence}, x \o w) = a \o b
  <2>1. Splits({Silence}, x, w)
    BY AllSplit
  <2>2. QED
    BY <2>1, Zenon DEF Splits
<1>4. a \o (y \o b) = Kept(n, S)
  <2>1. y \o w \in Seq(Nat)
    BY <1>0, ConcatProperties
  <2>2. Without({Silence}, x \o (y \o w)) = a \o Without({Silence}, y \o w)
    <3>1. Splits({Silence}, x, y \o w)
      BY <2>1, AllSplit
    <3>2. QED
      BY <3>1, Zenon DEF Splits
  <2>3. Without({Silence}, y \o w) = y \o b
    <3>1. Splits({Silence}, y, w)
      BY <1>0, AllSplit
    <3>2. QED
      BY <1>2, <3>1, Zenon DEF Splits
  <2>4. QED
    BY <2>2, <2>3 DEF Carries
<1> HIDE DEF a, b
<1>5. \A i \in 1..Len(y) : y[i] \in T
  BY LenProperties DEF ToSet
<1>6. ASSUME NEW t \in T PROVE \E i \in 1..Len(y) : y[i] = t
  BY LenProperties DEF ToSet
<1> HIDE DEF T
<1>7. y \o b \in Seq(Nat)
  BY <1>0, <1>1, ConcatProperties
<1> DEFINE k == a \o (y \o b)
<1>8. /\ Len(a) \in Nat /\ Len(y) \in Nat /\ Len(b) \in Nat
      /\ Len(k) = Len(a) + Len(y) + Len(b)
      /\ \A i \in 1..Len(a) : k[i] = a[i]
      /\ \A i \in 1..Len(y) : k[Len(a) + i] = y[i]
      /\ \A i \in 1..Len(b) : k[Len(a) + Len(y) + i] = b[i]
  <2>1. /\ Len(y) \in Nat /\ Len(b) \in Nat /\ Len(y \o b) = Len(y) + Len(b)
        /\ \A i \in 1..Len(y) : (y \o b)[i] = y[i]
        /\ \A i \in 1..Len(b) : (y \o b)[Len(y) + i] = b[i]
    BY <1>0, <1>1, ConcatElements
  <2> DEFINE v == y \o b
  <2>2. v \in Seq(Nat)
    BY <1>7
  <2> HIDE DEF v
  <2>3. /\ Len(a) \in Nat /\ Len(a \o v) = Len(a) + Len(v)
        /\ \A i \in 1..Len(a) : (a \o v)[i] = a[i]
        /\ \A i \in 1..Len(v) : (a \o v)[Len(a) + i] = v[i]
    BY <1>1, <2>2, ConcatElements
  <2>4. \A i \in 1..Len(b) : Len(y) + i \in 1..Len(y) + Len(b)
                             /\ Len(a) + (Len(y) + i) = Len(a) + Len(y) + i
    BY <2>1, <2>3
  <2>5. \A i \in 1..Len(y) : i \in 1..Len(y) + Len(b)
    BY <2>1
  <2>6. k = a \o v
    BY DEF v
  <2>7. /\ Len(v) = Len(y) + Len(b)
        /\ \A i \in 1..Len(y) : v[i] = y[i]
        /\ \A i \in 1..Len(b) : v[Len(y) + i] = b[i]
    BY <2>1 DEF v
  <2> HIDE DEF k
  <2>8. Len(k) = Len(a) + Len(y) + Len(b)
    BY <2>1, <2>3, <2>6, <2>7
  <2>9. ASSUME NEW i \in 1..Len(b) PROVE k[Len(a) + Len(y) + i] = b[i]
    <3>1. k[Len(a) + (Len(y) + i)] = v[Len(y) + i]
      BY <2>3, <2>4, <2>6, <2>7
    <3>2. QED
      BY <2>4, <2>7, <3>1
  <2>10. QED
    BY <2>1, <2>3, <2>5, <2>6, <2>7, <2>8, <2>9
<1>9. \A i, j \in 1..Len(k) : i < j => k[i] < k[j]
  <2>1. UpTo(Kept(n, S), n)
    BY KeptInOrder
  <2>2. QED
    BY <1>4, <2>1 DEF UpTo, Ordered
<1> HIDE DEF k
<1>10. \A i \in 1..Len(y) : y[i] \in Nat
  BY <1>0, ElementOfSeq
<1>11. Without(T, a) = a
  <2> SUFFICES ASSUME NEW i \in 1..Len(a), a[i] \in T PROVE FALSE
    BY <1>1, WithoutNone
  <2>1. PICK j \in 1..Len(y) : y[j] = a[i]
    BY <1>6
  <2>2. i \in 1..Len(k) /\ Len(a) + j \in 1..Len(k) /\ i < Len(a) + j
    BY <1>8
  <2>3. k[i] = a[i] /\ k[Len(a) + j] = y[j]
    BY <1>8
  <2>4. QED
    BY <1>9, <1>10, <2>1, <2>2, <2>3
<1>12. Without(T, b) = b
  <2> SUFFICES ASSUME NEW i \in 1..Len(b), b[i] \in T PROVE FALSE
    BY <1>1, WithoutNone
  <2>1. PICK j \in 1..Len(y) : y[j] = b[i]
    BY <1>6
  <2>2. /\ Len(a) + j \in 1..Len(k) /\ Len(a) + Len(y) + i \in 1..Len(k)
        /\ Len(a) + j < Len(a) + Len(y) + i
    BY <1>8, SMTT(30)
  <2>3. k[Len(a) + Len(y) + i] = b[i] /\ k[Len(a) + j] = y[j]
    BY <1>8
  <2>4. QED
    BY <1>9, <1>10, <2>1, <2>2, <2>3, SMTT(30)
<1>13. Without(T, y) = <<>>
  BY <1>0, <1>5, WithoutAll
<1>14. Without(T, a \o (y \o b)) = a \o b
  <2>1. Without(T, y \o b) = b
    <3>1. Without(T, y \o b) = <<>> \o b
      <4>1. Splits(T, y, b)
        BY <1>0, <1>1, AllSplit
      <4>2. QED
        BY <1>12, <1>13, <4>1, Zenon DEF Splits
    <3>2. QED
      BY <1>1, <3>1, ConcatEmptySeq
  <2>2. QED
    <3>1. Splits(T, a, y \o b)
      BY <1>1, <1>7, AllSplit
    <3>2. QED
      BY <1>11, <2>1, <3>1, Zenon DEF Splits
<1>15. Kept(n, S \cup T) = Without(T, Kept(n, S))
  <2>1. UpFrom(0, n) \in Seq(Heardable)
    BY UpFromGrows
  <2>2. QED
    BY <2>1, WithoutTwice DEF Kept
<1>16. Carries(x \o w, n, S \cup T)
  BY <1>3, <1>4, <1>14, <1>15 DEF Carries
<1>17. T \subseteq 1..n
  <2> SUFFICES ASSUME NEW t \in T PROVE t \in 1..n
    OBVIOUS
  <2>1. PICK i \in 1..Len(y) : y[i] = t
    BY <1>6
  <2>2. t \in Heardable
    BY <2>1, ElementOfSeq
  <2>3. Len(a) + i \in 1..Len(k) /\ k[Len(a) + i] = t
    BY <1>8, <2>1
  <2>4. \A j \in 1..Len(k) : k[j] <= n
    BY <1>4, KeptInOrder DEF UpTo, k
  <2>5. QED
    BY <2>2, <2>3, <2>4, SMTT(30) DEF Heardable
<1>18. QED
  BY <1>16, <1>17 DEF T

(* Packets that come and go are samples that come and go.                  *)
LEMMA SamplesComeAndGo ==
    ASSUME NEW q \in Seq(Seq(Seq(Heardable)))
    PROVE  /\ SamplesOf(q) \in Seq(Seq(Heardable)) /\ FlattenSeq(SamplesOf(q)) \in Seq(Heardable)
           /\ \A p \in Seq(Seq(Heardable)) :
                FlattenSeq(SamplesOf(Append(q, p))) = FlattenSeq(SamplesOf(q)) \o FlattenSeq(p)
           /\ q # <<>> => FlattenSeq(SamplesOf(q))
                            = FlattenSeq(Head(q)) \o FlattenSeq(SamplesOf(Tail(q)))
<1> DEFINE Packet == Seq(Seq(Heardable))
<1>1. ASSUME NEW u \in Seq(Packet)
      PROVE  /\ SamplesOf(u) \in Seq(Seq(Heardable)) /\ Len(SamplesOf(u)) = Len(u)
             /\ \A i \in 1..Len(u) : SamplesOf(u)[i] = FlattenSeq(u[i])
  <2>1. Len(u) \in Nat /\ \A i \in 1..Len(u) : u[i] \in Packet
    BY LenProperties, ElementOfSeq
  <2>2. \A i \in 1..Len(u) : FlattenSeq(u[i]) \in Seq(Heardable)
    BY <2>1, FlattenType
  <2>3. QED
    BY <2>1, <2>2 DEF SamplesOf
<1>2. SamplesOf(q) \in Seq(Seq(Heardable)) /\ FlattenSeq(SamplesOf(q)) \in Seq(Heardable)
  BY <1>1, FlattenType
<1>3. ASSUME NEW p \in Packet
      PROVE  FlattenSeq(SamplesOf(Append(q, p))) = FlattenSeq(SamplesOf(q)) \o FlattenSeq(p)
  <2> DEFINE t == Append(q, p)
             x == FlattenSeq(p)
             s == SamplesOf(q)
  <2>1. /\ t \in Seq(Packet) /\ Len(t) = Len(q) + 1 /\ Len(q) \in Nat
        /\ \A i \in 1..Len(q) : t[i] = q[i]
        /\ t[Len(q) + 1] = p
    BY AppendProperties, LenProperties
  <2>2. x \in Seq(Heardable)
    BY FlattenType
  <2> HIDE DEF t
  <2>3. /\ SamplesOf(t) \in Seq(Seq(Heardable)) /\ Len(SamplesOf(t)) = Len(q) + 1
        /\ \A i \in 1..Len(q) + 1 : SamplesOf(t)[i] = FlattenSeq(t[i])
    BY <1>1, <2>1
  <2>4. /\ s \in Seq(Seq(Heardable)) /\ Len(s) = Len(q)
        /\ \A i \in 1..Len(q) : s[i] = FlattenSeq(q[i])
    BY <1>1
  <2> HIDE DEF x, s
  <2>5. /\ Append(s, x) \in Seq(Seq(Heardable)) /\ Len(Append(s, x)) = Len(q) + 1
        /\ \A i \in 1..Len(q) : Append(s, x)[i] = s[i]
        /\ Append(s, x)[Len(q) + 1] = x
    <3>1. /\ Append(s, x) \in Seq(Seq(Heardable)) /\ Len(Append(s, x)) = Len(s) + 1
          /\ \A i \in 1..Len(s) : Append(s, x)[i] = s[i]
          /\ Append(s, x)[Len(s) + 1] = x
      BY <2>2, <2>4, AppendProperties
    <3>2. QED
      BY <2>4, <3>1
  <2>6. \A i \in 1..Len(q) + 1 : SamplesOf(t)[i] = Append(s, x)[i]
    <3>1. ASSUME NEW i \in 1..Len(q) PROVE SamplesOf(t)[i] = Append(s, x)[i]
      <4>1. i \in 1..Len(q) + 1
        BY <2>1
      <4>2. QED
        BY <2>1, <2>3, <2>4, <2>5, <4>1
    <3>2. SamplesOf(t)[Len(q) + 1] = x
      <4>1. Len(q) + 1 \in 1..Len(q) + 1
        BY <2>1
      <4>2. QED
        BY <2>1, <2>3, <4>1 DEF x
    <3>3. \A i \in 1..Len(q) + 1 : i \in 1..Len(q) \/ i = Len(q) + 1
      BY <2>1
    <3>4. QED
      BY <2>5, <3>1, <3>2, <3>3
  <2>7. SamplesOf(t) = Append(s, x)
    BY <2>3, <2>5, <2>6, SeqEqual
  <2>8. FlattenSeq(Append(s, x)) = FlattenSeq(s) \o x
    BY <2>2, <2>4, FlattenAppend
  <2>9. QED
    BY <2>7, <2>8 DEF s, x, t
<1>4. ASSUME q # <<>>
      PROVE  FlattenSeq(SamplesOf(q)) = FlattenSeq(Head(q)) \o FlattenSeq(SamplesOf(Tail(q)))
  <2> DEFINE s == SamplesOf(q)
             t == Tail(q)
  <2>1. /\ t \in Seq(Packet) /\ Len(t) = Len(q) - 1 /\ Len(q) \in Nat /\ Len(q) > 0
        /\ \A i \in 1..Len(t) : t[i] = q[i + 1]
        /\ Head(q) = q[1]
    BY <1>4, HeadTailProperties, LenProperties, EmptySeq
  <2> HIDE DEF t
  <2>2. /\ SamplesOf(t) \in Seq(Seq(Heardable)) /\ Len(SamplesOf(t)) = Len(t)
        /\ \A i \in 1..Len(t) : SamplesOf(t)[i] = FlattenSeq(t[i])
    BY <1>1, <2>1
  <2>3. /\ s \in Seq(Seq(Heardable)) /\ Len(s) = Len(q)
        /\ \A i \in 1..Len(q) : s[i] = FlattenSeq(q[i])
    BY <1>1
  <2> HIDE DEF s
  <2>4. s # <<>> /\ Head(s) = s[1]
    <3>1. s # <<>>
      BY <2>1, <2>3, EmptySeq
    <3>2. QED
      BY <2>3, <3>1, HeadTailProperties
  <2>5. /\ Tail(s) \in Seq(Seq(Heardable)) /\ Len(Tail(s)) = Len(q) - 1
        /\ \A i \in 1..Len(q) - 1 : Tail(s)[i] = s[i + 1]
    BY <2>3, <2>4, HeadTailProperties
  <2>6. Tail(s) = SamplesOf(t)
    <3>1. \A i \in 1..Len(q) - 1 : i + 1 \in 1..Len(q) /\ i \in 1..Len(t)
      BY <2>1
    <3>2. \A i \in 1..Len(q) - 1 : Tail(s)[i] = SamplesOf(t)[i]
      BY <2>1, <2>2, <2>3, <2>5, <3>1, ZenonT(30)
    <3>3. Len(Tail(s)) = Len(SamplesOf(t))
      BY <2>1, <2>2, <2>5
    <3>4. QED
      BY <2>2, <2>5, <3>2, <3>3, SeqEqual
  <2>7. Head(s) = FlattenSeq(Head(q))
    <3>1. 1 \in 1..Len(q)
      BY <2>1
    <3>2. QED
      BY <2>1, <2>3, <2>4, <3>1
  <2>8. FlattenSeq(s) = Head(s) \o FlattenSeq(Tail(s))
    BY <2>3, <2>4, FlattenHead
  <2>9. QED
    BY <2>6, <2>7, <2>8 DEF s, t
<1>5. QED
  BY <1>2, <1>3, <1>4

(* The parts of the flow are sequences of numbers.                         *)
LEMMA FlowParts ==
    ASSUME SoundInv
    PROVE  /\ FlattenSeq(frames) \in Seq(Heardable) /\ FlattenSeq(SamplesOf(queue)) \in Seq(Heardable)
           /\ FlattenSeq(frames) \in Seq(Nat) /\ FlattenSeq(SamplesOf(queue)) \in Seq(Nat)
           /\ stream \in Seq(Nat) /\ Remaining \in Seq(Nat) /\ Pending \in Seq(Nat)
           /\ Pending = FlattenSeq(frames) \o FlattenSeq(SamplesOf(queue))
           /\ Flow \in Seq(Nat) /\ absize \in Nat /\ audiobuf \in Seq(Nat)
<1>1. FlattenSeq(frames) \in Seq(Heardable) /\ FlattenSeq(SamplesOf(queue)) \in Seq(Heardable)
  BY FlattenType, SamplesComeAndGo DEF SoundInv, SoundTypeOK
<1>2. FlattenSeq(frames) \in Seq(Nat) /\ FlattenSeq(SamplesOf(queue)) \in Seq(Nat)
  <2>1. Heardable \subseteq Nat
    BY DEF Heardable
  <2>2. QED
    BY <1>1, <2>1, SeqMonotonic
<1>3. stream \in Seq(Nat) /\ audiobuf \in Seq(Nat) /\ absize \in Nat /\ abpos \in Nat
  BY LenProperties DEF SoundInv, SoundTypeOK, absize
<1>4. Remaining \in Seq(Nat)
  <2>1. abpos <= absize
    BY DEF SoundInv, BufferOK
  <2>2. abpos \in 0..absize
    BY <1>3, <2>1
  <2>3. QED
    BY <1>3, <2>2, SplitSeq DEF Remaining, absize
<1>5. Pending = FlattenSeq(frames) \o FlattenSeq(SamplesOf(queue))
  BY DEF Pending, SamplesOf
<1>6. Pending \in Seq(Nat)
  BY <1>2, <1>5, ConcatProperties
<1>7. Flow \in Seq(Nat)
  <2>1. Remaining \o Pending \in Seq(Nat)
    BY <1>4, <1>6, ConcatProperties
  <2>2. QED
    BY <1>3, <2>1, ConcatProperties DEF Flow
<1>8. QED
  BY <1>1, <1>2, <1>3, <1>4, <1>5, <1>6, <1>7

(* There is no sound to begin with.                                        *)
LEMMA SoundInvInit == SoundInit => SoundInv
<1> SUFFICES ASSUME SoundInit PROVE SoundInv
  OBVIOUS
<1>1. SoundTypeOK
  BY EmptySeq DEF SoundInit, SoundTypeOK
<1>2. BufferOK
  BY EmptySeq, SoundAssumption DEF SoundInit, BufferOK, absize
<1>3. Flow = <<>>
  <2>1. SamplesOf(<<>>) = <<>>
    BY DEF SamplesOf
  <2>2. Pending = <<>> \o <<>> /\ Remaining = <<>>
    BY <2>1, FlattenEmpty DEF SoundInit, Pending, Remaining, SamplesOf, absize
  <2>3. QED
    BY <2>2 DEF SoundInit, Flow
<1>4. FlowWhole
  <2>1. UpFrom(0, 0) = <<>>
    BY DEF UpFrom
  <2>2. QED
    BY <1>3, <2>1, WithoutEmpty DEF FlowWhole, Carries, Kept, SoundInit
<1>5. QED
  BY <1>1, <1>2, <1>4 DEF SoundInv

(* What is received is in the flow behind the rest, or given up.           *)
LEMMA PlayAudioKeeps == ASSUME SoundInv, play_audio PROVE SoundInv'
<1>1. PICK sizes \in PacketSizes :
        LET packet_ == FramesAfter(samples_in, sizes) IN
         /\ samples_in' = samples_in + Total(sizes)
         /\ \/ queue' = Append(queue, packet_) /\ UNCHANGED skipped
            \/ /\ skipped' = skipped \cup ToSet(FlattenSeq(packet_))
               /\ UNCHANGED queue
  BY DEF play_audio
<1> DEFINE p == FramesAfter(samples_in, sizes)
           n == samples_in
           m == Total(sizes)
           new == UpFrom(n, m)
<1>2. /\ samples_in' = n + m
      /\ \/ queue' = Append(queue, p) /\ skipped' = skipped
         \/ skipped' = skipped \cup ToSet(FlattenSeq(p)) /\ queue' = queue
      /\ packets' = packets + 1
      /\ UNCHANGED <<fpc, pktsize, frames, audiobuf, abpos, stream>>
  BY <1>1 DEF play_audio
<1>3. sizes \in Seq(Nat) /\ sizes # <<>> /\ n \in Nat /\ m \in Nat
  <2>1. sizes \in Seq(Nat) /\ sizes # <<>>
    BY SoundAssumption
  <2>2. QED
    BY <2>1, SoundAssumption, TotalType DEF SoundInv, SoundTypeOK
<1>4. p \in Seq(Seq(Heardable)) /\ FlattenSeq(p) = new
  BY <1>3, FramesCarry
<1>5. /\ new \in Seq(Heardable) /\ new \in Seq(Nat) /\ Len(new) = m
      /\ \A i \in 1..m : new[i] = n + i
  <2>1. Heardable \subseteq Nat
    BY DEF Heardable
  <2>2. QED
    BY <1>3, <2>1, UpFromZero, SeqMonotonic
<1>6. SoundTypeOK /\ BufferOK /\ FlowWhole
  BY DEF SoundInv
<1> HIDE DEF p, m
<1>7. \A i \in ToSet(new) : i \in n + 1..n + m
  BY <1>3, KeptSkips
<1> HIDE DEF new
<1>8. skipped' \subseteq 1..samples_in' /\ skipped \in SUBSET (1..n)
  <2>1. skipped \subseteq 1..n
    BY <1>6 DEF SoundTypeOK
  <2>2. skipped' \subseteq skipped \cup ToSet(new)
    BY <1>2, <1>4
  <2>3. 1..n \subseteq 1..n + m /\ n + 1..n + m \subseteq 1..n + m
    BY <1>3
  <2>4. QED
    BY <1>2, <1>7, <2>1, <2>2, <2>3
<1>9. SoundTypeOK' /\ BufferOK'
  <2>1. queue' \in Seq(Seq(Seq(Heardable)))
    <3>1. queue \in Seq(Seq(Seq(Heardable)))
      BY <1>6 DEF SoundTypeOK
    <3>2. Append(queue, p) \in Seq(Seq(Seq(Heardable)))
      BY <1>4, <3>1, AppendProperties
    <3>3. QED
      BY <1>2, <3>1, <3>2
  <2>2. samples_in' \in Nat
    BY <1>2, <1>3
  <2>3. SoundTypeOK'
    BY <1>2, <1>6, <1>8, <2>1, <2>2 DEF SoundTypeOK
  <2>4. BufferOK'
    BY <1>2, <1>6 DEF BufferOK, absize
  <2>5. QED
    BY <2>3, <2>4
<1> DEFINE f == FlattenSeq(frames)
           q == FlattenSeq(SamplesOf(queue))
           r == Remaining
<1>10. /\ f \in Seq(Nat) /\ q \in Seq(Nat) /\ r \in Seq(Nat) /\ stream \in Seq(Nat)
       /\ f \o q \in Seq(Nat) /\ r \o (f \o q) \in Seq(Nat)
       /\ Flow = stream \o (r \o (f \o q)) /\ Flow \in Seq(Nat)
  BY FlowParts, ConcatProperties DEF Flow
<1>11. Remaining' = r
  BY <1>2 DEF Remaining, absize
<1>12. Without({Silence}, Flow) = Kept(n, skipped)
  BY <1>6 DEF FlowWhole, Carries
<1>13. CASE queue' = Append(queue, p) /\ skipped' = skipped
  <2>1. Pending' = f \o (q \o new)
    <3>1. FlattenSeq(SamplesOf(Append(queue, p))) = q \o FlattenSeq(p)
      BY <1>4, <1>6, SamplesComeAndGo DEF SoundTypeOK
    <3>2. Pending' = FlattenSeq(frames)' \o FlattenSeq(SamplesOf(queue))'
      BY DEF Pending, SamplesOf
    <3>3. QED
      BY <1>2, <1>4, <1>13, <3>1, <3>2
  <2>2. Flow' = stream \o (r \o (f \o (q \o new)))
    BY <1>2, <1>11, <2>1 DEF Flow
  <2> HIDE DEF f, q, r
  <2>3. Flow' = Flow \o new
    <3>1. Joined(f, q, new) /\ Joined(r, f \o q, new) /\ Joined(stream, r \o (f \o q), new)
      BY <1>5, <1>10, AllJoined
    <3>2. QED
      BY <1>10, <2>2, <3>1, Zenon DEF Joined
  <2>4. Without({Silence}, new) = new
    <3>1. \A i \in 1..Len(new) : new[i] \notin {Silence}
      BY <1>3, <1>5 DEF Silence
    <3>2. QED
      BY <1>5, <3>1, WithoutNone
  <2>5. Without({Silence}, Flow \o new) = Kept(n, skipped) \o new
    <3>1. Splits({Silence}, Flow, new)
      BY <1>5, <1>10, AllSplit
    <3>2. QED
      BY <1>12, <2>4, <3>1, Zenon DEF Splits
  <2>6. Kept(n + m, skipped) = Kept(n, skipped) \o new
    BY <1>3, <1>8, KeptGrows DEF new
  <2>7. FlowWhole'
    <3>1. FlowWhole' <=> Carries(Flow', samples_in', skipped')
      BY DEF FlowWhole, Carries, Silence, Kept, UpFrom
    <3>2. QED
      BY <1>2, <1>13, <2>3, <2>5, <2>6, <3>1 DEF Carries
  <2>8. QED
    BY <1>9, <2>7 DEF SoundInv
<1>14. CASE skipped' = skipped \cup ToSet(new) /\ queue' = queue
  <2>1. Flow' = Flow
    BY <1>2, <1>11, <1>14 DEF Flow, Pending
  <2>2. Kept(n + m, skipped \cup ToSet(new)) = Kept(n, skipped)
    BY <1>3, <1>8, KeptSkips DEF new
  <2>3. FlowWhole'
    <3>1. FlowWhole' <=> Carries(Flow', samples_in', skipped')
      BY DEF FlowWhole, Carries, Silence, Kept, UpFrom
    <3>2. QED
      BY <1>2, <1>12, <1>14, <2>1, <2>2, <3>1 DEF Carries
  <2>4. QED
    BY <1>9, <2>3 DEF SoundInv
<1>15. QED
  BY <1>2, <1>4, <1>13, <1>14

(* The flow stays whole where no sample is received, given up or moved.    *)
LEMMA FlowSame ==
    ASSUME FlowWhole, UNCHANGED <<samples_in, skipped>>, Flow' = Flow
    PROVE  FlowWhole'
<1>1. FlowWhole' <=> Carries(Flow', samples_in', skipped')
  BY DEF FlowWhole, Carries, Silence, Kept, UpFrom
<1>2. QED
  BY <1>1 DEF FlowWhole

(* What SDL is given was next in the buffer.                               *)
LEMMA HasEnoughKeeps == ASSUME SoundInv, buffer_has_enough PROVE SoundInv'
<1>1. SoundTypeOK /\ BufferOK /\ FlowWhole
  BY DEF SoundInv
<1>2. /\ absize \in Nat /\ abpos \in Nat /\ Asked \in Nat /\ abpos + Asked <= absize
      /\ abpos' = abpos + Asked /\ fpc' = "idle" /\ fpc = "again"
      /\ stream' = stream \o SubSeq(audiobuf, abpos + 1, abpos + Asked)
      /\ UNCHANGED <<packets, samples_in, queue, pktsize, frames, audiobuf, skipped>>
  <2>1. absize \in Nat /\ abpos \in Nat /\ Asked \in Nat
    BY <1>1, FlowParts, SoundAssumption DEF SoundTypeOK
  <2>2. absize - abpos >= Asked
    BY DEF buffer_has_enough
  <2>3. abpos + Asked <= absize
    BY <2>1, <2>2
  <2>4. QED
    BY <2>1, <2>3 DEF buffer_has_enough
<1> DEFINE a == SubSeq(audiobuf, abpos + 1, abpos + Asked)
           b == SubSeq(audiobuf, abpos + Asked + 1, absize)
<1>3. a \in Seq(Nat) /\ b \in Seq(Nat) /\ Remaining = a \o b
  <2>1. audiobuf \in Seq(Nat) /\ Len(audiobuf) = absize
    BY <1>1 DEF SoundTypeOK, absize
  <2>2. a \in Seq(Nat) /\ b \in Seq(Nat)
    <3>1. ASSUME NEW m \in Nat, NEW n \in Nat, m >= 1, n <= absize
          PROVE  SubSeq(audiobuf, m, n) \in Seq(Nat)
      <4>1. \A i \in m..n : audiobuf[i] \in Nat
        BY <1>2, <2>1, <3>1
      <4>2. m \in Int /\ n \in Int
        BY <3>1
      <4>3. QED
        BY <4>1, <4>2, SubSeqProperties, Zenon
    <3>2. abpos + 1 >= 1 /\ abpos + Asked + 1 >= 1 /\ abpos + 1 \in Nat
          /\ abpos + Asked \in Nat /\ abpos + Asked + 1 \in Nat /\ absize <= absize
      BY <1>2
    <3>3. QED
      BY <1>2, <3>1, <3>2, Zenon
  <2>3. abpos + 1 \in 1..Len(audiobuf) + 1 /\ abpos + Asked \in (abpos + 1) - 1..Len(audiobuf)
        /\ absize \in abpos + Asked..Len(audiobuf)
    BY <1>2, <2>1
  <2>4. SubSeq(audiobuf, abpos + 1, abpos + Asked) \o SubSeq(audiobuf, abpos + Asked + 1, absize)
          = SubSeq(audiobuf, abpos + 1, absize)
    BY <2>1, <2>3, ConcatAdjacentSubSeq, Zenon
  <2>5. QED
    BY <2>2, <2>4 DEF Remaining
<1>4. Remaining' = b /\ stream' = stream \o a
  BY <1>2 DEF Remaining, absize
<1> HIDE DEF a, b
<1>5. Flow' = Flow
  <2>1. Pending' = Pending
    BY <1>2 DEF Pending
  <2>2. Flow' = (stream \o a) \o (b \o Pending)
    BY <1>4, <2>1 DEF Flow
  <2>3. Flow = stream \o ((a \o b) \o Pending)
    BY <1>3 DEF Flow
  <2>4. Pending \in Seq(Nat) /\ stream \in Seq(Nat) /\ b \o Pending \in Seq(Nat)
    BY <1>3, FlowParts, ConcatProperties
  <2>5. Joined(stream, a, b \o Pending) /\ Joined(a, b, Pending)
    BY <1>3, <2>4, AllJoined
  <2>6. QED
    BY <2>2, <2>3, <2>5, Zenon DEF Joined
<1>6. FlowWhole'
  BY <1>1, <1>2, <1>5, FlowSame
<1>7. SoundTypeOK'
  <2>1. stream' \in Seq(Nat)
    BY <1>1, <1>3, <1>4, ConcatProperties DEF SoundTypeOK
  <2>2. QED
    BY <1>1, <1>2, <2>1 DEF SoundTypeOK
<1>8. BufferOK'
  <2>1. absize' = absize
    BY <1>2 DEF absize
  <2>2. QED
    BY <1>1, <1>2, <2>1 DEF BufferOK
<1>9. QED
  BY <1>6, <1>7, <1>8 DEF SoundInv

(* What is left is moved to the front.                                     *)
LEMMA NotEnoughKeeps == ASSUME SoundInv, buffer_not_enough PROVE SoundInv'
<1>1. SoundTypeOK /\ BufferOK /\ FlowWhole
  BY DEF SoundInv
<1>2. /\ absize \in Nat /\ abpos \in Nat /\ Asked \in Nat /\ absize - abpos < Asked
      /\ abpos <= absize /\ absize <= BufferMax /\ BufferMax \in Nat
      /\ audiobuf' = Remaining /\ abpos' = 0 /\ fpc' = "get" /\ fpc = "again"
      /\ UNCHANGED <<packets, samples_in, queue, pktsize, frames, stream, skipped>>
  BY <1>1, FlowParts, SoundAssumption DEF SoundTypeOK, BufferOK, buffer_not_enough, Remaining
<1>3. Remaining \in Seq(Nat) /\ Len(Remaining) = absize - abpos
  <2>1. audiobuf \in Seq(Nat) /\ Len(audiobuf) = absize
    BY <1>1 DEF SoundTypeOK, absize
  <2>2. QED
    BY <1>2, <2>1 DEF Remaining
<1>4. absize' = absize - abpos
  BY <1>2, <1>3 DEF absize
<1>5. Remaining' = Remaining
  <2>1. Remaining' = SubSeq(Remaining, 1, Len(Remaining))
    BY <1>2, <1>3, <1>4 DEF Remaining
  <2>2. QED
    BY <1>3, <2>1, SubSeqFull
<1>6. FlowWhole'
  <2>1. Flow' = Flow
    BY <1>2, <1>5 DEF Flow, Pending
  <2>2. QED
    BY <1>1, <1>2, <2>1, FlowSame
<1>7. SoundTypeOK'
  BY <1>1, <1>2, <1>3 DEF SoundTypeOK
<1>8. BufferOK'
  <2>1. abpos' <= absize' /\ absize' <= BufferMax /\ absize' < Asked /\ abpos' = 0
    BY <1>2, <1>4
  <2>2. QED
    BY <1>1, <1>2, <2>1 DEF BufferOK
<1>9. QED
  BY <1>6, <1>7, <1>8 DEF SoundInv

(* The packet taken is the first one.                                      *)
LEMMA GetKeeps == ASSUME SoundInv, sound_packet_get PROVE SoundInv'
<1>1. SoundTypeOK /\ BufferOK /\ FlowWhole
  BY DEF SoundInv
<1>2. /\ fpc = "get" /\ queue # <<>> /\ frames' = Head(queue) /\ queue' = Tail(queue)
      /\ fpc' = "decode" /\ frames = <<>> /\ abpos = 0 /\ absize < Asked
      /\ pktsize' = Len(FlattenSeq(frames')) /\ absize <= BufferMax
      /\ UNCHANGED <<packets, samples_in, audiobuf, abpos, stream, skipped>>
  BY <1>1 DEF sound_packet_get, BufferOK
<1>3. /\ queue \in Seq(Seq(Seq(Heardable))) /\ frames' \in Seq(Seq(Heardable))
      /\ queue' \in Seq(Seq(Seq(Heardable))) /\ Len(queue') = Len(queue) - 1
      /\ Len(queue) \in Nat /\ Len(queue) > 0 /\ frames' = queue[1]
      /\ \A i \in 1..Len(queue') : queue'[i] = queue[i + 1]
  BY <1>1, <1>2, HeadTailProperties, LenProperties, EmptySeq DEF SoundTypeOK
<1>4. SoundTypeOK'
  <2>1. pktsize' \in Nat
    BY <1>2, <1>3, FlattenType, LenProperties
  <2>2. QED
    BY <1>1, <1>2, <1>3, <2>1 DEF SoundTypeOK
<1>5. BufferOK'
  <2>1. absize' = absize /\ absize \in Nat /\ Asked \in Nat
    BY <1>2, FlowParts, SoundAssumption DEF absize
  <2>2. pktsize' \in Nat
    BY <1>4 DEF SoundTypeOK
  <2>3. absize' + Len(FlattenSeq(frames')) <= Asked + pktsize'
    BY <1>2, <2>1, <2>2
  <2>4. absize' <= BufferMax /\ abpos' = 0 /\ 0 <= absize'
    BY <1>2, <2>1
  <2>5. QED
    BY <1>2, <2>3, <2>4 DEF BufferOK
<1>6. Flow' = Flow
  <2>1. Pending = <<>> \o FlattenSeq(SamplesOf(queue)) /\ FlattenSeq(SamplesOf(queue)) \in Seq(Nat)
    BY <1>2, FlowParts, FlattenEmpty
  <2>2. Pending = FlattenSeq(SamplesOf(queue))
    BY <2>1, ConcatEmptySeq
  <2>3. Pending' = FlattenSeq(frames') \o FlattenSeq(SamplesOf(queue'))
    BY DEF Pending, SamplesOf
  <2>4. FlattenSeq(SamplesOf(queue)) = FlattenSeq(Head(queue)) \o FlattenSeq(SamplesOf(Tail(queue)))
    BY <1>2, <1>3, SamplesComeAndGo
  <2>5. Pending' = Pending
    BY <1>2, <2>2, <2>3, <2>4
  <2>6. QED
    BY <1>2, <2>5 DEF Flow, Remaining, absize
<1>7. QED
  BY <1>1, <1>2, <1>4, <1>5, <1>6, FlowSame DEF SoundInv

Rebracketed(s, c, a, b, r, q) ==
    /\ s \o (c \o (((a \o b) \o r) \o q)) = ((s \o c) \o a) \o (b \o (r \o q))
    /\ s \o ((c \o a) \o (r \o q)) = ((s \o c) \o a) \o (r \o q)

(* The flow with its parts in other brackets.                              *)
LEMMA Pulled ==
    ASSUME NEW s \in Seq(Nat), NEW c \in Seq(Nat), NEW a \in Seq(Nat), NEW b \in Seq(Nat),
           NEW r \in Seq(Nat), NEW q \in Seq(Nat)
    PROVE  Rebracketed(s, c, a, b, r, q)
<1> DEFINE rq == r \o q
<1>1. /\ a \o b \in Seq(Nat) /\ rq \in Seq(Nat) /\ b \o rq \in Seq(Nat) /\ c \o a \in Seq(Nat)
      /\ s \o c \in Seq(Nat) /\ a \o (b \o rq) \in Seq(Nat)
  <2>1. a \o b \in Seq(Nat) /\ rq \in Seq(Nat) /\ c \o a \in Seq(Nat) /\ s \o c \in Seq(Nat)
    BY ConcatProperties
  <2> HIDE DEF rq
  <2>2. b \o rq \in Seq(Nat)
    BY <2>1, ConcatProperties
  <2>3. QED
    BY <2>1, <2>2, ConcatProperties
<1>2. Joined(a \o b, r, q)
  BY <1>1, AllJoined
<1> HIDE DEF rq
<1>3. /\ Joined(a, b, rq) /\ Joined(s, c, a \o (b \o rq)) /\ Joined(s \o c, a, b \o rq)
      /\ Joined(s, c \o a, rq) /\ Joined(s, c, a)
  BY <1>1, AllJoined
<1>4. s \o (c \o (((a \o b) \o r) \o q)) = ((s \o c) \o a) \o (b \o rq)
  <2>1. ((a \o b) \o r) \o q = a \o (b \o rq)
    BY <1>2, <1>3, Zenon DEF Joined, rq
  <2>2. s \o (c \o (a \o (b \o rq))) = (s \o c) \o (a \o (b \o rq))
    BY <1>3, Zenon DEF Joined
  <2>3. (s \o c) \o (a \o (b \o rq)) = ((s \o c) \o a) \o (b \o rq)
    BY <1>3, Zenon DEF Joined
  <2>4. QED
    BY <2>1, <2>2, <2>3, Zenon
<1>5. s \o ((c \o a) \o rq) = ((s \o c) \o a) \o rq
  BY <1>3, Zenon DEF Joined
<1>6. QED
  BY <1>4, <1>5, Zenon DEF Rebracketed, rq

(* What of a frame fits is next in the flow, and the rest given up.        *)
LEMMA DecodeKeeps == ASSUME SoundInv, decode_frame PROVE SoundInv'
<1>1. SoundTypeOK /\ BufferOK /\ FlowWhole
  BY DEF SoundInv
<1> DEFINE frame == Head(frames)
           n == Fitting(frame)
           a == SubSeq(frame, 1, n)
           b == SubSeq(frame, n + 1, Len(frame))
           r == FlattenSeq(Tail(frames))
           q == FlattenSeq(SamplesOf(queue))
           more == Tail(frames)
<1>2. /\ fpc = "decode" /\ frames # <<>> /\ audiobuf' = audiobuf \o a
      /\ skipped' = skipped \cup ToSet(b) /\ frames' = more
      /\ abpos = 0 /\ absize <= BufferMax
      /\ absize + Len(FlattenSeq(frames)) <= Asked + pktsize
      /\ UNCHANGED <<packets, samples_in, queue, fpc, pktsize, abpos, stream>>
  BY <1>1 DEF decode_frame, BufferOK
<1>3. /\ frames \in Seq(Seq(Heardable)) /\ frame \in Seq(Heardable)
      /\ more \in Seq(Seq(Heardable)) /\ FlattenSeq(frames) = frame \o r
      /\ r \in Seq(Heardable)
  <2>1. frames \in Seq(Seq(Heardable)) /\ frame \in Seq(Heardable) /\ more \in Seq(Seq(Heardable))
    BY <1>1, <1>2, HeadTailProperties DEF SoundTypeOK
  <2>2. FlattenSeq(frames) = frame \o r
    BY <1>2, <2>1, FlattenHead
  <2>3. QED
    BY <2>1, <2>2, FlattenType
<1>4. frame \in Seq(Nat) /\ r \in Seq(Nat) /\ q \in Seq(Nat) /\ stream \in Seq(Nat)
      /\ audiobuf \in Seq(Nat) /\ absize \in Nat /\ Len(audiobuf) = absize
  <2>1. Heardable \subseteq Nat
    BY DEF Heardable
  <2>2. frame \in Seq(Nat) /\ r \in Seq(Nat)
    BY <1>3, <2>1, SeqMonotonic
  <2>3. QED
    BY <2>2, FlowParts DEF absize
<1>5. n \in 0..Len(frame) /\ Len(frame) \in Nat /\ absize + n <= BufferMax /\ BufferMax \in Nat
  <2>1. Len(frame) \in Nat /\ BufferMax \in Nat
    BY <1>4, LenProperties, SoundAssumption
  <2> HIDE DEF frame
  <2>2. QED
    BY <1>2, <1>4, <2>1 DEF Fitting
<1> HIDE DEF n, more
<1>6. a \in Seq(Nat) /\ b \in Seq(Nat) /\ a \o b = frame /\ Len(a) = n
  <2> HIDE DEF frame
  <2>1. a \in Seq(Nat) /\ b \in Seq(Nat) /\ a \o b = frame
    BY <1>4, <1>5, SplitSeq
  <2>2. Len(a) = n
    BY <1>4, <1>5
  <2>3. QED
    BY <2>1, <2>2
<1>7. b \in Seq(Heardable)
  <2> HIDE DEF frame
  <2>1. n + 1 \in 1..Len(frame) + 1 /\ \A i \in n + 1..Len(frame) : i \in 1..Len(frame)
    BY <1>5
  <2>2. \A i \in 1..Len(frame) : frame[i] \in Heardable
    BY <1>3, ElementOfSeq
  <2>3. QED
    BY <1>3, <1>5, <2>1, <2>2, SubSeqProperties
<1> HIDE DEF frame
<1>8. absize' = absize + n /\ absize' \in Nat
  <2>1. Len(audiobuf \o a) = Len(audiobuf) + Len(a)
    BY <1>4, <1>6, ConcatProperties
  <2>2. absize' = Len(audiobuf \o a)
    BY <1>2 DEF absize
  <2>3. QED
    BY <1>4, <1>5, <1>6, <2>1, <2>2
<1> HIDE DEF a, b, r, q
<1> DEFINE x == (stream \o audiobuf) \o a
           w == r \o q
<1>9. Flow = x \o (b \o w) /\ Flow' = x \o w /\ x \in Seq(Nat) /\ w \in Seq(Nat)
      /\ audiobuf' \in Seq(Nat)
  <2>1. Remaining = audiobuf
    <3>1. Remaining = SubSeq(audiobuf, 1, Len(audiobuf))
      BY <1>2 DEF Remaining, absize
    <3>2. QED
      BY <1>4, <3>1, SubSeqFull
  <2>2. audiobuf \o a \in Seq(Nat) /\ stream \o audiobuf \in Seq(Nat) /\ w \in Seq(Nat)
    BY <1>4, <1>6, ConcatProperties
  <2>3. Remaining' = audiobuf \o a
    <3>1. Remaining' = SubSeq(audiobuf', 1, Len(audiobuf'))
      BY <1>2 DEF Remaining, absize
    <3>2. audiobuf' \in Seq(Nat)
      BY <1>2, <2>2
    <3>3. QED
      BY <1>2, <3>1, <3>2, SubSeqFull
  <2>4. Pending = ((a \o b) \o r) \o q
    BY <1>3, <1>6, FlowParts DEF q
  <2>5. Pending' = r \o q
    <3>1. Pending' = FlattenSeq(frames') \o FlattenSeq(SamplesOf(queue'))
      BY DEF Pending, SamplesOf
    <3>2. QED
      BY <1>2, <3>1 DEF r, q, more
  <2>6. Flow = stream \o (audiobuf \o (((a \o b) \o r) \o q))
    BY <2>1, <2>4 DEF Flow
  <2>7. Flow' = stream \o ((audiobuf \o a) \o (r \o q))
    BY <1>2, <2>3, <2>5 DEF Flow
  <2>8. Flow = x \o (b \o w) /\ Flow' = x \o w
    <3>1. Rebracketed(stream, audiobuf, a, b, r, q)
      BY <1>4, <1>6, Pulled
    <3>2. QED
      BY <2>6, <2>7, <3>1, Zenon DEF Rebracketed, x, w
  <2>9. x \in Seq(Nat)
    BY <1>6, <2>2, ConcatProperties
  <2>10. QED
    BY <1>2, <2>2, <2>8, <2>9
<1> HIDE DEF x, w
<1>10. samples_in \in Nat /\ Carries(x \o (b \o w), samples_in, skipped)
  BY <1>1, <1>9 DEF FlowWhole, SoundTypeOK
<1>11. Carries(x \o w, samples_in, skipped \cup ToSet(b)) /\ ToSet(b) \subseteq 1..samples_in
  BY <1>7, <1>9, <1>10, GiveUp
<1>12. FlowWhole'
  <2>1. FlowWhole' <=> Carries(Flow', samples_in', skipped')
    BY DEF FlowWhole, Carries, Silence, Kept, UpFrom
  <2>2. QED
    BY <1>2, <1>9, <1>11, <2>1
<1>13. skipped' \subseteq 1..samples_in'
  BY <1>1, <1>2, <1>11 DEF SoundTypeOK
<1>14. SoundTypeOK'
  BY <1>1, <1>2, <1>3, <1>9, <1>13 DEF SoundTypeOK
<1>15. BufferOK'
  <2>1. Len(FlattenSeq(frames)) = Len(frame) + Len(r) /\ Len(r) \in Nat
    BY <1>3, <1>4, ConcatProperties, LenProperties
  <2>2. pktsize \in Nat /\ Asked \in Nat
    BY <1>1, SoundAssumption DEF SoundTypeOK
  <2>3. absize' + Len(r) <= Asked + pktsize
    BY <1>2, <1>4, <1>5, <1>8, <2>1, <2>2
  <2>4. FlattenSeq(frames)' = r /\ pktsize' = pktsize
    BY <1>2 DEF r, more
  <2>5. abpos' = 0 /\ 0 <= absize' /\ absize' <= BufferMax /\ fpc' = "decode"
    BY <1>2, <1>5, <1>8
  <2>6. QED
    BY <2>3, <2>4, <2>5 DEF BufferOK
<1>16. QED
  BY <1>12, <1>14, <1>15 DEF SoundInv

(* Of what is given up the silence takes the place.                        *)
LEMMA FailsKeeps == ASSUME SoundInv, decode_fails PROVE SoundInv'
<1>1. SoundTypeOK /\ BufferOK /\ FlowWhole
  BY DEF SoundInv
<1> DEFINE y == FlattenSeq(frames)
           q == FlattenSeq(SamplesOf(queue))
           sil == [i \in 1..SilenceSize |-> Silence]
           x == stream \o audiobuf
<1>2. /\ fpc = "decode" /\ frames # <<>> /\ audiobuf' = audiobuf \o sil
      /\ skipped' = skipped \cup ToSet(y) /\ frames' = <<>> /\ fpc' = "again"
      /\ abpos = 0 /\ absize + SilenceSize <= BufferMax
      /\ UNCHANGED <<packets, samples_in, queue, pktsize, abpos, stream>>
  BY <1>1 DEF decode_fails, BufferOK
<1>3. /\ y \in Seq(Heardable) /\ y \in Seq(Nat) /\ q \in Seq(Nat) /\ stream \in Seq(Nat)
      /\ audiobuf \in Seq(Nat) /\ absize \in Nat /\ Len(audiobuf) = absize
      /\ Pending = y \o q /\ Remaining \in Seq(Nat)
  BY FlowParts DEF absize
<1>4. sil \in Seq(Nat) /\ Len(sil) = SilenceSize /\ \A i \in 1..SilenceSize : sil[i] = Silence
  BY SoundAssumption DEF Silence
<1> HIDE DEF sil
<1>5. audiobuf \o sil \in Seq(Nat) /\ Len(audiobuf \o sil) = absize + SilenceSize /\ x \in Seq(Nat)
  <2>1. Len(audiobuf \o sil) = Len(audiobuf) + Len(sil)
    BY <1>3, <1>4, ConcatProperties
  <2>2. QED
    BY <1>3, <1>4, <2>1, ConcatProperties
<1>6. Remaining = audiobuf /\ Remaining' = audiobuf \o sil
  <2>1. Remaining = SubSeq(audiobuf, 1, Len(audiobuf))
    BY <1>2 DEF Remaining, absize
  <2>2. Remaining' = SubSeq(audiobuf', 1, Len(audiobuf'))
    BY <1>2 DEF Remaining, absize
  <2>3. SubSeq(audiobuf, 1, Len(audiobuf)) = audiobuf
    BY <1>3, SubSeqFull
  <2>4. SubSeq(audiobuf', 1, Len(audiobuf')) = audiobuf'
    BY <1>2, <1>5, SubSeqFull
  <2>5. QED
    BY <1>2, <2>1, <2>2, <2>3, <2>4
<1>7. Pending' = q
  <2>1. Pending' = FlattenSeq(frames') \o FlattenSeq(SamplesOf(queue'))
    BY DEF Pending, SamplesOf
  <2>2. Pending' = <<>> \o q
    BY <1>2, <2>1, FlattenEmpty
  <2>3. QED
    BY <1>3, <2>2, ConcatEmptySeq
<1> HIDE DEF y, q
<1>8. Flow = x \o (y \o q) /\ Flow' = x \o (sil \o q)
  <2>1. Flow = stream \o (audiobuf \o (y \o q))
    BY <1>3, <1>6 DEF Flow
  <2>2. Flow' = stream \o ((audiobuf \o sil) \o q)
    BY <1>2, <1>6, <1>7 DEF Flow
  <2>3. y \o q \in Seq(Nat) /\ sil \o q \in Seq(Nat)
    BY <1>3, <1>4, ConcatProperties
  <2>4. Joined(stream, audiobuf, y \o q) /\ Joined(stream, audiobuf, sil \o q)
        /\ Joined(audiobuf, sil, q)
    BY <1>3, <1>4, <2>3, AllJoined
  <2>5. QED
    BY <2>1, <2>2, <2>4, Zenon DEF Joined
<1> HIDE DEF x
<1>9. samples_in \in Nat /\ Carries(x \o (y \o q), samples_in, skipped)
  BY <1>1, <1>8 DEF FlowWhole, SoundTypeOK
<1>10. Carries(x \o q, samples_in, skipped \cup ToSet(y)) /\ ToSet(y) \subseteq 1..samples_in
  BY <1>3, <1>5, <1>9, GiveUp
<1>11. Without({Silence}, x \o (sil \o q)) = Without({Silence}, x \o q)
  <2>1. Without({Silence}, sil) = <<>>
    BY <1>4, WithoutAll
  <2>2. sil \o q \in Seq(Nat) /\ Without({Silence}, q) \in Seq(Nat)
    BY <1>3, <1>4, ConcatProperties, WithoutType
  <2>3. Splits({Silence}, x, sil \o q) /\ Splits({Silence}, sil, q) /\ Splits({Silence}, x, q)
    BY <1>3, <1>4, <1>5, <2>2, AllSplit
  <2>4. <<>> \o Without({Silence}, q) = Without({Silence}, q)
    BY <2>2, ConcatEmptySeq
  <2>5. QED
    BY <2>1, <2>3, <2>4, Zenon DEF Splits
<1>12. FlowWhole'
  <2>1. FlowWhole' <=> Carries(Flow', samples_in', skipped')
    BY DEF FlowWhole, Carries, Silence, Kept, UpFrom
  <2>2. Carries(Flow', samples_in, skipped \cup ToSet(y))
    BY <1>8, <1>10, <1>11, Zenon DEF Carries
  <2>3. QED
    BY <1>2, <2>1, <2>2
<1>13. SoundTypeOK'
  <2>1. skipped' \subseteq 1..samples_in'
    BY <1>1, <1>2, <1>10 DEF SoundTypeOK
  <2>2. audiobuf' \in Seq(Nat) /\ frames' \in Seq(Seq(Heardable))
    BY <1>2, <1>5, EmptySeq
  <2>3. QED
    BY <1>1, <1>2, <2>1, <2>2 DEF SoundTypeOK
<1>14. BufferOK'
  <2>1. absize' = absize + SilenceSize /\ SilenceSize \in Nat
    BY <1>2, <1>5, SoundAssumption DEF absize
  <2>2. abpos' = 0 /\ abpos' <= absize' /\ absize' <= BufferMax
    BY <1>2, <1>3, <2>1
  <2>3. QED
    BY <1>2, <2>2 DEF BufferOK
<1>15. QED
  BY <1>12, <1>13, <1>14 DEF SoundInv

(* A step that leaves the samples where they are keeps the invariant.      *)
LEMMA SamplesStay ==
    ASSUME SoundInv,
           UNCHANGED <<packets, samples_in, queue, pktsize, frames, audiobuf, abpos, stream, skipped>>,
           \/ fpc' = fpc
           \/ fpc' \in {"idle", "again"} /\ frames = <<>>
           \/ fpc' = "exited"
           \/ fpc' = "overrun" /\ Asked + pktsize + SilenceSize > BufferMax
    PROVE  SoundInv'
<1>1. SoundTypeOK /\ BufferOK /\ FlowWhole
  BY DEF SoundInv
<1>2. FlowWhole'
  <2>1. Flow' = Flow
    BY DEF Flow, Remaining, Pending, absize
  <2>2. QED
    BY <1>1, <2>1, FlowSame
<1>3. SoundTypeOK'
  BY <1>1 DEF SoundTypeOK
<1>4. BufferOK'
  <2>1. absize' = absize
    BY DEF absize
  <2>2. QED
    BY <1>1, <2>1 DEF BufferOK
<1>5. QED
  BY <1>2, <1>3, <1>4 DEF SoundInv

(* Every step keeps the invariant.                                         *)
LEMMA SoundInvNext == SoundInv /\ [SoundNext]_soundvars => SoundInv'
<1> SUFFICES ASSUME SoundInv, [SoundNext]_soundvars PROVE SoundInv'
  OBVIOUS
<1>1. CASE play_audio
  BY <1>1, PlayAudioKeeps
<1>2. CASE buffer_has_enough
  BY <1>2, HasEnoughKeeps
<1>3. CASE buffer_not_enough
  BY <1>3, NotEnoughKeeps
<1>4. CASE sound_packet_get
  BY <1>4, GetKeeps
<1>5. CASE decode_frame
  BY <1>5, DecodeKeeps
<1>6. CASE decode_fails
  BY <1>6, FailsKeeps
<1>7. CASE audio_fill_buffer
  <2>1. frames = <<>> /\ fpc' = "again"
    BY <1>7 DEF audio_fill_buffer, SoundInv, BufferOK
  <2>2. QED
    BY <1>7, <2>1, SamplesStay DEF audio_fill_buffer
<1>8. CASE packet_decoded
  BY <1>8, SamplesStay DEF packet_decoded
<1>9. CASE UNCHANGED soundvars
  BY <1>9, SamplesStay DEF soundvars
<1>10. CASE conversion_fails
  BY <1>10, SamplesStay DEF conversion_fails
<1>11. CASE silence_overruns
  <2>1. /\ absize + SilenceSize > BufferMax
        /\ absize + Len(FlattenSeq(frames)) <= Asked + pktsize
    BY <1>11 DEF silence_overruns, SoundInv, BufferOK
  <2>2. Len(FlattenSeq(frames)) \in Nat /\ absize \in Nat /\ pktsize \in Nat
        /\ {Asked, SilenceSize, BufferMax} \subseteq Nat
    BY FlowParts, LenProperties, SoundAssumption DEF SoundInv, SoundTypeOK
  <2>3. Asked + pktsize + SilenceSize > BufferMax
    BY <2>1, <2>2
  <2>4. QED
    BY <1>11, <2>3, SamplesStay DEF silence_overruns
<1>12. QED
  BY <1>1, <1>2, <1>3, <1>4, <1>5, <1>6, <1>7, <1>8, <1>9, <1>10, <1>11 DEF SoundNext, SoundThread

(* The invariant is what SoundWhole says, with silence left out afterwards. *)
LEMMA SoundInvWhole == SoundInv => SoundWhole
<1> SUFFICES ASSUME SoundInv PROVE SoundWhole
  OBVIOUS
<1>1. stream \in Seq(Nat) /\ Remaining \in Seq(Nat) /\ Pending \in Seq(Nat)
      /\ Pending \in Seq(Heardable)
  <2>1. Pending \in Seq(Heardable)
    BY FlowParts, ConcatProperties
  <2>2. QED
    BY <2>1, FlowParts
<1>2. Without({Silence}, Pending) = Pending
  <2>1. \A i \in 1..Len(Pending) : Pending[i] \notin {Silence}
    BY <1>1, ElementOfSeq DEF Heardable, Silence
  <2>2. QED
    BY <1>1, <2>1, WithoutNone
<1>3. /\ Remaining \o Pending \in Seq(Nat) /\ Heard(stream) \in Seq(Nat)
      /\ Heard(Remaining) \in Seq(Nat)
  BY <1>1, ConcatProperties, WithoutType DEF Heard
<1>4. Splits({Silence}, stream, Remaining \o Pending) /\ Splits({Silence}, Remaining, Pending)
  BY <1>1, <1>3, AllSplit
<1>5. Joined(Heard(stream), Heard(Remaining), Pending)
  BY <1>1, <1>3, AllJoined
<1>6. Without({Silence}, Flow) = Heard(stream) \o (Heard(Remaining) \o Pending)
  BY <1>2, <1>4, Zenon DEF Splits, Flow, Heard
<1>7. Without({Silence}, Flow) = Without(skipped, [k \in 1..samples_in |-> k])
  <2>1. UpFrom(0, samples_in) = [k \in 1..samples_in |-> k]
    BY DEF SoundInv, SoundTypeOK, UpFrom
  <2>2. QED
    BY <2>1 DEF SoundInv, FlowWhole, Carries, Kept
<1>8. Heard(stream) \o Heard(Remaining) \o Pending = Without(skipped, [k \in 1..samples_in |-> k])
  BY <1>5, <1>6, <1>7, Zenon DEF Joined
<1>9. absize <= BufferMax /\ (fpc = "overrun" => Asked + pktsize + SilenceSize > BufferMax)
  BY DEF SoundInv, BufferOK
<1>10. QED
  BY <1>8, <1>9 DEF SoundWhole

(* The device is given every sample that came, once and in order, but for  *)
(* what was given up, and audiobuf holds the samples put there, whatever   *)
(* the sizes of frames and packets and of what SDL asks for; silence does  *)
(* not fit there only with a packet too large for the buffer.              *)
THEOREM SoundWholeCorrect == SoundSpec => []SoundWhole
<1>1. SoundInit => SoundInv
  BY SoundInvInit
<1>2. SoundInv /\ [SoundNext]_soundvars => SoundInv'
  BY SoundInvNext
<1>3. SoundInv => SoundWhole
  BY SoundInvWhole
<1>4. QED
  BY <1>1, <1>2, <1>3, PTL DEF SoundSpec

=============================================================================
