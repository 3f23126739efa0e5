----------------------------- MODULE AudioPath -----------------------------
(***************************************************************************)
(* The way of a sample through the server: the capture thread              *)
(* (asource-system.cpp) fills the AudioBuffer of the audio encoder         *)
(* (core/asource.cpp); the encoder (encoder-audio.cpp), which the hub      *)
(* starts and stops, reads it and cuts the samples into packets of the     *)
(* size that the codec wants.                                              *)
(*                                                                         *)
(* One sample here is one frame of the code: all channels' samples of one  *)
(* instant, so that sizes in bytes become numbers of samples.  Fill and    *)
(* read hold bufmutex; a read of an empty buffer waits first.              *)
(***************************************************************************)
EXTENDS Integers, Sequences

CONSTANTS ChunkSize,   \* gChunksize: the capture device delivers up to so many samples
          FrameSize,   \* encoder->frame_size
          MaxSamples,  \* bound: samples captured
          EncodeFails, \* the encoder may fail
          NoSample     \* what malloc leaves in a buffer

ASSUME AudioAssumption ==
    /\ ChunkSize \in Nat \ {0} /\ FrameSize \in Nat \ {0} /\ MaxSamples \in Nat
    /\ NoSample \notin Nat
    /\ EncodeFails \in BOOLEAN

BufSize == 4 * ChunkSize

VARIABLES
    buffer, bufhead, buftail, bframes,   \* the AudioBuffer
    registered,      \* it is in gClients
    captured,        \* the number of the last sample captured
    launched,        \* the hub's flag threadLaunched
    apc,             \* where the encoder thread is
    samples,         \* the samples it has not encoded yet
    copied,          \* what the last read copied
    packet           \* the last packet encoded

abVars == <<buffer, bufhead, buftail, bframes>>
vars == <<abVars, registered, captured, launched, apc, samples, copied, packet>>

Sample == 1..MaxSamples

TypeOK ==
    /\ buffer \in [0..BufSize - 1 -> Sample \cup {NoSample}]
    /\ bufhead \in 0..BufSize /\ buftail \in 0..BufSize /\ bframes \in 0..BufSize
    /\ registered \in BOOLEAN /\ launched \in BOOLEAN
    /\ captured \in 0..MaxSamples
    /\ apc \in {"off", "start", "loop", "waiting", "woken", "encode", "quit", "done"}
    /\ samples \in Seq(Sample) /\ copied \in Seq(Sample) /\ packet \in Seq(Sample)

Fresh == [i \in 0..BufSize - 1 |-> NoSample]

Init ==
    /\ buffer = Fresh
    /\ bufhead = 0 /\ buftail = 0 /\ bframes = 0
    /\ registered = FALSE /\ launched = FALSE
    /\ captured = 0
    /\ apc = "off"
    /\ samples = <<>> /\ copied = <<>> /\ packet = <<>>

-----------------------------------------------------------------------------
(* The capture thread: audio_source_buffer_fill.                           *)

(* n samples from captured + 1 on, at position p of buffer b.              *)
Put(b, p, n) ==
    [i \in 0..BufSize - 1 |-> IF i \in p..p + n - 1 THEN captured + 1 + (i - p) ELSE b[i]]

(* What is in use, moved to the beginning.                                 *)
moves_nothing(b) == b                                                \* mutant
Moved(b) ==
    [i \in 0..BufSize - 1 |-> IF i < buftail - bufhead THEN b[i + bufhead] ELSE b[i]]

Overflow(n) == n > bufhead + (BufSize - buftail)

fill_at_tail(n) ==
    /\ n <= BufSize - buftail
    /\ buffer' = Put(buffer, buftail, n)
    /\ buftail' = buftail + n
    /\ bframes' = bframes + n
    /\ UNCHANGED bufhead

fill_after_move(n) ==
    /\ n > BufSize - buftail
    /\ buffer' = Put(Moved(buffer), buftail - bufhead, n)
    /\ buftail' = buftail - bufhead + n
    /\ bframes' = bframes + n
    /\ bufhead' = 0

audio_source_buffer_fill_one(n) ==
    \/ Overflow(n) /\ UNCHANGED abVars
    \/ ~Overflow(n) /\ (fill_at_tail(n) \/ fill_after_move(n))

(* Every outcome signals the reader.                                       *)
audio_source_buffer_fill(n) ==
    /\ captured + n <= MaxSamples
    /\ captured' = captured + n
    /\ IF registered
       THEN /\ audio_source_buffer_fill_one(n)
            /\ apc' = IF apc = "waiting" THEN "woken" ELSE apc
       ELSE UNCHANGED <<abVars, apc>>
    /\ UNCHANGED <<registered, launched, samples, copied, packet>>

-----------------------------------------------------------------------------
(* The encoder thread.                                                     *)

audio_source_client_register   == registered' = TRUE
audio_source_client_unregister == registered' = FALSE

encoder_start ==
    /\ apc = "start"
    /\ \/ /\ buffer' = Fresh                      \* audio_source_buffer_init
          /\ bufhead' = 0 /\ buftail' = 0 /\ bframes' = 0
          /\ audio_source_client_register
          /\ apc' = "loop"
          /\ samples' = <<>> /\ copied' = <<>>
       \/ /\ EncodeFails
          /\ apc' = "quit"
          /\ UNCHANGED <<abVars, registered, samples, copied>>
    /\ UNCHANGED <<captured, launched, packet>>

Wanted == FrameSize - Len(samples)

(* audio_source_buffer_read, from where bframes is known to what it        *)
(* returns: as many samples as there are, at most as many as wanted.       *)
read_copy ==
    LET c == IF bframes >= Wanted THEN Wanted ELSE bframes IN
    /\ c > 0
    /\ copied' = [i \in 1..c |-> buffer[bufhead + i - 1]]
    /\ bframes' = bframes - c
    /\ IF bframes' = 0
       THEN bufhead' = 0 /\ buftail' = 0
       ELSE bufhead' = bufhead + c /\ UNCHANGED buftail
    /\ samples' = samples \o copied'
    /\ apc' = "encode"
    /\ UNCHANGED <<buffer, registered, captured, launched, packet>>

encoder_loop ==
    /\ apc = "loop"
    /\ \/ launched /\ read_copy
       \/ /\ launched /\ bframes = 0
          /\ apc' = "waiting"
          /\ UNCHANGED <<abVars, registered, captured, launched, samples, copied, packet>>
       \/ /\ ~launched
          /\ apc' = "quit"
          /\ UNCHANGED <<abVars, registered, captured, launched, samples, copied, packet>>

read_waits_for_ever == FALSE /\ UNCHANGED vars    \* mutant: wait, not timedwait
read_timeout ==
    /\ apc = "waiting"
    /\ apc' = "woken"
    /\ UNCHANGED <<abVars, registered, captured, launched, samples, copied, packet>>

read_after_wait ==
    /\ apc = "woken"
    /\ \/ read_copy
       \/ /\ bframes = 0                \* returns 0: a pause, and the loop goes on
          /\ apc' = "loop"
          /\ UNCHANGED <<abVars, registered, captured, launched, samples, copied, packet>>

encode_reuses_last ==                   \* mutant: offset is one sample short
    /\ apc = "encode"
    /\ IF Len(samples) >= FrameSize
       THEN /\ packet' = SubSeq(samples, 1, FrameSize)
            /\ samples' = SubSeq(samples, FrameSize, Len(samples))
       ELSE UNCHANGED <<samples, packet>>
    /\ apc' = "loop"
    /\ UNCHANGED <<abVars, registered, captured, launched, copied>>

encode ==
    /\ apc = "encode"
    /\ \/ /\ Len(samples) >= FrameSize
          /\ packet' = SubSeq(samples, 1, FrameSize)
          /\ samples' = SubSeq(samples, FrameSize + 1, Len(samples))
          /\ apc' = "loop"
       \/ /\ Len(samples) < FrameSize
          /\ apc' = "loop"
          /\ UNCHANGED <<samples, packet>>
       \/ /\ Len(samples) >= FrameSize /\ (EncodeFails \/ ~launched)
          /\ apc' = "quit"
          /\ UNCHANGED <<samples, packet>>
    /\ UNCHANGED <<abVars, registered, captured, launched, copied>>

encoder_quit ==
    /\ apc = "quit"
    /\ audio_source_client_unregister
    /\ apc' = "done"
    /\ UNCHANGED <<abVars, captured, launched, samples, copied, packet>>

-----------------------------------------------------------------------------
(* The hub.                                                                *)

launch ==
    /\ apc = "off" /\ ~launched
    /\ launched' = TRUE
    /\ apc' = "start"
    /\ UNCHANGED <<abVars, registered, captured, samples, copied, packet>>

stop ==
    /\ launched
    /\ launched' = FALSE
    /\ UNCHANGED <<abVars, registered, captured, apc, samples, copied, packet>>

join ==
    /\ ~launched /\ apc = "done"
    /\ apc' = "off"
    /\ UNCHANGED <<abVars, registered, captured, launched, samples, copied, packet>>

Encoder ==
    \/ encoder_start \/ encoder_loop \/ read_timeout \/ read_after_wait \/ encode \/ encoder_quit

Next ==
    \/ \E n \in 1..ChunkSize : audio_source_buffer_fill(n)
    \/ Encoder
    \/ launch \/ stop \/ join

Spec == Init /\ [][Next]_vars

FairSpec == Spec /\ WF_vars(Encoder) /\ WF_vars(join)
-----------------------------------------------------------------------------
(***************************************************************************)
(* asource.cpp says "we GUARANTEE that bufhead <= buftail" (line 93); and  *)
(* bframes, kept beside the two, is the number of samples between them.    *)
(* Appending relies on both at the end of the buffer.                      *)
(***************************************************************************)
HeadBeforeTail == bufhead <= buftail /\ buftail <= BufSize /\ bframes = buftail - bufhead

(* What the buffer holds, eldest first.                                    *)
Queued == [i \in 1..(IF registered THEN bframes ELSE 0) |-> buffer[bufhead + i - 1]]

(***************************************************************************)
(* The AudioBuffer is the bounded queue of samples: nothing is overwritten *)
(* before it is read, read twice, or dropped while there is room, wherever *)
(* head and tail are when a chunk arrives.                                 *)
(***************************************************************************)
SQ == INSTANCE SampleQueue WITH
        queue    <- Queued,
        result   <- copied,
        arrived  <- captured,
        open     <- registered,
        Capacity <- BufSize,
        MaxChunk <- ChunkSize

ImplementsSampleQueue == SQ!SQSpec

(***************************************************************************)
(* Packets carry samples in the order of their capture, none twice, within *)
(* a packet and from one to the next, sessions included: each time that a  *)
(* packet is encoded, all of it is later than the packet before.           *)
(***************************************************************************)
Ordered(s) == \A i, j \in 1..Len(s) : i < j => s[i] < s[j]

Encodes == apc = "encode" /\ Len(samples) >= FrameSize /\ apc' = "loop"

PacketsInOrder == [][Encodes => Ordered(packet \o packet')]_vars

(***************************************************************************)
(* The samples that await encoding never exceed the buffer of one frame    *)
(* (samples of aencoder_threadproc), wherever packets are cut.             *)
(***************************************************************************)
StagingFits == Len(samples) <= FrameSize

(***************************************************************************)
(* An audio encoder that is told to stop ends, also when no more sound is  *)
(* captured: the read that waits for a signal times out.                   *)
(***************************************************************************)
EncoderStops == ~launched ~> apc = "off" \/ launched
=============================================================================
