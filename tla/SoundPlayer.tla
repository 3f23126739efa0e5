----------------------------- MODULE SoundPlayer -----------------------------
(***************************************************************************)
(* The client's sound (client/rtspclient.cpp): the live555 thread puts     *)
(* packets into a queue (play_audio), and SDL's sound thread calls         *)
(* audio_fill_buffer for more sound, which takes packets from the queue,   *)
(* decodes them into audiobuf and hands on what it was asked for; what     *)
(* remains there is for the next call.  The callback waits for packets as  *)
(* long as it takes, on a condition variable that may wake it for nothing. *)
(*                                                                         *)
(* One sample here is one frame of the code, as in AudioPath, and a packet *)
(* is the sequence of the frames in it, each a sequence of samples.        *)
(***************************************************************************)
EXTENDS Integers, Sequences, SequencesExt, ListOps

CONSTANTS PacketSizes,  \* what is in a packet: sequences of the sizes of its frames
          Asked,        \* what SDL asks for: ssize
          BufferMax,    \* abmaxsize
          SilenceSize,  \* the silence for a packet that is not decoded (1024 bytes)
          MaxPackets,   \* bound: packets received
          MaxQueue      \* bound: packets in the queue

Silence == 0

ASSUME SoundAssumption ==
    /\ PacketSizes \subseteq Seq(Nat) \ {<<>>}
    /\ {Asked, BufferMax, SilenceSize} \subseteq Nat \ {0}
    /\ {MaxPackets, MaxQueue} \subseteq Nat

VARIABLES
    packets,      \* packets received
    samples_in,   \* the number of the last sample in them
    queue,        \* PacketQueue.queue
    fpc,          \* where the sound thread is in audio_fill_buffer
    pktsize,      \* the samples in the packet taken
    frames,       \* the frames of it that are not decoded yet
    audiobuf,     \* what is in audiobuf up to absize
    abpos,
    stream,       \* history: what SDL was given
    skipped       \* history: the samples of packets or frames that were given up

soundvars == <<packets, samples_in, queue, fpc, pktsize, frames, audiobuf,
              abpos, stream, skipped>>

SoundInit ==
    /\ packets = 0 /\ samples_in = 0
    /\ queue = <<>>
    /\ fpc = "idle"
    /\ pktsize = 0 /\ frames = <<>> /\ audiobuf = <<>> /\ abpos = 0
    /\ stream = <<>> /\ skipped = {}

(* Frames of the sizes given, with the samples after n.                    *)
FramesAfter(n, sizes) ==
    [i \in 1..Len(sizes) |->
        [k \in 1..sizes[i] |-> n + Total(SubSeq(sizes, 1, i - 1)) + k]]

-----------------------------------------------------------------------------
(* The live555 thread.                                                     *)

play_audio ==
    /\ fpc \notin {"overrun", "exited"}
    /\ packets < MaxPackets /\ Len(queue) < MaxQueue
    /\ packets' = packets + 1
    /\ \E sizes \in PacketSizes :
         LET packet == FramesAfter(samples_in, sizes) IN
         /\ samples_in' = samples_in + Total(sizes)
         /\ \/ queue' = Append(queue, packet) /\ UNCHANGED skipped
            \/ /\ skipped' = skipped \cup ToSet(FlattenSeq(packet))   \* av_dup_packet < 0
               /\ UNCHANGED queue
    /\ UNCHANGED <<fpc, pktsize, frames, audiobuf, abpos, stream>>

-----------------------------------------------------------------------------
(* The sound thread.                                                       *)

absize == Len(audiobuf)

audio_fill_buffer ==
    /\ fpc = "idle"
    /\ fpc' = "again"
    /\ UNCHANGED <<packets, samples_in, queue, pktsize, frames, audiobuf, abpos, stream, skipped>>

buffer_has_enough ==
    /\ fpc = "again"
    /\ absize - abpos >= Asked
    /\ stream' = stream \o SubSeq(audiobuf, abpos + 1, abpos + Asked)
    /\ abpos' = abpos + Asked
    /\ fpc' = "idle"
    /\ UNCHANGED <<packets, samples_in, queue, pktsize, frames, audiobuf, skipped>>

buffer_not_moved ==                     \* mutant: abpos alone is reset
    /\ fpc = "again"
    /\ absize - abpos < Asked
    /\ audiobuf' = SubSeq(audiobuf, 1, absize - abpos)
    /\ abpos' = 0
    /\ fpc' = "get"
    /\ UNCHANGED <<packets, samples_in, queue, pktsize, frames, stream, skipped>>

buffer_not_enough ==
    /\ fpc = "again"
    /\ absize - abpos < Asked
    /\ audiobuf' = SubSeq(audiobuf, abpos + 1, absize)
    /\ abpos' = 0
    /\ fpc' = "get"
    /\ UNCHANGED <<packets, samples_in, queue, pktsize, frames, stream, skipped>>

(* packet_queue_get, which returns when there is a packet.                 *)
sound_packet_get ==
    /\ fpc = "get"
    /\ queue # <<>>
    /\ frames' = Head(queue)
    /\ pktsize' = Len(FlattenSeq(Head(queue)))
    /\ queue' = Tail(queue)
    /\ fpc' = "decode"
    /\ UNCHANGED <<packets, samples_in, audiobuf, abpos, stream, skipped>>

(* What of a frame fits.                                                   *)
Fitting(frame) ==
    IF absize + Len(frame) > BufferMax THEN BufferMax - absize ELSE Len(frame)

decode_frame ==
    /\ fpc = "decode"
    /\ frames # <<>>
    /\ LET frame == Head(frames)
           n     == Fitting(frame)
       IN /\ audiobuf' = audiobuf \o SubSeq(frame, 1, n)
          /\ skipped' = skipped \cup ToSet(SubSeq(frame, n + 1, Len(frame)))
    /\ frames' = Tail(frames)
    /\ UNCHANGED <<packets, samples_in, queue, fpc, pktsize, abpos, stream>>

(* fill_silence, instead of the rest of the packet.                        *)
decode_fails ==
    /\ fpc = "decode"
    /\ frames # <<>>
    /\ absize + SilenceSize <= BufferMax
    /\ audiobuf' = audiobuf \o [i \in 1..SilenceSize |-> Silence]
    /\ skipped' = skipped \cup ToSet(FlattenSeq(frames))
    /\ frames' = <<>>
    /\ fpc' = "again"
    /\ UNCHANGED <<packets, samples_in, queue, pktsize, abpos, stream>>

(* Nothing asks whether there is room for it: it may be written beyond the *)
(* end of audiobuf, and anything may happen then.                          *)
silence_overruns ==
    /\ fpc = "decode"
    /\ frames # <<>>
    /\ absize + SilenceSize > BufferMax
    /\ fpc' = "overrun"
    /\ UNCHANGED <<packets, samples_in, queue, pktsize, frames, audiobuf, abpos, stream, skipped>>

(* The converter of the samples cannot be made, or not for so many: exit.  *)
conversion_fails ==
    /\ fpc = "decode"
    /\ frames # <<>>
    /\ fpc' = "exited"
    /\ UNCHANGED <<packets, samples_in, queue, pktsize, frames, audiobuf, abpos, stream, skipped>>

packet_decoded ==
    /\ fpc = "decode"
    /\ frames = <<>>
    /\ fpc' = "again"
    /\ UNCHANGED <<packets, samples_in, queue, pktsize, frames, audiobuf, abpos, stream, skipped>>

SoundThread ==
    \/ buffer_has_enough \/ buffer_not_enough \/ sound_packet_get
    \/ decode_frame \/ decode_fails \/ silence_overruns \/ conversion_fails \/ packet_decoded

SoundNext == play_audio \/ audio_fill_buffer \/ SoundThread

SoundSpec == SoundInit /\ [][SoundNext]_soundvars

-----------------------------------------------------------------------------
Heard(s) == Without({Silence}, s)

Remaining == SubSeq(audiobuf, abpos + 1, absize)

Pending == FlattenSeq(frames) \o FlattenSeq([i \in 1..Len(queue) |-> FlattenSeq(queue[i])])

(***************************************************************************)
(* Of the samples received audio_fill_buffer gives the sound device, hands *)
(* over later or has still to decode every one, once and in order, but for *)
(* those of packets that could not be queued or decoded and the end of     *)
(* frames for which there is no room: however packets and what SDL asks    *)
(* for overlap, and leaving aside silence, which comes in where a decode   *)
(* fails.  Samples are not written beyond the end of audiobuf; silence is, *)
(* but only in a packet too large for the buffer besides what SDL asks for.*)
(***************************************************************************)
SoundWhole ==
    IF fpc = "overrun"
    THEN Asked + pktsize + SilenceSize > BufferMax
    ELSE /\ Heard(stream) \o Heard(Remaining) \o Pending =
                Without(skipped, [k \in 1..samples_in |-> k])
         /\ absize <= BufferMax
=============================================================================
