---------------------------- MODULE SoundCapture ----------------------------
(***************************************************************************)
(* The capture of sound on Windows (asource_threadproc with ga_wasapi_read *)
(* of ga-win32-wasapi.cpp).  The loop-back of WASAPI delivers packets of   *)
(* one period while something is played, and nothing at all otherwise, so  *)
(* that the reader puts in silence for the time in which nothing came.     *)
(*                                                                         *)
(* Time is counted in ticks, Grain of which make a sample: the thread's    *)
(* clock is finer than the sound.  It passes while the thread sleeps;      *)
(* reading takes none.                                                     *)
(***************************************************************************)
EXTENDS Integers

CONSTANTS Grain,      \* ticks in a sample
          Period,     \* samples in a packet of the device
          Chunk,      \* wframes: half of the device's buffer, in samples
          Nap,        \* bufferFillInt: as long, in ticks of whole milliseconds
          Late,       \* Sleep may take so many ticks longer
          MaxTime,    \* bounds
          MaxBursts

PacketTime == Period * Grain

ASSUME CaptureAssumption ==
    /\ {Grain, Period, Nap, Chunk} \subseteq Nat \ {0}
    /\ {Late, MaxTime, MaxBursts} \subseteq Nat
    /\ PacketTime <= Nap /\ Period <= Chunk

VARIABLES
    now,           \* time since the first read
    playing,       \* something is played
    bursts,        \* how often that began
    capturing,     \* the time for which the device has been filling a packet
    ready,         \* packets that are ready to be read
    cpc,           \* where the thread is in ga_wasapi_read
    wakes,         \* when Sleep is over
    wframes,       \* what is left of the chunk
    silenceFrom,
    fillSilence,
    given,         \* the samples given to audio_source_buffer_fill
    silentNaps     \* history: the naps after which silence was put in

devicevars  == <<now, playing, bursts, capturing, ready>>
readvars    == <<wakes, wframes, silenceFrom, fillSilence, given, silentNaps>>
capturevars == <<devicevars, cpc, readvars>>

CaptureInit ==
    /\ now = 0 /\ playing = FALSE /\ bursts = 0 /\ capturing = 0 /\ ready = 0
    /\ cpc = "call" /\ wakes = 0 /\ wframes = 0
    /\ silenceFrom = 0 /\ fillSilence = 0 /\ given = 0 /\ silentNaps = 0

-----------------------------------------------------------------------------
(* The device.  A packet that was begun is filled up.                      *)

tick ==
    /\ cpc = "nap" /\ now < wakes + Late
    /\ now' = now + 1
    /\ IF playing \/ capturing > 0
       THEN IF capturing + 1 = PacketTime
            THEN capturing' = 0 /\ ready' = ready + 1
            ELSE capturing' = capturing + 1 /\ ready' = ready
       ELSE UNCHANGED <<capturing, ready>>
    /\ UNCHANGED <<playing, bursts, cpc, readvars>>

play_or_stop ==
    /\ cpc = "nap" /\ (playing \/ bursts < MaxBursts)
    /\ playing' = ~playing
    /\ bursts' = IF playing THEN bursts ELSE bursts + 1
    /\ UNCHANGED <<now, capturing, ready, cpc, readvars>>

-----------------------------------------------------------------------------
(* The thread.                                                             *)

(* Silence that is due comes first, and may be all there is room for.      *)
read_silence ==
    /\ cpc = "call" /\ now < MaxTime
    /\ LET n == IF fillSilence <= Chunk THEN fillSilence ELSE Chunk IN
       /\ fillSilence' = fillSilence - n
       /\ given' = given + n
       /\ wframes' = Chunk - n
       /\ cpc' = IF n = Chunk THEN "call" ELSE "look"
    /\ UNCHANGED <<devicevars, wakes, silenceFrom, silentNaps>>

GetNextPacketSize ==
    /\ cpc = "look"
    /\ IF ready = 0
       THEN cpc' = "nap" /\ wakes' = now + Nap
       ELSE cpc' = "copy" /\ wakes' = wakes
    /\ UNCHANGED <<devicevars, wframes, silenceFrom, fillSilence, given, silentNaps>>

(* The time since silenceFrom was silent if there is still nothing; what   *)
(* of it is no whole sample is dropped.                                    *)
after_sleep ==
    /\ cpc = "nap" /\ now >= wakes
    /\ IF ready = 0
       THEN /\ fillSilence' = fillSilence + (now - silenceFrom) \div Grain
            /\ silenceFrom' = now
            /\ silentNaps' = silentNaps + 1
            /\ cpc' = "call"
       ELSE cpc' = "copy" /\ UNCHANGED <<fillSilence, silenceFrom, silentNaps>>
    /\ UNCHANGED <<devicevars, wakes, wframes, given>>

Copied ==       \* while(packetLength != 0 && wframes >= packetLength)
    IF ready <= wframes \div Period THEN ready ELSE wframes \div Period

copy_packets_untimed ==                 \* mutant: silenceFrom is left where it was
    /\ cpc = "copy"
    /\ given' = given + Copied * Period
    /\ ready' = ready - Copied
    /\ wframes' = wframes - Copied * Period
    /\ cpc' = "call"
    /\ UNCHANGED <<now, playing, bursts, capturing, wakes, silenceFrom, fillSilence, silentNaps>>

copy_packets ==
    /\ cpc = "copy"
    /\ given' = given + Copied * Period
    /\ ready' = ready - Copied
    /\ wframes' = wframes - Copied * Period
    /\ silenceFrom' = IF Copied > 0 THEN now ELSE silenceFrom
    /\ cpc' = "call"
    /\ UNCHANGED <<now, playing, bursts, capturing, wakes, fillSilence, silentNaps>>

(* A call of the device fails, and the thread ends.                        *)
read_fails ==
    /\ cpc \in {"look", "nap", "copy"}
    /\ cpc = "nap" => now >= wakes
    /\ cpc' = "ended"
    /\ UNCHANGED <<devicevars, readvars>>

CaptureNext ==
    \/ tick \/ play_or_stop
    \/ read_silence \/ GetNextPacketSize \/ after_sleep \/ copy_packets \/ read_fails

CaptureSpec == CaptureInit /\ [][CaptureNext]_capturevars

-----------------------------------------------------------------------------
(***************************************************************************)
(* How far what the encoders are given, silence included, may get from the *)
(* clock.  Each time that sound begins it gets ahead by less than a packet,*)
(* which was being filled when silence was put in.  It falls behind by     *)
(* what was silent in the nap in which sound begins (a packet fills the    *)
(* rest) and the one in which it ends (at least the last of a packet       *)
(* came), since no silence is put in after a nap that yields a packet; and *)
(* by less than a sample in each silent nap, whose silence is rounded down *)
(* to whole samples.  None of it is made up for, so that a long silence    *)
(* drifts; but sound that goes on adds nothing.                            *)
(***************************************************************************)
Accounted == (given + fillSilence + ready * Period) * Grain + capturing

SoundKeepsClock ==
    /\ Accounted - now <= bursts * (PacketTime - 1)
    /\ now - Accounted <= bursts * (2 * (Nap + Late) - PacketTime - 1)
                             + silentNaps * (Grain - 1) + (now - silenceFrom)
=============================================================================
