----------------------------- MODULE Timestamps -----------------------------
(***************************************************************************)
(* The time stamps of a session.  The capture thread numbers frames by the *)
(* time since its start (vsource-desktop.cpp); the two encoders turn the   *)
(* number of a frame, and the time at which samples are read, into stamps  *)
(* (encoder-video.cpp, encoder-audio.cpp), and share a clock that the      *)
(* first of them starts in each session (encoder_pts_sync).                *)
(*                                                                         *)
(* Time is gettimeofday's, counted in ticks; it may be set back once.  The *)
(* frames between capture and encoder are one list, which loses its eldest *)
(* when it is full (VideoPath has the two pools it stands for).            *)
(***************************************************************************)
EXTENDS Integers, Sequences

CONSTANTS Second,       \* ticks in a second (1000000 in the code)
          Milli,        \* ticks in a millisecond
          Conf,         \* the configurations: video_fps and audio_samplerate,
                        \* and whether the server runs on Windows
          frame_size,   \* samples in an audio packet
          PoolSize,     \* frames between capture and encoder
          BufSize,      \* samples between the sound device and the encoder
          MaxStep,      \* by how much the clock may be set back
          MaxTime,      \* bound: how long the model runs
          MaxSessions   \* bound: how many sessions there are

ASSUME TimestampsAssumption ==
    /\ Second \in Nat \ {0} /\ Milli \in Nat \ {0} /\ frame_size \in Nat \ {0}
    /\ PoolSize \in Nat \ {0} /\ BufSize \in Nat
    /\ Conf \subseteq [video_fps : Nat \ {0}, audio_samplerate : Nat \ {0}, windows : BOOLEAN]
    /\ MaxStep \in Nat /\ MaxTime \in Nat /\ MaxSessions \in Nat

VARIABLES
    conf,           \* rtspconf: the frame rate and the sample rate
    now,            \* gettimeofday, since the capture thread started
    adjusted,       \* the clock has been set back
    session,        \* sessions so far
    threadLaunched,
    sync_reset, synctv,
    sourceAt,       \* where the capture thread is
    tv,             \* when its present turn began, and its frame was captured
    nap,            \* ticks until it wakes up
    frames,         \* the frames on their way to the video encoder: their imgpts
    videoRuns,      \* the video encoder's thread exists, and its variables:
    basePts, vptsSync, vpts,
    age,            \* and how old its first frame was, in frames (of no use
                    \* to the code)
    audioAt,        \* where the audio encoder is, and its variables:
    baseT, aptsSync, ptsOffset, apts, nsamples,
    alast,          \* the stamp of the last audio packet, -1 before the first
    sound           \* the sound on its way to it, in samples times Second

clockVars  == <<now, adjusted>>
syncVars   == <<session, threadLaunched, sync_reset, synctv>>
sourceVars == <<sourceAt, tv, nap>>
videoLocals == <<basePts, vptsSync, vpts, age>>
audioLocals == <<baseT, aptsSync, ptsOffset, apts, nsamples, alast>>
videoVars   == <<videoRuns, videoLocals>>
audioVars   == <<audioAt, audioLocals>>
vars == <<conf, clockVars, syncVars, sourceVars, frames, videoVars, audioVars, sound>>

TypeOK ==
    /\ conf \in Conf
    /\ now \in Nat /\ adjusted \in BOOLEAN /\ session \in Nat
    /\ threadLaunched \in BOOLEAN /\ sync_reset \in BOOLEAN /\ synctv \in Nat
    /\ sourceAt \in {"loop", "capture", "sleep"} /\ tv \in Nat /\ nap \in Nat
    /\ frames \in Seq(Nat) /\ Len(frames) <= PoolSize
    /\ videoRuns \in BOOLEAN /\ age \in Int
    /\ basePts \in Nat \cup {-1} /\ vptsSync \in Nat /\ vpts \in Nat \cup {-1}
    /\ basePts = -1 <=> vpts = -1
    /\ audioAt \in {"off", "init", "loop"}
    /\ baseT \in Nat /\ aptsSync \in Nat /\ ptsOffset \in Nat
    /\ apts \in Nat \cup {-1} /\ alast \in Nat \cup {-1}
    /\ nsamples \in 0..frame_size - 1
    /\ sound \in 0..BufSize * Second

Init ==
    /\ conf \in Conf
    /\ now = 0 /\ adjusted = FALSE
    /\ session = 0 /\ threadLaunched = FALSE /\ sync_reset = TRUE /\ synctv = 0
    /\ sourceAt = "loop" /\ tv = 0 /\ nap = 0
    /\ frames = <<>>
    /\ videoRuns = FALSE /\ basePts = -1 /\ vptsSync = 0 /\ vpts = -1 /\ age = 0
    /\ audioAt = "off" /\ baseT = 0 /\ aptsSync = 0 /\ ptsOffset = 0
    /\ apts = -1 /\ nsamples = 0 /\ alast = -1
    /\ sound = 0

(* Division of C: towards zero.                                            *)
Quotient(a, b) == IF a >= 0 THEN a \div b ELSE -((-a) \div b)

frame_interval == Second \div conf.video_fps + 1

Larger(a, b)  == IF a > b THEN a ELSE b
Smaller(a, b) == IF a < b THEN a ELSE b

-----------------------------------------------------------------------------
(* Time passes.  A clock that is set back never shows a time from before   *)
(* the capture thread started.                                             *)

tick ==
    /\ now < MaxTime
    /\ now' = now + 1
    /\ nap' = IF nap > 0 THEN nap - 1 ELSE 0
    /\ sound' = IF audioAt = "loop"
              THEN Smaller(sound + conf.audio_samplerate, BufSize * Second) ELSE 0
    /\ UNCHANGED <<conf, adjusted, syncVars, sourceAt, tv, frames, videoVars, audioVars>>

settimeofday ==
    /\ ~adjusted
    /\ \E d \in 1..MaxStep : d <= now /\ now' = now - d
    /\ adjusted' = TRUE
    /\ UNCHANGED <<conf, syncVars, sourceVars, frames, videoVars, audioVars, sound>>

-----------------------------------------------------------------------------
(* Sessions: the first client starts the encoders, the last one stops them *)
(* and waits for them, and arms the clock.                                 *)

launch ==
    /\ ~threadLaunched /\ ~videoRuns /\ audioAt = "off" /\ sync_reset
    /\ session < MaxSessions
    /\ session' = session + 1
    /\ threadLaunched' = TRUE
    /\ videoRuns' = TRUE /\ audioAt' = "init"
    /\ UNCHANGED <<conf, clockVars, sync_reset, synctv, sourceVars, frames, videoLocals,
                   audioLocals, sound>>

stop ==
    /\ threadLaunched
    /\ threadLaunched' = FALSE
    /\ UNCHANGED <<conf, clockVars, session, sync_reset, synctv, sourceVars, frames,
                   videoVars, audioVars, sound>>

join ==
    /\ ~threadLaunched /\ ~videoRuns /\ audioAt = "off"
    /\ sync_reset' = TRUE
    /\ UNCHANGED <<conf, clockVars, session, threadLaunched, synctv, sourceVars, frames,
                   videoVars, audioVars, sound>>

-----------------------------------------------------------------------------
(* The capture thread.  A turn begins, and its frame is captured and       *)
(* numbered, at one instant.                                               *)

source_capture ==
    /\ sourceAt = "loop"
    /\ threadLaunched
    /\ tv' = now
    /\ sourceAt' = "capture"
    /\ UNCHANGED <<conf, clockVars, syncVars, nap, frames, videoVars, audioVars, sound>>

(* ga_usleep: what is left of the frame's time, next to nothing when the   *)
(* turn took longer.                                                       *)
ga_usleep(delta) == IF delta >= frame_interval THEN 0 ELSE frame_interval - delta

(* On Windows usleep is the program's own: Sleep for the whole             *)
(* milliseconds, and for the rest a loop until the rest has elapsed since  *)
(* before Sleep, which it has.                                             *)
usleep(waitTime) ==
    IF conf.windows /\ waitTime >= Milli THEN Milli * (waitTime \div Milli) ELSE waitTime

source_store ==
    /\ sourceAt = "capture"
    /\ frames' = Append(IF Len(frames) = PoolSize THEN Tail(frames) ELSE frames,
                        tv \div frame_interval)
    /\ nap' = usleep(ga_usleep(now - tv))
    /\ sourceAt' = "sleep"
    /\ UNCHANGED <<conf, clockVars, syncVars, tv, videoVars, audioVars, sound>>

source_wake ==
    /\ sourceAt = "sleep" /\ nap = 0
    /\ sourceAt' = "loop"
    /\ UNCHANGED <<conf, clockVars, syncVars, tv, nap, frames, videoVars, audioVars, sound>>

-----------------------------------------------------------------------------
(* The shared clock: the first call of encoder_pts_sync in a session       *)
(* returns 0 and starts it.                                                *)

Elapsed(rate, since) == Quotient((now - since) * rate, Second)

encoder_pts_sync(rate) == IF sync_reset THEN 0 ELSE Larger(Elapsed(rate, synctv), 0)

sync_starts ==
    /\ sync_reset' = FALSE
    /\ synctv' = IF sync_reset THEN now ELSE synctv

-----------------------------------------------------------------------------
(* The video encoder: a frame is taken, stamped and sent.  Like the audio  *)
(* encoder, it may still do so when it has just been told to stop.         *)

any_stamp(newpts) == newpts                                          \* mutant
next_vpts(newpts) == IF newpts > vpts THEN newpts ELSE vpts + 1

no_base(imgpts) == vptsSync + imgpts                                    \* mutant
video_newpts(imgpts) == vptsSync + imgpts - basePts

video_frame ==
    /\ videoRuns
    /\ frames # <<>>
    /\ frames' = Tail(frames)
    /\ IF basePts = -1
       THEN /\ basePts' = Head(frames)
            /\ vptsSync' = encoder_pts_sync(conf.video_fps)
            /\ vpts' = next_vpts(vptsSync')
            /\ age' = now \div frame_interval - Head(frames)
            /\ sync_starts
       ELSE /\ vpts' = next_vpts(video_newpts(Head(frames)))
            /\ UNCHANGED <<basePts, vptsSync, age, sync_reset, synctv>>
    /\ UNCHANGED <<conf, clockVars, session, threadLaunched, sourceVars, videoRuns,
                   audioVars, sound>>

video_quit ==
    /\ videoRuns /\ ~threadLaunched
    /\ videoRuns' = FALSE
    /\ basePts' = -1 /\ vptsSync' = 0 /\ vpts' = -1 /\ age' = 0
    /\ UNCHANGED <<conf, clockVars, syncVars, sourceVars, frames, audioVars, sound>>

-----------------------------------------------------------------------------
(* The audio encoder: samples are read, as many as there are and as a      *)
(* packet still wants, and a full packet is stamped and sent.              *)

audio_register ==
    /\ audioAt = "init"
    /\ audioAt' = "loop"
    /\ sound' = 0
    /\ UNCHANGED <<conf, clockVars, syncVars, sourceVars, frames, videoVars, audioLocals>>

audio_newpts(r) == aptsSync + Elapsed(conf.audio_samplerate, baseT) - r - ptsOffset

(* The stamp of the samples in hand after a read of r more.                *)
next_apts(r) == Larger(audio_newpts(r), apts)

audio_stamp(r) ==
    IF apts = -1
    THEN /\ baseT' = now
         /\ aptsSync' = encoder_pts_sync(conf.audio_samplerate)
         /\ ptsOffset' = r
         /\ sync_starts
    ELSE UNCHANGED <<baseT, aptsSync, ptsOffset, sync_reset, synctv>>

Stamped(r) == IF apts = -1 THEN encoder_pts_sync(conf.audio_samplerate) ELSE next_apts(r)

(* audio_source_buffer_read brings r samples, never more than a packet     *)
(* still wants.                                                            *)
audio_read(r) ==
    /\ audioAt = "loop"
    /\ r * Second <= sound
    /\ sound' = sound - r * Second
    /\ audio_stamp(r)
    /\ IF nsamples + r = frame_size
       THEN /\ alast' = Stamped(r)
            /\ apts' = Stamped(r) + frame_size
            /\ nsamples' = 0
       ELSE /\ apts' = Stamped(r)
            /\ nsamples' = nsamples + r
            /\ UNCHANGED alast
    /\ UNCHANGED <<conf, clockVars, session, threadLaunched, sourceVars, frames, videoVars,
                   audioAt>>

audio_quit ==
    /\ audioAt # "off" /\ ~threadLaunched
    /\ audioAt' = "off"
    /\ baseT' = 0 /\ aptsSync' = 0 /\ ptsOffset' = 0
    /\ apts' = -1 /\ nsamples' = 0 /\ alast' = -1
    /\ sound' = 0
    /\ UNCHANGED <<conf, clockVars, syncVars, sourceVars, frames, videoVars>>

-----------------------------------------------------------------------------
Next ==
    \/ tick \/ settimeofday
    \/ launch \/ stop \/ join
    \/ source_capture \/ source_store \/ source_wake
    \/ video_frame \/ video_quit
    \/ audio_register \/ (\E r \in 1..frame_size - nsamples : audio_read(r)) \/ audio_quit

Spec == Init /\ [][Next]_vars

-----------------------------------------------------------------------------
(***************************************************************************)
(* Stamps increase within a session, whatever the clock does: every frame  *)
(* that the video encoder takes gets a later stamp than the one before     *)
(* ("pts must be monotonically increasing", encoder-video.cpp:182), and an *)
(* audio packet begins where the one before it ended, or later.            *)
(***************************************************************************)
StampsIncrease ==
    [][ /\ Len(frames') < Len(frames) => vpts' > vpts
        /\ sound' < sound /\ audioAt' = "loop" /\ nsamples' = 0 /\ alast # -1
             => alast' >= alast + frame_size ]_vars

(***************************************************************************)
(* While nobody sets the clock, both streams keep to the one they share: a *)
(* video stamp is ahead of it by at most the age that the first frame of   *)
(* the session had when it was taken, and an audio stamp by what may have  *)
(* been waiting to be read and what the packet in hand already has, which  *)
(* is stamped anew with every read.  A frame left over from the session    *)
(* before is as old as the pause between them, and makes all video stamps  *)
(* run ahead of the audio by so much (encoder-video.cpp:153, although      *)
(* encoder-common.cpp:46 is "for pts sync between encoders").  On Windows  *)
(* the capture thread sleeps too short (usleep), and each frame too many   *)
(* puts the stamps further ahead (next_vpts), without end: that is left    *)
(* out.                                                                    *)
(***************************************************************************)
VideoClock == Elapsed(conf.video_fps, synctv)
AudioClock == Elapsed(conf.audio_samplerate, synctv)

StreamsKeepToClock ==
    ~sync_reset /\ ~adjusted =>
        /\ conf.windows \/ vpts <= VideoClock + age + 1
        /\ apts <= AudioClock + BufSize + frame_size - 1
=============================================================================
