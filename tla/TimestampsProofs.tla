-------------------------- MODULE TimestampsProofs --------------------------
(***************************************************************************)
(* Theorems about Timestamps, for every frame rate, sample rate, packet    *)
(* size, clock and number of sessions: the types, that stamps increase,    *)
(* and that both streams keep to the clock they share while nobody sets it *)
(* back.  StampInv is TypeOK with what the increase of audio stamps rests  *)
(* on: the next stamp is a packet after the last one, and sound is only    *)
(* waiting while the encoder reads.  ClockInv relates the frames on their  *)
(* way, the stamps given and the sound that waits to the time.             *)
(***************************************************************************)
EXTENDS Timestamps, ListLemmas

StampInv ==
    /\ TypeOK
    /\ audioAt # "loop" => sound = 0
    /\ alast # -1 => apts # -1 /\ apts >= alast + frame_size

-----------------------------------------------------------------------------
(* What the arithmetic of the stamps yields.                               *)

(* The division of C gives an integer.                                     *)
LEMMA QuotientInt ==
    ASSUME NEW a \in Int, NEW b \in Nat \ {0}
    PROVE  Quotient(a, b) \in Int
BY DEF Quotient

(* A frame takes at least a tick.                                          *)
LEMMA IntervalType ==
    ASSUME TypeOK
    PROVE  frame_interval \in Nat \ {0}
<1>1. conf.video_fps \in Nat \ {0}
  BY TimestampsAssumption DEF TypeOK
<1> QED
  BY <1>1, TimestampsAssumption DEF frame_interval

(* A frame's number is one.                                                *)
LEMMA NumberType ==
    ASSUME TypeOK, NEW t \in Nat
    PROVE  t \div frame_interval \in Nat
<1> DEFINE i == frame_interval
<1>1. i \in Nat \ {0}
  BY IntervalType
<1> HIDE DEF i
<1>2. t \div i \in Nat
  BY <1>1
<1> QED
  BY <1>2 DEF i

(* Time as a number of frames or samples, and the shared clock.            *)
LEMMA SyncType ==
    ASSUME TypeOK, NEW rate \in Nat
    PROVE  encoder_pts_sync(rate) \in Nat
<1>1. (now - synctv) * rate \in Int
  BY DEF TypeOK
<1>2. Elapsed(rate, synctv) \in Int
  BY <1>1, QuotientInt, TimestampsAssumption DEF Elapsed
<1> QED
  BY <1>2 DEF encoder_pts_sync, Larger

(* The rates are numbers.                                                  *)
LEMMA RateType ==
    ASSUME TypeOK
    PROVE  conf.video_fps \in Nat /\ conf.audio_samplerate \in Nat
BY TimestampsAssumption DEF TypeOK

(* The stamp of samples read is a natural number, and not before what the  *)
(* last packet leaves.                                                     *)
LEMMA StampedType ==
    ASSUME TypeOK, NEW r \in Nat
    PROVE  /\ Stamped(r) \in Nat
           /\ apts # -1 => Stamped(r) >= apts
<1>1. encoder_pts_sync(conf.audio_samplerate) \in Nat
  BY SyncType, RateType
<1>2. (now - baseT) * conf.audio_samplerate \in Int
  BY RateType DEF TypeOK
<1>3. Elapsed(conf.audio_samplerate, baseT) \in Int
  BY <1>2, QuotientInt, TimestampsAssumption DEF Elapsed
<1>4. audio_newpts(r) \in Int
  BY <1>3 DEF audio_newpts, TypeOK
<1>5. apts # -1 => next_apts(r) \in Nat /\ next_apts(r) >= apts
  BY <1>4 DEF next_apts, Larger, TypeOK
<1> QED
  BY <1>1, <1>5 DEF Stamped

(* A frame's stamp is later than the one before.                           *)
LEMMA NextStamp ==
    ASSUME TypeOK, NEW p \in Int
    PROVE  next_vpts(p) \in Int /\ next_vpts(p) > vpts /\ next_vpts(p) \in Nat
BY DEF next_vpts, TypeOK

(* A frame's stamp is an integer.                                          *)
LEMMA VideoNewptsType ==
    ASSUME TypeOK, NEW f \in Nat
    PROVE  video_newpts(f) \in Int
BY DEF video_newpts, TypeOK

-----------------------------------------------------------------------------
(* A nap lasts a number of ticks, on Windows, too.                         *)
LEMMA UsleepType ==
    ASSUME NEW d \in Nat
    PROVE  usleep(d) \in Nat
<1>1. Milli \in Nat \ {0}
  BY TimestampsAssumption
<1>2. d \div Milli \in Nat
  BY <1>1
<1>3. Milli * (d \div Milli) \in Nat
  BY <1>1, <1>2
<1> QED
  BY <1>3 DEF usleep

(* A frame is stored, and may push out the eldest.                         *)
LEMMA StoreKeeps ==
    ASSUME StampInv, source_store
    PROVE  StampInv'
<1>1. tv \div frame_interval \in Nat
  BY NumberType DEF StampInv, TypeOK
<1>2. frames' \in Seq(Nat) /\ Len(frames') <= PoolSize
  <2> DEFINE rest == IF Len(frames) = PoolSize THEN Tail(frames) ELSE frames
  <2>1. rest \in Seq(Nat) /\ Len(rest) < PoolSize
    BY TimestampsAssumption DEF StampInv, TypeOK
  <2>2. frames' = Append(rest, tv \div frame_interval)
    BY DEF source_store
  <2> HIDE DEF rest
  <2> QED
    BY <2>1, <2>2, <1>1, TimestampsAssumption
<1>3. nap' \in Nat
  <2>1. frame_interval \in Nat
    BY IntervalType DEF StampInv
  <2>2. now - tv \in Int
    BY DEF StampInv, TypeOK
  <2>3. ga_usleep(now - tv) \in Nat
    BY <2>1, <2>2 DEF ga_usleep
  <2> QED
    BY <2>3, UsleepType DEF source_store
<1> QED
  BY <1>2, <1>3 DEF source_store, StampInv, TypeOK, clockVars, syncVars, videoVars,
     videoLocals, audioVars, audioLocals

(* The stamp of a frame that is encoded is later than the last one.        *)
LEMMA VideoKeeps ==
    ASSUME StampInv, video_frame
    PROVE  StampInv' /\ vpts' > vpts
<1>0. TypeOK
  BY DEF StampInv
<1>1. Head(frames) \in Nat /\ Tail(frames) \in Seq(Nat) /\ Len(Tail(frames)) <= PoolSize
  BY TimestampsAssumption DEF video_frame, StampInv, TypeOK
<1>2. CASE basePts = -1
  <2>1. vptsSync' \in Nat
    BY <1>2, <1>0, SyncType, RateType DEF video_frame
  <2>2. vpts' \in Nat /\ vpts' > vpts
    BY <2>1, <1>2, <1>0, NextStamp DEF video_frame
  <2>3. age' \in Int
    <3>1. now \div frame_interval \in Nat
      BY <1>0, NumberType DEF TypeOK
    <3> QED
      BY <3>1, <1>1, <1>2 DEF video_frame
  <2>4. sync_reset' \in BOOLEAN /\ synctv' \in Nat
    BY <1>2 DEF video_frame, sync_starts, StampInv, TypeOK
  <2> QED
    BY SMTT(30), <1>1, <1>2, <2>1, <2>2, <2>3, <2>4 DEF video_frame, StampInv, TypeOK, clockVars,
       sourceVars, audioVars, audioLocals
<1>3. CASE basePts # -1
  <2>1. vpts' \in Nat /\ vpts' > vpts
    BY <1>1, <1>3, <1>0, VideoNewptsType, NextStamp DEF video_frame
  <2> QED
    BY <1>1, <1>3, <2>1 DEF video_frame, StampInv, TypeOK, clockVars,
       sourceVars, audioVars, audioLocals
<1> QED
  BY <1>2, <1>3

(* A packet begins where the one before it ended, or later.                *)
LEMMA AudioKeeps ==
    ASSUME StampInv, NEW r \in 1..frame_size - nsamples, audio_read(r)
    PROVE  StampInv' /\ (nsamples' = 0 /\ alast # -1 => alast' >= alast + frame_size)
<1>0. TypeOK /\ r \in Nat /\ frame_size \in Nat \ {0} /\ Second \in Nat \ {0}
  BY TimestampsAssumption DEF StampInv, TypeOK
<1>1. Stamped(r) \in Nat /\ (apts # -1 => Stamped(r) >= apts)
  BY <1>0, StampedType
<1>2. sound' \in 0..BufSize * Second
  <2>1. r * Second \in Nat /\ BufSize * Second \in Nat
    BY <1>0, TimestampsAssumption
  <2> QED
    BY SMTT(30), <2>1, <1>0 DEF audio_read, TypeOK
<1>3. /\ baseT' \in Nat /\ aptsSync' \in Nat /\ ptsOffset' \in Nat
      /\ sync_reset' \in BOOLEAN /\ synctv' \in Nat
  BY <1>0, SyncType, RateType DEF audio_read, audio_stamp, sync_starts, TypeOK
<1>4. /\ apts' \in Nat /\ alast' \in Nat \cup {-1} /\ nsamples' \in 0..frame_size - 1
      /\ alast' # -1 => apts' >= alast' + frame_size
      /\ nsamples' = 0 /\ alast # -1 => alast' >= alast + frame_size
  <2>1. CASE nsamples + r = frame_size
    BY <1>0, <1>1, <2>1 DEF audio_read, StampInv, TypeOK
  <2>2. CASE nsamples + r # frame_size
    <3>1. apts' = Stamped(r) /\ alast' = alast /\ nsamples' = nsamples + r
      BY <2>2 DEF audio_read
    <3>2. nsamples + r \in 1..frame_size - 1
      BY <1>0, <2>2 DEF TypeOK
    <3> QED
      BY <1>0, <1>1, <3>1, <3>2 DEF StampInv, TypeOK
  <2> QED
    BY <2>1, <2>2
<1>5. TypeOK'
  BY <1>0, <1>2, <1>3, <1>4 DEF audio_read, TypeOK, clockVars, sourceVars, videoVars, videoLocals
<1> QED
  BY <1>4, <1>5 DEF audio_read, StampInv

(* Time passes, and brings sound to an encoder that reads.                 *)
LEMMA TickKeeps ==
    ASSUME StampInv, tick
    PROVE  StampInv' /\ (audioAt = "loop" => sound' >= sound)
<1>1. BufSize * Second \in Nat /\ conf.audio_samplerate \in Nat
  BY RateType, TimestampsAssumption DEF StampInv
<1>2. sound' \in 0..BufSize * Second /\ (audioAt = "loop" => sound' >= sound)
  BY <1>1, SMTT(30) DEF tick, Smaller, StampInv, TypeOK
<1>3. now' \in Nat /\ nap' \in Nat
  BY DEF tick, StampInv, TypeOK
<1> QED
  BY <1>2, <1>3 DEF tick, StampInv, TypeOK, syncVars, videoVars, videoLocals, audioVars, audioLocals

(* Every step of the thread, of the clock or of a session keeps it.        *)
LEMMA StampInvStep ==
    ASSUME StampInv, [Next]_vars
    PROVE  StampInv'
<1> USE DEF StampInv, TypeOK, clockVars, syncVars, sourceVars, videoVars, videoLocals,
        audioVars, audioLocals
<1>1. CASE tick
  BY <1>1, TickKeeps
<1>2. CASE settimeofday
  BY <1>2, TimestampsAssumption DEF settimeofday
<1>3. CASE launch
  BY <1>3 DEF launch
<1>4. CASE stop
  BY ZenonT(40), <1>4 DEF stop
<1>5. CASE join
  BY <1>5 DEF join
<1>6. CASE source_capture
  BY <1>6 DEF source_capture
<1>7. CASE source_store
  BY <1>7, StoreKeeps
<1>8. CASE source_wake
  BY <1>8 DEF source_wake
<1>9. CASE video_frame
  BY <1>9, VideoKeeps
<1>10. CASE video_quit
  <2>1. /\ UNCHANGED <<conf, now, adjusted, session, threadLaunched, sync_reset, synctv>>
        /\ UNCHANGED <<sourceAt, tv, nap, frames, sound>>
        /\ UNCHANGED <<audioAt, baseT, aptsSync, ptsOffset, apts, nsamples, alast>>
        /\ videoRuns' = FALSE /\ basePts' = -1 /\ vptsSync' = 0 /\ vpts' = -1 /\ age' = 0
    BY <1>10 DEF video_quit
  <2>2. basePts' \in Nat \cup {-1} /\ vptsSync' \in Nat /\ vpts' \in Nat \cup {-1}
        /\ age' \in Int /\ (basePts' = -1 <=> vpts' = -1)
    BY <2>1
  <2>3. TypeOK'
    BY <2>1, <2>2, ZenonT(30)
  <2> QED
    BY <2>1, <2>3
<1>11. CASE audio_register
  BY <1>11, TimestampsAssumption DEF audio_register
<1>12. CASE \E r \in 1..frame_size - nsamples : audio_read(r)
  BY <1>12, AudioKeeps
<1>13. CASE audio_quit
  BY <1>13, TimestampsAssumption DEF audio_quit
<1>14. CASE UNCHANGED vars
  BY <1>14 DEF vars
<1> QED
  BY <1>1, <1>2, <1>3, <1>4, <1>5, <1>6, <1>7, <1>8, <1>9, <1>10, <1>11, <1>12, <1>13, <1>14
     DEF Next

(* Nothing has a stamp at first.                                           *)
LEMMA StampInvInit ==
    ASSUME Init
    PROVE  StampInv
<1>1. 0 \in 0..BufSize * Second
  <2>1. BufSize \in Nat /\ Second \in Nat
    BY TimestampsAssumption
  <2>2. BufSize * Second \in Nat
    BY <2>1
  <2> QED
    BY <2>2
<1>2. frames \in Seq(Nat) /\ Len(frames) <= PoolSize
  BY TimestampsAssumption DEF Init
<1>3. nsamples \in 0..frame_size - 1
  BY TimestampsAssumption DEF Init
<1>4. basePts \in Nat \cup {-1} /\ vpts \in Nat \cup {-1} /\ (basePts = -1 <=> vpts = -1)
  BY DEF Init
<1>5. apts \in Nat \cup {-1} /\ alast \in Nat \cup {-1} /\ age \in Int
  BY DEF Init
<1> QED
  BY <1>1, <1>2, <1>3, <1>4, <1>5 DEF Init, StampInv, TypeOK

(***************************************************************************)
(* The variables of the capture thread and of both encoders have their     *)
(* types, and the next audio stamp is a packet after the last one, in      *)
(* every session and whatever the clock does.                              *)
(***************************************************************************)
THEOREM StampsCorrect == Spec => []StampInv
<1>1. Init => StampInv
  BY StampInvInit
<1>2. StampInv /\ [Next]_vars => StampInv'
  BY StampInvStep
<1> QED
  BY <1>1, <1>2, PTL DEF Spec

(* What StampsIncrease says of a step.                                     *)
Increase ==
    /\ Len(frames') < Len(frames) => vpts' > vpts
    /\ sound' < sound /\ audioAt' = "loop" /\ nsamples' = 0 /\ alast # -1
         => alast' >= alast + frame_size

(* Every step increases the stamps it makes.                               *)
LEMMA IncreaseStep ==
    ASSUME StampInv, Next
    PROVE  Increase
<1> USE DEF StampInv, TypeOK, clockVars, syncVars, sourceVars, videoVars, videoLocals,
        audioVars, audioLocals, Increase
<1>1. CASE tick
  BY <1>1, TickKeeps DEF tick
<1>2. CASE settimeofday
  BY <1>2 DEF settimeofday
<1>3. CASE launch
  BY <1>3 DEF launch
<1>4. CASE stop
  BY <1>4 DEF stop
<1>5. CASE join
  BY <1>5 DEF join
<1>6. CASE source_capture
  BY <1>6 DEF source_capture
<1>7. CASE source_store
  <2>1. ~(Len(frames') < Len(frames))
    <3> DEFINE rest == IF Len(frames) = PoolSize THEN Tail(frames) ELSE frames
    <3>1. rest \in Seq(Nat) /\ Len(rest) >= Len(frames) - 1
      BY TimestampsAssumption
    <3>2. frames' = Append(rest, tv \div frame_interval)
      BY <1>7 DEF source_store
    <3>3. tv \div frame_interval \in Nat
      BY NumberType
    <3> HIDE DEF rest
    <3>4. Len(frames') = Len(rest) + 1
      BY <3>1, <3>2, <3>3
    <3> QED
      BY <3>1, <3>4
  <2> QED
    BY <1>7, <2>1 DEF source_store
<1>8. CASE source_wake
  BY <1>8 DEF source_wake
<1>9. CASE video_frame
  BY <1>9, VideoKeeps DEF video_frame
<1>10. CASE video_quit
  BY <1>10 DEF video_quit
<1>11. CASE audio_register
  BY <1>11 DEF audio_register
<1>12. CASE \E r \in 1..frame_size - nsamples : audio_read(r)
  BY <1>12, AudioKeeps, SMTT(30) DEF audio_read
<1>13. CASE audio_quit
  BY <1>13 DEF audio_quit
<1> QED
  BY <1>1, <1>2, <1>3, <1>4, <1>5, <1>6, <1>7, <1>8, <1>9, <1>10, <1>11, <1>12, <1>13 DEF Next

(***************************************************************************)
(* For every configuration and every behaviour of the clock, time stamps   *)
(* increase within a session, as the encoders' comments demand.            *)
(***************************************************************************)
THEOREM StampsIncreaseCorrect == Spec => StampsIncrease
<1>1. StampInv /\ [Next]_vars => [Increase]_vars
  BY IncreaseStep
<1> QED
  BY <1>1, StampsCorrect, PTL DEF Spec, StampsIncrease, Increase

-----------------------------------------------------------------------------
(***************************************************************************)
(* Time as a number of frames and of samples.                              *)
(***************************************************************************)

(* Division rounds down.                                                   *)
LEMMA DivBounds ==
    ASSUME NEW a \in Nat, NEW b \in Nat \ {0}
    PROVE  /\ a \div b \in Nat
           /\ (a \div b) * b <= a /\ a < (a \div b) * b + b
OBVIOUS

LEMMA MulMonotone ==
    ASSUME NEW a \in Int, NEW b \in Int, NEW c \in Nat, a <= b
    PROVE  a * c <= b * c
OBVIOUS

LEMMA Distribute ==
    ASSUME NEW a \in Int, NEW b \in Int, NEW c \in Int
    PROVE  (a + b) * c = a * c + b * c /\ (a - b) * c = a * c - b * c
OBVIOUS

(* A quotient is the largest number that goes into the dividend.           *)
LEMMA DivLargest ==
    ASSUME NEW a \in Nat, NEW b \in Nat \ {0}, NEW x \in Int, x * b <= a
    PROVE  x <= a \div b
<1>1. a \div b \in Nat /\ a < (a \div b) * b + b
  BY DivBounds
<1>2. SUFFICES ASSUME x > a \div b PROVE FALSE
  BY <1>1
<1>3. ((a \div b) + 1) * b <= x * b
  BY <1>1, <1>2, MulMonotone
<1>4. ((a \div b) + 1) * b = (a \div b) * b + b
  BY <1>1
<1>5. QED
  BY <1>1, <1>3, <1>4

LEMMA DivMonotone ==
    ASSUME NEW a \in Nat, NEW c \in Nat, NEW b \in Nat \ {0}, a <= c
    PROVE  a \div b <= c \div b
<1>1. a \div b \in Nat /\ (a \div b) * b <= a
  BY DivBounds
<1>2. (a \div b) * b <= c
  BY <1>1
<1>3. QED
  BY <1>1, <1>2, DivLargest

LEMMA DivNext ==
    ASSUME NEW a \in Nat, NEW b \in Nat \ {0}
    PROVE  (a + b) \div b = (a \div b) + 1
OBVIOUS

(* Time since a moment that is not later than now, at a rate.              *)
LEMMA ElapsedBounds ==
    ASSUME NEW rate \in Nat, NEW since \in Nat, now \in Nat, since <= now
    PROVE  /\ Elapsed(rate, since) \in Nat
           /\ Elapsed(rate, since) * Second <= (now - since) * rate
           /\ \A x \in Int : x * Second <= (now - since) * rate => x <= Elapsed(rate, since)
<1> DEFINE a == (now - since) * rate
<1>1. Second \in Nat \ {0}
  BY TimestampsAssumption
<1>2. now - since \in Nat
  OBVIOUS
<1>3. a \in Nat
  BY <1>2
<1>4. Elapsed(rate, since) = a \div Second
  BY <1>3 DEF Elapsed, Quotient
<1> HIDE DEF a
<1>5. Elapsed(rate, since) \in Nat /\ Elapsed(rate, since) * Second <= a
  BY <1>1, <1>3, <1>4, DivBounds
<1>6. \A x \in Int : x * Second <= a => x <= Elapsed(rate, since)
  BY <1>1, <1>3, <1>4, DivLargest
<1>7. QED
  BY <1>5, <1>6 DEF a

(* The shared clock, as the encoder that asks for it sees it.              *)
LEMMA SyncBounds ==
    ASSUME TypeOK, NEW rate \in Nat, sync_reset \/ synctv <= now
    PROVE  /\ encoder_pts_sync(rate) \in Nat
           /\ sync_reset => encoder_pts_sync(rate) = 0
           /\ ~sync_reset => encoder_pts_sync(rate) * Second <= (now - synctv) * rate
<1>1. now \in Nat /\ synctv \in Nat
  BY DEF TypeOK
<1>2. CASE sync_reset
  BY <1>2 DEF encoder_pts_sync
<1>3. CASE ~sync_reset
  <2>1. /\ Elapsed(rate, synctv) \in Nat
        /\ Elapsed(rate, synctv) * Second <= (now - synctv) * rate
    BY <1>1, <1>3, ElapsedBounds
  <2>2. encoder_pts_sync(rate) = Elapsed(rate, synctv)
    BY <1>3, <2>1 DEF encoder_pts_sync, Larger
  <2>3. QED
    BY <1>3, <2>1, <2>2
<1>4. QED
  BY <1>2, <1>3

(* Between two moments there is one frame more, at most, than time for it, *)
(* since the number of a frame counts intervals and not frames: an         *)
(* interval is a tick longer than the time of a frame, rounded down.       *)
LEMMA FramesFitTime ==
    ASSUME TypeOK, NEW t \in Nat, NEW u \in Nat, t <= u
    PROVE  ((u \div frame_interval) - (t \div frame_interval) - 1) * Second
           <= (u - t) * conf.video_fps
<1> DEFINE fps == conf.video_fps
           I == frame_interval
           n == u \div I
           m == t \div I
           d == n - m - 1
<1>1. fps \in Nat \ {0} /\ Second \in Nat \ {0} /\ I \in Nat \ {0}
  BY TimestampsAssumption, IntervalType DEF TypeOK
<1>2. I = Second \div fps + 1
  BY DEF frame_interval
<1> HIDE DEF fps, I
<1>3. Second <= I * fps
  <2>1. Second \div fps \in Nat /\ Second < (Second \div fps) * fps + fps
    BY <1>1, DivBounds
  <2>2. I * fps = (Second \div fps) * fps + fps
    BY <1>1, <1>2, <2>1
  <2>3. I * fps \in Nat
    BY <1>1
  <2>4. QED
    BY <1>1, <2>1, <2>2, <2>3
<1>4. /\ n \in Nat /\ n * I <= u
      /\ m \in Nat /\ t < m * I + I
  BY <1>1, DivBounds
<1> HIDE DEF n, m
<1>5. d \in Int /\ d * I <= u - t
  <2>1. d \in Int /\ d * I = n * I - m * I - I
    BY <1>1, <1>4
  <2>2. n * I \in Nat /\ m * I \in Nat
    BY <1>1, <1>4
  <2>3. QED
    BY <1>1, <1>4, <2>1, <2>2
<1> HIDE DEF d
<1>6. (u - t) * fps \in Nat
  <2>1. u - t \in Nat
    OBVIOUS
  <2>2. QED
    BY <1>1, <2>1
<1>7. CASE d < 0
  <2>1. d * Second <= 0 * Second
    BY <1>1, <1>5, <1>7, MulMonotone
  <2>2. d * Second \in Int
    BY <1>1, <1>5
  <2>3. QED
    BY <1>1, <1>6, <2>1, <2>2 DEF fps, d, n, m, I
<1>8. CASE d >= 0
  <2>1. (d * I) * fps <= (u - t) * fps
    BY <1>1, <1>5, MulMonotone
  <2>2. Second * d <= (I * fps) * d
    BY <1>1, <1>3, <1>5, <1>8, MulMonotone
  <2>3. Second * d = d * Second /\ (I * fps) * d = (d * I) * fps
    BY <1>1, <1>5
  <2>4. d * Second \in Int /\ (d * I) * fps \in Int
    BY <1>1, <1>5
  <2>5. QED
    BY <1>6, <2>1, <2>2, <2>3, <2>4 DEF fps, d, n, m, I
<1>9. QED
  BY <1>5, <1>7, <1>8

-----------------------------------------------------------------------------
(***************************************************************************)
(* Streams and their clock, while nobody sets it back.                     *)
(***************************************************************************)

(* The clock is armed only when neither encoder has a stream, and starts   *)
(* in the past; the video stream has an age when it has a frame.           *)
ArmedInv ==
    /\ sync_reset => basePts = -1 /\ apts = -1
    /\ ~videoRuns => basePts = -1
    /\ basePts = -1 => age = 0
    /\ audioAt # "loop" => apts = -1
    /\ ~adjusted => synctv <= now /\ tv <= now

(* The number of the frame that was encoded last.                          *)
LastFrame == vpts - vptsSync + basePts

(* Frames that are captured from now on have number n at least.            *)
Ahead(n) ==
    /\ Below(frames, n)
    /\ basePts # -1 => LastFrame < n

(* Frames are numbered in order, since a turn of the capture thread takes  *)
(* an interval.                                                            *)
SourceInv ==
    ~adjusted /\ ~conf.windows =>
        /\ Ascending(frames)
        /\ basePts # -1 => Above(frames, LastFrame)
        /\ sourceAt = "loop" => Ahead(now \div frame_interval)
        /\ sourceAt = "capture" => Ahead(tv \div frame_interval)
        /\ sourceAt = "sleep" =>
             Ahead((tv + frame_interval) \div frame_interval) /\ tv + frame_interval <= now + nap

(* When the first frame of the session was taken it was as old as age says, *)
(* and the clock had been running for vptsSync frames.                      *)
VideoInv ==
    ~adjusted /\ basePts # -1 =>
        \E t \in Nat : /\ synctv <= t /\ t <= now
                       /\ t \div frame_interval = basePts + age
                       /\ vptsSync * Second <= (t - synctv) * conf.video_fps

(* The sample that is read next would have a stamp that is not ahead of the *)
(* clock by more than the buffer and the packet in hand, the less so the    *)
(* more samples wait.                                                       *)
AudioInv ==
    ~adjusted /\ apts # -1 =>
        /\ synctv <= baseT /\ baseT <= now /\ ptsOffset >= 1
        /\ aptsSync * Second <= (baseT - synctv) * conf.audio_samplerate
        /\ (apts + nsamples) * Second + sound
           <= (now - synctv) * conf.audio_samplerate + (BufSize + frame_size - 1) * Second

ClockInv == ArmedInv /\ SourceInv /\ VideoInv /\ AudioInv

(* Nothing has begun at first.                                             *)
LEMMA ClockInvInit ==
    ASSUME Init
    PROVE  ClockInv
<1>1. Len(frames) = 0 /\ basePts = -1 /\ apts = -1 /\ sync_reset
      /\ synctv = 0 /\ now = 0 /\ tv = 0 /\ sourceAt = "loop" /\ age = 0
  BY DEF Init
<1>2. Ascending(frames) /\ \A n : Below(frames, n)
  BY <1>1 DEF Ascending, Below
<1>3. QED
  BY <1>1, <1>2 DEF ClockInv, ArmedInv, SourceInv, VideoInv, AudioInv, Ahead

(* The clock is armed only between sessions.                               *)
LEMMA ArmedStep ==
    ASSUME TypeOK, ArmedInv, [Next]_vars
    PROVE  ArmedInv'
<1> USE DEF ArmedInv, clockVars, syncVars, sourceVars, videoVars, videoLocals, audioVars,
            audioLocals
<1>0. now \in Nat /\ tv \in Nat /\ synctv \in Nat
  BY DEF TypeOK
<1>1. CASE tick \/ settimeofday
  BY <1>0, <1>1 DEF tick, settimeofday
<1>2. CASE launch \/ stop \/ join \/ audio_register
  BY <1>2 DEF launch, stop, join, audio_register
<1>3. CASE source_capture \/ source_store \/ source_wake
  BY <1>0, <1>3 DEF source_capture, source_store, source_wake
<1>4. CASE video_quit \/ audio_quit \/ UNCHANGED vars
  BY <1>4 DEF video_quit, audio_quit, vars
<1>5. CASE video_frame
  <2>1. /\ videoRuns /\ UNCHANGED <<now, adjusted, tv, audioAt, apts, videoRuns>>
        /\ basePts # -1 => UNCHANGED <<sync_reset, synctv, basePts>>
        /\ basePts # -1 => UNCHANGED age
        /\ basePts = -1 => /\ sync_reset' = FALSE /\ synctv' \in {now, synctv}
                           /\ basePts' = Head(frames)
    BY <1>5 DEF video_frame, sync_starts
  <2>2. Head(frames) \in Nat
    <3>1. frames \in Seq(Nat) /\ frames # <<>>
      BY <1>5 DEF video_frame, TypeOK
    <3>2. QED
      BY <3>1
  <2>3. QED
    BY <1>0, <2>1, <2>2
<1>6. ASSUME NEW r \in 1..frame_size - nsamples, audio_read(r)
      PROVE  ArmedInv'
  <2>1. /\ audioAt = "loop" /\ UNCHANGED <<now, adjusted, tv, audioAt, basePts, age, videoRuns>>
        /\ apts # -1 => UNCHANGED <<sync_reset, synctv>>
        /\ apts = -1 => sync_reset' = FALSE /\ synctv' \in {now, synctv}
    BY <1>6 DEF audio_read, audio_stamp, sync_starts
  <2>2. QED
    BY <1>0, <2>1
<1>7. QED
  BY <1>1, <1>2, <1>3, <1>4, <1>5, <1>6 DEF Next

(* The sound that waits and the stamps that were given keep to the clock.  *)
LEMMA AudioReadKeeps ==
    ASSUME TypeOK, ArmedInv, AudioInv, NEW r \in 1..frame_size - nsamples, audio_read(r)
    PROVE  AudioInv'
<1> DEFINE rate == conf.audio_samplerate
           K == (BufSize + frame_size - 1) * Second
<1>1. /\ rate \in Nat /\ Second \in Nat \ {0} /\ frame_size \in Nat \ {0} /\ BufSize \in Nat
      /\ r \in Nat /\ r >= 1 /\ nsamples \in Nat /\ nsamples <= frame_size - 1
      /\ now \in Nat /\ synctv \in Nat /\ baseT \in Nat /\ aptsSync \in Nat /\ ptsOffset \in Nat
      /\ sound \in Nat /\ sound <= BufSize * Second
  <2>1. frame_size \in Nat \ {0} /\ BufSize \in Nat /\ Second \in Nat \ {0}
    BY TimestampsAssumption
  <2>2. BufSize * Second \in Nat
    BY <2>1
  <2>3. QED
    BY <2>1, <2>2, RateType DEF TypeOK
<1>2. /\ sound' = sound - r * Second
      /\ apts' + nsamples' = Stamped(r) + nsamples + r
      /\ UNCHANGED <<conf, now, adjusted>>
  <2>1. CASE nsamples + r = frame_size
    BY <1>1, <2>1, StampedType DEF audio_read, clockVars
  <2>2. CASE nsamples + r # frame_size
    BY <1>1, <2>2, StampedType DEF audio_read, clockVars
  <2>3. QED
    BY <2>1, <2>2
<1>3. Stamped(r) \in Nat
  BY <1>1, StampedType
<1>4. (apts' + nsamples') * Second + sound' = (Stamped(r) + nsamples) * Second + sound
  <2>1. (Stamped(r) + nsamples + r) * Second = (Stamped(r) + nsamples) * Second + r * Second
    BY <1>1, <1>3, Distribute
  <2>2. r * Second \in Nat /\ (Stamped(r) + nsamples) * Second \in Nat
    BY <1>1, <1>3
  <2>3. QED
    BY <1>1, <1>2, <2>1, <2>2
(* A stamp that keeps to the clock may have a packet in hand after it.     *)
<1>5. ASSUME NEW y \in Nat, Stamped(r) * Second <= y
      PROVE  (Stamped(r) + nsamples) * Second + sound <= y + K
  <2>1. (Stamped(r) + nsamples) * Second = Stamped(r) * Second + nsamples * Second
    BY <1>1, <1>3, Distribute
  <2>2. nsamples * Second <= (frame_size - 1) * Second
    BY <1>1, MulMonotone
  <2>3. K = BufSize * Second + (frame_size - 1) * Second
    BY <1>1, Distribute
  <2>4. /\ BufSize * Second \in Nat /\ (frame_size - 1) * Second \in Nat
        /\ nsamples * Second \in Nat /\ Stamped(r) * Second \in Nat
    BY <1>1, <1>3
  <2> HIDE DEF K
  <2>5. QED
    BY <1>1, <1>5, <2>1, <2>2, <2>3, <2>4
<1> HIDE DEF K
<1>6. SUFFICES ASSUME ~adjusted
               PROVE  /\ synctv' <= baseT' /\ baseT' <= now /\ ptsOffset' >= 1
                      /\ aptsSync' * Second <= (baseT' - synctv') * rate
                      /\ (Stamped(r) + nsamples) * Second + sound
                         <= (now - synctv') * rate + K
  BY <1>2, <1>4 DEF AudioInv, K
<1>7. CASE apts = -1
  <2>1. /\ baseT' = now /\ ptsOffset' = r /\ aptsSync' = encoder_pts_sync(rate)
        /\ Stamped(r) = encoder_pts_sync(rate)
        /\ synctv' = IF sync_reset THEN now ELSE synctv
    BY <1>7 DEF audio_read, audio_stamp, Stamped, sync_starts
  <2>2. synctv <= now
    BY <1>6 DEF ArmedInv
  <2>3. synctv' <= now /\ Stamped(r) * Second <= (now - synctv') * rate
    <3>1. CASE sync_reset
      <4>1. Stamped(r) = 0 /\ synctv' = now
        BY <1>1, <2>1, <3>1, SyncBounds
      <4>2. 0 * Second = 0 /\ (now - now) * rate = 0
        BY <1>1
      <4>3. QED
        BY <1>1, <4>1, <4>2
    <3>2. CASE ~sync_reset
      <4>1. Stamped(r) * Second <= (now - synctv) * rate /\ synctv' = synctv
        BY <1>1, <2>1, <2>2, <3>2, SyncBounds
      <4>2. QED
        BY <2>2, <4>1
    <3>3. QED
      BY <3>1, <3>2
  <2>4. (now - synctv') * rate \in Nat
    <3>1. now - synctv' \in Nat
      BY <1>1, <2>1, <2>2
    <3>2. QED
      BY <1>1, <3>1
  <2>5. QED
    BY <1>1, <1>5, <2>1, <2>3, <2>4
<1>8. CASE apts # -1
  <2>1. UNCHANGED <<baseT, aptsSync, ptsOffset, synctv>> /\ Stamped(r) = next_apts(r)
    BY <1>8 DEF audio_read, audio_stamp, Stamped
  <2>2. /\ synctv <= baseT /\ baseT <= now /\ ptsOffset >= 1
        /\ aptsSync * Second <= (baseT - synctv) * rate
        /\ (apts + nsamples) * Second + sound <= (now - synctv) * rate + K
    BY <1>6, <1>8 DEF AudioInv, K
  <2>3. CASE Stamped(r) = apts
    BY <2>1, <2>2, <2>3
  <2>4. CASE Stamped(r) # apts
    <3>1. Stamped(r) = aptsSync + Elapsed(rate, baseT) - r - ptsOffset
      BY <2>1, <2>4 DEF next_apts, Larger, audio_newpts
    <3>2. Elapsed(rate, baseT) \in Nat /\ Elapsed(rate, baseT) * Second <= (now - baseT) * rate
      BY <1>1, <2>2, ElapsedBounds
    <3> DEFINE e == Elapsed(rate, baseT)
    <3> HIDE DEF e
    <3>3. Stamped(r) * Second <= (aptsSync + e) * Second
      BY <1>1, <1>3, <2>2, <3>1, <3>2, MulMonotone DEF e
    <3>4. (aptsSync + e) * Second = aptsSync * Second + e * Second
      BY <1>1, <3>2, Distribute DEF e
    <3>5. (now - synctv) * rate = (now - baseT) * rate + (baseT - synctv) * rate
      <4>1. now - synctv = (now - baseT) + (baseT - synctv)
        BY <1>1
      <4>2. QED
        BY <1>1, <4>1, Distribute
    <3>6. /\ Stamped(r) * Second \in Nat /\ aptsSync * Second \in Nat /\ e * Second \in Nat
          /\ (now - baseT) * rate \in Int /\ (baseT - synctv) * rate \in Int
      BY <1>1, <1>3, <3>2 DEF e
    <3>7. Stamped(r) * Second <= (now - synctv) * rate /\ (now - synctv) * rate \in Nat
      BY <2>2, <3>2, <3>3, <3>4, <3>5, <3>6 DEF e
    <3>8. QED
      BY <1>5, <2>1, <2>2, <3>7
  <2>5. QED
    BY <2>3, <2>4
<1>9. QED
  BY <1>7, <1>8

(* No step moves an audio stamp ahead of the clock.                        *)
LEMMA AudioStep ==
    ASSUME TypeOK, ArmedInv, AudioInv, [Next]_vars
    PROVE  AudioInv'
<1> USE DEF clockVars, syncVars, sourceVars, videoVars, videoLocals, audioVars, audioLocals
<1>1. CASE tick
  <2> DEFINE rate == conf.audio_samplerate
             K == (BufSize + frame_size - 1) * Second
  <2>1. /\ now' = now + 1 /\ sound' <= sound + rate
        /\ UNCHANGED <<conf, adjusted, synctv, baseT, aptsSync, ptsOffset, apts, nsamples>>
    BY <1>1, RateType, TimestampsAssumption DEF tick, Smaller, TypeOK
  <2>2. (now + 1 - synctv) * rate = (now - synctv) * rate + rate
    <3>1. now + 1 - synctv = (now - synctv) + 1 /\ now \in Nat /\ synctv \in Nat /\ rate \in Nat
      BY RateType DEF TypeOK
    <3>2. QED
      BY <3>1, Distribute
  <2>3. /\ (now - synctv) * rate \in Int /\ K \in Int /\ rate \in Nat
        /\ (apts + nsamples) * Second \in Int /\ sound \in Int /\ sound' \in Int
    <3>1. /\ now \in Nat /\ synctv \in Nat /\ rate \in Nat /\ apts \in Int /\ nsamples \in Int
          /\ Second \in Nat /\ BufSize \in Nat /\ frame_size \in Nat
      BY RateType, TimestampsAssumption DEF TypeOK
    <3>2. BufSize * Second \in Nat
      BY <3>1
    <3>3. sound \in Nat
      BY <3>2 DEF TypeOK
    <3>4. sound' \in Int
      BY <1>1, <3>1, <3>2, <3>3 DEF tick, Smaller
    <3>5. QED
      BY <3>1, <3>3, <3>4
  <2>5. now \in Nat /\ baseT \in Nat /\ synctv \in Nat
    BY DEF TypeOK
  <2>4. ASSUME (apts + nsamples) * Second + sound <= (now - synctv) * rate + K
        PROVE  (apts' + nsamples') * Second + sound' <= (now' - synctv') * rate' + K
    <3> HIDE DEF K
    <3>1. (apts + nsamples) * Second + sound' <= (now - synctv) * rate + rate + K
      BY <2>1, <2>3, <2>4
    <3>2. /\ (now' - synctv') * rate' = (now + 1 - synctv) * rate
          /\ (apts' + nsamples') * Second = (apts + nsamples) * Second
      <4>1. rate' = rate
        <5>1. conf' = conf
          BY <2>1
        <5>2. QED
          BY <5>1
      <4>2. now' - synctv' = now + 1 - synctv
        BY <2>1, <2>5
      <4>3. apts' + nsamples' = apts + nsamples
        BY <2>1
      <4> HIDE DEF rate
      <4>4. QED
        BY <4>1, <4>2, <4>3
    <3> HIDE DEF rate
    <3>3. QED
      BY <2>2, <2>3, <3>1, <3>2
  <2>6. QED
    BY <2>1, <2>4, <2>5 DEF AudioInv
<1>2. CASE settimeofday
  BY <1>2 DEF settimeofday, AudioInv
<1>3. CASE launch \/ stop \/ join
  BY <1>3 DEF launch, stop, join, AudioInv
<1>4. CASE source_capture \/ source_store \/ source_wake \/ video_quit \/ UNCHANGED vars
  BY <1>4 DEF source_capture, source_store, source_wake, video_quit, vars, AudioInv
<1>5. CASE audio_register \/ audio_quit
  <2>1. apts' = -1
    BY <1>5 DEF audio_register, audio_quit, ArmedInv
  <2>2. QED
    BY <2>1 DEF AudioInv
<1>6. CASE video_frame
  <2>1. /\ UNCHANGED <<conf, now, adjusted, baseT, aptsSync, ptsOffset, apts, nsamples, sound>>
        /\ ~sync_reset => UNCHANGED synctv
    BY <1>6 DEF video_frame, sync_starts
  <2>2. apts # -1 => UNCHANGED synctv
    BY <2>1 DEF ArmedInv
  <2>3. QED
    BY <2>1, <2>2 DEF AudioInv
<1>7. QED
  BY <1>1, <1>2, <1>3, <1>4, <1>5, <1>6, AudioReadKeeps DEF Next

(* What the arithmetic of frame numbers needs.                             *)
LEMMA NumberMonotone ==
    ASSUME TypeOK, NEW t \in Nat, NEW u \in Nat, t <= u
    PROVE  /\ t \div frame_interval \in Nat /\ u \div frame_interval \in Nat
           /\ t \div frame_interval <= u \div frame_interval
           /\ (t + frame_interval) \div frame_interval = (t \div frame_interval) + 1
<1> DEFINE I == frame_interval
<1>1. I \in Nat \ {0}
  BY IntervalType
<1> HIDE DEF I
<1>2. t \div I \in Nat /\ u \div I \in Nat /\ t \div I <= u \div I
  BY <1>1, DivBounds, DivMonotone
<1>3. (t + I) \div I = (t \div I) + 1
  BY <1>1, DivNext
<1>4. QED
  BY <1>2, <1>3 DEF I

(* Who is ahead of a number is ahead of larger ones.                       *)
LEMMA AheadMonotone ==
    ASSUME TypeOK, NEW n \in Int, NEW m \in Int, n <= m, Ahead(n)
    PROVE  Ahead(m)
<1>1. \A i \in 1..Len(frames) : frames[i] \in Nat
  BY DEF TypeOK
<1>2. LastFrame \in Int
  BY DEF LastFrame, TypeOK
<1>3. QED
  BY <1>1, <1>2 DEF Ahead, Below

(* The capture thread numbers its frames in order.                         *)
LEMMA StoreInOrder ==
    ASSUME TypeOK, SourceInv, source_store
    PROVE  SourceInv'
<1> DEFINE k == tv \div frame_interval
           rest == IF Len(frames) = PoolSize THEN Tail(frames) ELSE frames
<1>1. /\ frames' = Append(rest, k) /\ nap' = usleep(ga_usleep(now - tv))
      /\ sourceAt = "capture" /\ sourceAt' = "sleep"
      /\ UNCHANGED <<conf, now, adjusted, tv, basePts, vptsSync, vpts>>
  BY DEF source_store, clockVars, videoVars, videoLocals
<1>2. SUFFICES ASSUME ~adjusted, ~conf.windows
               PROVE  /\ Ascending(frames')
                      /\ basePts # -1 => Above(frames', LastFrame)
                      /\ Ahead((tv + frame_interval) \div frame_interval)'
                      /\ tv + frame_interval <= now + nap'
  BY <1>1 DEF SourceInv, LastFrame, frame_interval
<1>3. /\ Ascending(frames) /\ (basePts # -1 => Above(frames, LastFrame)) /\ Ahead(k)
  BY <1>1, <1>2 DEF SourceInv
<1>4. k \in Nat /\ (tv + frame_interval) \div frame_interval = k + 1
  <2>1. tv \in Nat /\ tv <= tv
    BY DEF TypeOK
  <2>2. QED
    BY <2>1, NumberMonotone
<1>5. frames \in Seq(Nat) /\ LastFrame \in Int
  BY DEF TypeOK, LastFrame
<1>6. /\ rest \in Seq(Nat) /\ Ascending(rest) /\ Below(rest, k)
      /\ basePts # -1 => Above(rest, LastFrame) /\ LastFrame < k
  <2>1. CASE rest = frames
    BY <1>3, <1>5, <2>1 DEF Ahead
  <2>2. CASE rest # frames
    <3>1. rest = Tail(frames) /\ frames # <<>>
      <4>1. rest = Tail(frames) /\ Len(frames) = PoolSize
        BY <2>2
      <4>2. QED
        BY <1>5, <4>1, TimestampsAssumption
    <3>2. Tail(frames) \in Seq(Nat)
      BY <1>5, <3>1
    <3> HIDE DEF rest, k
    <3>3. QED
      BY <1>3, <1>4, <1>5, <3>1, <3>2, TailOrdered DEF Ahead
  <2>3. QED
    BY <2>1, <2>2
<1>7. /\ Ascending(frames') /\ Below(frames', k + 1)
      /\ basePts # -1 => Above(frames', LastFrame)
  <2> HIDE DEF rest, k
  <2>1. QED
    BY <1>1, <1>4, <1>5, <1>6, AppendOrdered
<1>8. Ahead((tv + frame_interval) \div frame_interval)'
  <2>1. (LastFrame' = LastFrame) /\ ((tv + frame_interval) \div frame_interval)' = k + 1
    BY <1>1, <1>4 DEF LastFrame, frame_interval
  <2>2. basePts # -1 => LastFrame < k + 1
    <3> HIDE DEF k
    <3>1. QED
      BY <1>4, <1>5, <1>6
  <2> HIDE DEF k
  <2>3. QED
    BY <1>1, <1>7, <2>1, <2>2 DEF Ahead
<1>9. tv + frame_interval <= now + nap'
  <2>1. frame_interval \in Nat /\ tv \in Nat /\ now \in Nat
    BY IntervalType DEF TypeOK
  <2>2. nap' = IF now - tv >= frame_interval THEN 0 ELSE frame_interval - (now - tv)
    BY <1>1, <1>2 DEF usleep, ga_usleep
  <2>3. QED
    BY <2>1, <2>2
<1>10. QED
  BY <1>7, <1>8, <1>9

(* A frame that is taken is the next one.                                  *)
LEMMA FrameInOrder ==
    ASSUME TypeOK, ArmedInv, SourceInv, video_frame
    PROVE  SourceInv'
<1>1. /\ frames # <<>> /\ frames' = Tail(frames)
      /\ UNCHANGED <<conf, now, adjusted, sourceAt, tv, nap>>
  BY DEF video_frame, clockVars, sourceVars
<1>2. /\ frames \in Seq(Nat) /\ Head(frames) \in Nat /\ vpts \in Int /\ vptsSync \in Nat
      /\ basePts \in Int /\ LastFrame \in Int /\ (basePts = -1 <=> vpts = -1)
  BY <1>1 DEF TypeOK, LastFrame
<1>3. SUFFICES ASSUME ~adjusted, ~conf.windows
               PROVE  /\ Ascending(frames') /\ Above(frames', LastFrame')
                      /\ \A n \in Int : Ahead(n) => Ahead(n)'
  <2>1. /\ now \div frame_interval \in Int /\ tv \div frame_interval \in Int
        /\ (tv + frame_interval) \div frame_interval \in Int
    <3>1. now \in Nat /\ tv \in Nat
      BY DEF TypeOK
    <3>2. tv \div frame_interval \in Nat /\ now \div frame_interval \in Nat
          /\ (tv + frame_interval) \div frame_interval = (tv \div frame_interval) + 1
      BY <3>1, NumberMonotone
    <3>3. QED
      BY <3>2
  <2>2. frame_interval' = frame_interval
    BY <1>1 DEF frame_interval
  <2>3. ~adjusted /\ ~conf.windows =>
          /\ sourceAt = "loop" => Ahead(now \div frame_interval)
          /\ sourceAt = "capture" => Ahead(tv \div frame_interval)
          /\ sourceAt = "sleep" =>
               /\ Ahead((tv + frame_interval) \div frame_interval)
               /\ tv + frame_interval <= now + nap
    BY DEF SourceInv
  <2>4. ASSUME ~adjusted, ~conf.windows,
               Ascending(frames'), Above(frames', LastFrame'),
               \A n \in Int : Ahead(n) => Ahead(n)'
        PROVE  /\ sourceAt = "loop" => Ahead(now \div frame_interval)'
               /\ sourceAt = "capture" => Ahead(tv \div frame_interval)'
               /\ sourceAt = "sleep" => Ahead((tv + frame_interval) \div frame_interval)'
    <3>1. sourceAt = "loop" => Ahead(now \div frame_interval)'
      BY <1>1, <2>1, <2>2, <2>3, <2>4
    <3>2. sourceAt = "capture" => Ahead(tv \div frame_interval)'
      BY <1>1, <2>1, <2>2, <2>3, <2>4
    <3>3. sourceAt = "sleep" => Ahead((tv + frame_interval) \div frame_interval)'
      BY <1>1, <2>1, <2>2, <2>3, <2>4
    <3>4. QED
      BY <3>1, <3>2, <3>3
  <2>5. QED
    BY <1>1, <2>2, <2>3, <2>4 DEF SourceInv
<1>4. /\ Ascending(frames) /\ (basePts # -1 => Above(frames, LastFrame))
      /\ Ascending(Tail(frames)) /\ Above(Tail(frames), Head(frames))
      /\ \A n \in Int : Above(frames, n) => n < Head(frames)
      /\ \A n \in Int : Below(frames, n) => Head(frames) < n /\ Below(Tail(frames), n)
  BY <1>1, <1>2, <1>3, TailOrdered DEF SourceInv
<1>5. LastFrame' = Head(frames)
  <2>1. CASE basePts = -1
    <3>1. basePts' = Head(frames) /\ vpts' = next_vpts(vptsSync') /\ vptsSync' \in Nat
      BY <2>1, SyncType, RateType DEF video_frame
    <3>2. vpts' = vptsSync'
      BY <1>2, <2>1, <3>1 DEF next_vpts
    <3>3. QED
      BY <1>2, <3>1, <3>2 DEF LastFrame
  <2>2. CASE basePts # -1
    <3>1. basePts' = basePts /\ vptsSync' = vptsSync /\ vpts' = next_vpts(video_newpts(Head(frames)))
      BY <2>2 DEF video_frame
    <3>2. LastFrame < Head(frames)
      BY <1>2, <1>3, <1>4, <2>2
    <3>3. video_newpts(Head(frames)) = vptsSync + Head(frames) - basePts
      BY DEF video_newpts
    <3>4. vpts' = vptsSync + Head(frames) - basePts
      BY <1>2, <3>1, <3>2, <3>3 DEF next_vpts, LastFrame
    <3>5. QED
      BY <1>2, <3>1, <3>4, SMTT(30) DEF LastFrame
  <2>3. QED
    BY <2>1, <2>2
<1>6. QED
  BY <1>1, <1>2, <1>4, <1>5 DEF Ahead

(* Frames stay in order.                                                   *)
LEMMA SourceStep ==
    ASSUME TypeOK, ArmedInv, SourceInv, [Next]_vars
    PROVE  SourceInv'
<1> USE DEF clockVars, syncVars, sourceVars, videoVars, videoLocals, audioVars, audioLocals
<1>0. now \in Nat /\ tv \in Nat /\ nap \in Nat /\ frame_interval \in Nat \ {0}
  BY IntervalType DEF TypeOK
<1>1. ASSUME UNCHANGED <<conf, now, adjusted, sourceAt, tv, nap, frames, basePts, vptsSync, vpts>>
      PROVE  SourceInv'
  BY <1>1 DEF SourceInv, Ahead, LastFrame, frame_interval
<1>2. CASE tick
  <2>1. /\ now' = now + 1 /\ now + nap <= now' + nap'
        /\ UNCHANGED <<conf, adjusted, sourceAt, tv, frames, basePts, vptsSync, vpts>>
    BY <1>0, <1>2 DEF tick
  <2>2. now \div frame_interval <= now' \div frame_interval
        /\ now \div frame_interval \in Nat /\ now' \div frame_interval \in Nat
    <3>1. now' \in Nat /\ now <= now'
      BY <1>0, <2>1
    <3>2. QED
      BY <1>0, <3>1, NumberMonotone
  <2>3. Ahead(now \div frame_interval) => Ahead(now' \div frame_interval)
    BY <2>2, AheadMonotone
  <2>4. \A n : Ahead(n)' <=> Ahead(n)
    BY <2>1 DEF Ahead, LastFrame
  <2>5. frame_interval' = frame_interval /\ nap' \in Nat
    BY <1>0, <1>2, <2>1 DEF frame_interval, tick
  <2>6. /\ Ahead(now \div frame_interval) => Ahead(now \div frame_interval)'
        /\ Ahead(tv \div frame_interval) => Ahead(tv \div frame_interval)'
        /\ Ahead((tv + frame_interval) \div frame_interval)
             => Ahead((tv + frame_interval) \div frame_interval)'
    BY <2>1, <2>3, <2>4, <2>5
  <2>7. tv + frame_interval <= now + nap => tv + frame_interval <= now' + nap'
    <3>1. tv + frame_interval \in Int /\ now + nap \in Int /\ now' + nap' \in Int
      BY <1>0, <2>1, <2>5
    <3>2. now + nap <= now' + nap'
      BY <2>1
    <3>3. QED
      BY <3>1, <3>2
  <2>8. LastFrame' = LastFrame
    BY <2>1 DEF LastFrame
  <2>9. QED
    BY <2>1, <2>5, <2>6, <2>7, <2>8 DEF SourceInv
<1>3. CASE settimeofday
  BY <1>3 DEF settimeofday, SourceInv
<1>4. CASE launch \/ stop \/ join \/ audio_register \/ audio_quit \/ UNCHANGED vars
  BY <1>1, <1>4 DEF launch, stop, join, audio_register, audio_quit, vars
<1>5. ASSUME NEW r \in 1..frame_size - nsamples, audio_read(r)
      PROVE  SourceInv'
  BY <1>1, <1>5 DEF audio_read
<1>6. CASE source_capture
  <2>1. /\ sourceAt = "loop" /\ sourceAt' = "capture" /\ tv' = now
        /\ UNCHANGED <<conf, now, adjusted, nap, frames, basePts, vptsSync, vpts>>
    BY <1>6 DEF source_capture
  <2>2. QED
    BY <2>1 DEF SourceInv, Ahead, LastFrame, frame_interval
<1>7. CASE source_wake
  <2>1. /\ sourceAt = "sleep" /\ sourceAt' = "loop" /\ nap = 0
        /\ UNCHANGED <<conf, now, adjusted, nap, tv, frames, basePts, vptsSync, vpts>>
    BY <1>7 DEF source_wake
  <2>2. ASSUME tv + frame_interval <= now
        PROVE  Ahead((tv + frame_interval) \div frame_interval) => Ahead(now \div frame_interval)
    <3>1. tv + frame_interval \in Nat
      BY <1>0
    <3>2. /\ (tv + frame_interval) \div frame_interval \in Nat /\ now \div frame_interval \in Nat
          /\ (tv + frame_interval) \div frame_interval <= now \div frame_interval
      BY <1>0, <2>2, <3>1, NumberMonotone
    <3>3. QED
      BY <3>2, AheadMonotone
  <2>3. \A n : Ahead(n)' <=> Ahead(n)
    BY <2>1 DEF Ahead, LastFrame
  <2>4. LastFrame' = LastFrame /\ frame_interval' = frame_interval
    BY <2>1 DEF LastFrame, frame_interval
  <2>5. QED
    BY <1>0, <2>1, <2>2, <2>3, <2>4 DEF SourceInv
<1>8. CASE video_quit
  <2>1. /\ basePts' = -1
        /\ UNCHANGED <<conf, now, adjusted, sourceAt, tv, nap, frames>>
    BY <1>8 DEF video_quit
  <2>2. QED
    BY <2>1 DEF SourceInv, Ahead, frame_interval
<1>9. QED
  BY <1>2, <1>3, <1>4, <1>5, <1>6, <1>7, <1>8, StoreInOrder, FrameInOrder DEF Next

(* The first frame of a session starts the video encoder's clock.          *)
LEMMA VideoStep ==
    ASSUME TypeOK, ArmedInv, VideoInv, [Next]_vars
    PROVE  VideoInv'
<1> USE DEF clockVars, syncVars, sourceVars, videoVars, videoLocals, audioVars, audioLocals
<1>0. now \in Nat /\ synctv \in Nat /\ conf.video_fps \in Nat
  BY RateType DEF TypeOK
<1>1. ASSUME UNCHANGED <<conf, now, adjusted, synctv, basePts, vptsSync, age>>
      PROVE  VideoInv'
  BY <1>1 DEF VideoInv, frame_interval
<1>2. CASE tick
  <2>1. /\ now' = now + 1
        /\ UNCHANGED <<conf, adjusted, synctv, basePts, vptsSync, age>>
    BY <1>2 DEF tick
  <2>2. \A t \in Nat : t <= now => t <= now'
    BY <1>0, <2>1
  <2>3. QED
    BY <2>1, <2>2 DEF VideoInv, frame_interval
<1>3. CASE settimeofday
  BY <1>3 DEF settimeofday, VideoInv
<1>4. CASE launch \/ stop \/ join \/ audio_register \/ audio_quit \/ UNCHANGED vars
  BY <1>1, <1>4 DEF launch, stop, join, audio_register, audio_quit, vars
<1>5. CASE source_capture \/ source_store \/ source_wake
  BY <1>1, <1>5 DEF source_capture, source_store, source_wake
<1>6. CASE video_quit
  BY <1>6 DEF video_quit, VideoInv
<1>7. ASSUME NEW r \in 1..frame_size - nsamples, audio_read(r)
      PROVE  VideoInv'
  <2>1. /\ UNCHANGED <<conf, now, adjusted, basePts, vptsSync, age>>
        /\ sync_reset \/ UNCHANGED synctv
    BY <1>7 DEF audio_read, audio_stamp, sync_starts
  <2>2. CASE UNCHANGED synctv
    BY <1>1, <2>1, <2>2
  <2>3. CASE sync_reset
    BY <2>1, <2>3 DEF ArmedInv, VideoInv
  <2>4. QED
    BY <2>1, <2>2, <2>3
<1>8. CASE video_frame
  <2>1. CASE basePts # -1
    BY <1>1, <1>8, <2>1 DEF video_frame
  <2>2. CASE basePts = -1
    <3>1. /\ basePts' = Head(frames) /\ vptsSync' = encoder_pts_sync(conf.video_fps)
          /\ age' = now \div frame_interval - Head(frames)
          /\ synctv' = IF sync_reset THEN now ELSE synctv
          /\ UNCHANGED <<conf, now, adjusted>>
      BY <1>8, <2>2 DEF video_frame, sync_starts
    <3>2. SUFFICES ASSUME ~adjusted
                   PROVE  /\ synctv' <= now
                          /\ now \div frame_interval = basePts' + age'
                          /\ vptsSync' * Second <= (now - synctv') * conf.video_fps
      BY <1>0, <3>1 DEF VideoInv, frame_interval
    <3>3. synctv <= now
      BY <3>2 DEF ArmedInv
    <3>4. now \div frame_interval = basePts' + age'
      <4>1. now \div frame_interval \in Nat
        BY <1>0, NumberType
      <4>2. frames \in Seq(Nat) /\ frames # <<>>
        BY <1>8 DEF video_frame, TypeOK
      <4>3. Head(frames) \in Nat
        BY <4>2
      <4>4. QED
        BY <3>1, <4>1, <4>3
    <3>5. CASE sync_reset
      <4>1. vptsSync' = 0 /\ synctv' = now
        BY <1>0, <3>1, <3>5, SyncBounds
      <4>2. 0 * Second = 0 /\ (now - now) * conf.video_fps = 0
        BY <1>0, TimestampsAssumption
      <4>3. QED
        BY <1>0, <3>4, <4>1, <4>2
    <3>6. CASE ~sync_reset
      <4>1. synctv' = synctv /\ vptsSync' * Second <= (now - synctv) * conf.video_fps
        BY <1>0, <3>1, <3>3, <3>6, SyncBounds
      <4>2. QED
        BY <3>3, <3>4, <4>1
    <3>7. QED
      BY <3>5, <3>6
  <2>3. QED
    BY <2>1, <2>2
<1>9. QED
  BY <1>2, <1>3, <1>4, <1>5, <1>6, <1>7, <1>8 DEF Next

-----------------------------------------------------------------------------
(* What the invariant says of the audio stamp.                             *)
LEMMA AudioKeepsToClock ==
    ASSUME TypeOK, ClockInv, ~sync_reset, ~adjusted
    PROVE  apts <= AudioClock + BufSize + frame_size - 1
<1> DEFINE rate == conf.audio_samplerate
           k == BufSize + frame_size - 1
<1>1. /\ now \in Nat /\ synctv \in Nat /\ rate \in Nat /\ apts \in Int /\ nsamples \in Nat
      /\ Second \in Nat \ {0} /\ k \in Nat /\ synctv <= now /\ sound \in Nat
      /\ BufSize \in Nat /\ frame_size \in Nat \ {0}
  <2>1. BufSize \in Nat /\ Second \in Nat \ {0} /\ frame_size \in Nat \ {0}
    BY TimestampsAssumption
  <2>2. BufSize * Second \in Nat
    BY <2>1
  <2>3. sound \in Nat /\ nsamples \in Nat
    BY <2>1, <2>2 DEF TypeOK
  <2>4. synctv <= now
    BY DEF ClockInv, ArmedInv
  <2>5. QED
    BY <2>1, <2>3, <2>4, RateType DEF TypeOK
<1>2. AudioClock \in Nat /\ \A x \in Int : x * Second <= (now - synctv) * rate => x <= AudioClock
  BY <1>1, ElapsedBounds DEF AudioClock
<1>3. CASE apts = -1
  BY <1>1, <1>2, <1>3
<1>4. CASE apts # -1
  <2>1. (apts + nsamples) * Second + sound <= (now - synctv) * rate + k * Second
    BY <1>4 DEF ClockInv, AudioInv
  <2> HIDE DEF k, rate
  <2>2. (apts + nsamples) * Second = (apts - k) * Second + (nsamples + k) * Second
    <3>1. apts + nsamples = (apts - k) + (nsamples + k)
      BY <1>1
    <3>2. apts - k \in Int /\ nsamples + k \in Int
      BY <1>1
    <3>3. QED
      BY <1>1, <3>1, <3>2, Distribute
  <2>3. k * Second <= (nsamples + k) * Second
    BY <1>1, MulMonotone
  <2>4. /\ (apts - k) * Second \in Int /\ (nsamples + k) * Second \in Int /\ k * Second \in Int
        /\ (now - synctv) * rate \in Int
    BY <1>1
  <2>5. (apts - k) * Second <= (now - synctv) * rate
    BY <1>1, <2>1, <2>2, <2>3, <2>4
  <2>6. apts - k <= AudioClock
    BY <1>1, <1>2, <2>5
  <2>7. QED
    BY <1>1, <1>2, <2>6 DEF k
<1>5. QED
  BY <1>3, <1>4

(* And of the video stamp: of the last frame, which is not from later than *)
(* now.                                                                    *)
LEMMA VideoKeepsToClock ==
    ASSUME TypeOK, ClockInv, ~sync_reset, ~adjusted, ~conf.windows
    PROVE  vpts <= VideoClock + age + 1
<1> DEFINE fps == conf.video_fps
           n == now \div frame_interval
<1>1. /\ now \in Nat /\ tv \in Nat /\ synctv \in Nat /\ fps \in Nat /\ vpts \in Int /\ vptsSync \in Nat
      /\ Second \in Nat \ {0} /\ synctv <= now /\ tv <= now /\ age \in Int
      /\ basePts \in Int /\ (basePts = -1 <=> vpts = -1)
  BY RateType, TimestampsAssumption DEF TypeOK, ClockInv, ArmedInv
<1>2. VideoClock \in Nat /\ \A x \in Int : x * Second <= (now - synctv) * fps => x <= VideoClock
  BY <1>1, ElapsedBounds DEF VideoClock
<1>3. CASE basePts = -1
  <2>1. vpts = -1 /\ age = 0
    BY <1>1, <1>3 DEF ClockInv, ArmedInv
  <2>2. QED
    BY <1>1, <1>2, <2>1
<1>4. CASE basePts # -1
  <2>1. n \in Nat /\ LastFrame \in Int /\ LastFrame <= n
    <3>1. /\ tv \div frame_interval \in Nat /\ n \in Nat /\ tv \div frame_interval <= n
          /\ (tv + frame_interval) \div frame_interval = (tv \div frame_interval) + 1
      BY <1>1, NumberMonotone
    <3>2. LastFrame \in Int
      BY <1>1 DEF LastFrame
    <3>3. \/ LastFrame < n \/ LastFrame < tv \div frame_interval
          \/ LastFrame < (tv + frame_interval) \div frame_interval
      BY <1>4 DEF ClockInv, SourceInv, Ahead, TypeOK
    <3>4. QED
      BY <3>1, <3>2, <3>3
  <2>2. PICK t \in Nat : /\ synctv <= t /\ t <= now
                         /\ t \div frame_interval = basePts + age
                         /\ vptsSync * Second <= (t - synctv) * fps
    BY <1>4 DEF ClockInv, VideoInv
  <2> DEFINE d == n - (t \div frame_interval) - 1
  <2>3. d * Second <= (now - t) * fps /\ d \in Int
    <3>1. t \div frame_interval \in Nat
      BY NumberType
    <3>2. d * Second <= (now - t) * fps
      BY <1>1, <2>2, FramesFitTime
    <3>3. QED
      BY <2>1, <3>1, <3>2
  <2>4. d = n - (basePts + age) - 1
    BY <2>2
  <2> HIDE DEF d, n, fps
  <2>5. (vptsSync + d) * Second = vptsSync * Second + d * Second
    BY <1>1, <2>3, Distribute
  <2>6. (now - synctv) * fps = (now - t) * fps + (t - synctv) * fps
    <3>1. now - synctv = (now - t) + (t - synctv)
      BY <1>1
    <3>2. QED
      BY <1>1, <3>1, Distribute
  <2>7. /\ vptsSync * Second \in Int /\ d * Second \in Int
        /\ (now - t) * fps \in Int /\ (t - synctv) * fps \in Int
    BY <1>1, <2>3
  <2>8. (vptsSync + d) * Second <= (now - synctv) * fps
    BY <2>2, <2>3, <2>5, <2>6, <2>7
  <2>9. vptsSync + d <= VideoClock
    BY <1>1, <1>2, <2>3, <2>8
  <2>10. vpts <= vptsSync + d + age + 1
    BY <1>1, <2>1, <2>4 DEF LastFrame
  <2>11. QED
    BY <1>1, <1>2, <2>3, <2>9, <2>10
<1>5. QED
  BY <1>3, <1>4

(***************************************************************************)
(* While nobody sets the clock, both streams keep to the clock they share, *)
(* for every frame rate, sample rate and packet size and however late the  *)
(* encoders are: audio by the buffer and the packet in hand, video by the  *)
(* age of the first frame and one frame more, except on Windows            *)
(* (encoder_pts_sync and both encoders).                                   *)
(***************************************************************************)
THEOREM StreamsKeepToClockCorrect ==
    Spec => []StreamsKeepToClock
<1>1. Init => ClockInv
  BY ClockInvInit
<1>2. StampInv /\ ClockInv /\ [Next]_vars => ClockInv'
  BY ArmedStep, SourceStep, VideoStep, AudioStep DEF ClockInv, StampInv
<1>3. StampInv /\ ClockInv => StreamsKeepToClock
  BY AudioKeepsToClock, VideoKeepsToClock DEF StampInv, StreamsKeepToClock
<1>4. QED
  BY <1>1, <1>2, <1>3, StampsCorrect, PTL DEF Spec

=============================================================================
