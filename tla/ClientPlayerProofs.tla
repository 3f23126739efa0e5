------------------------- MODULE ClientPlayerProofs -------------------------
(***************************************************************************)
(* Theorems about ClientPlayer, for any number of buffers, events, media   *)
(* and pictures.                                                           *)
(***************************************************************************)
EXTENDS ClientPlayer, ListLemmas, FiniteSetTheorems

-----------------------------------------------------------------------------
(***************************************************************************)
(* Events in SDL's queue.                                                  *)
(***************************************************************************)
EventKind == {"create", "render", "audio", "text", "quit"}

Places(q, e) == {i \in 1..Len(q) : q[i] = e}
Count(q, e) == Cardinality(Places(q, e))

(* The places of an event are finitely many.                               *)
LEMMA PlacesFinite ==
    ASSUME NEW q \in Seq(EventKind), NEW e
    PROVE  IsFiniteSet(Places(q, e)) /\ Count(q, e) \in Nat
<1>1. Len(q) \in Nat
  OBVIOUS
<1>2. IsFiniteSet(1..Len(q))
  BY <1>1, FS_Interval
<1>3. IsFiniteSet(Places(q, e))
  BY <1>2, FS_Subset DEF Places
<1>4. QED
  BY <1>3, FS_CardinalityType DEF Count

(* There is an event of a kind if and only if its count is positive.       *)
LEMMA CountPositive ==
    ASSUME NEW q \in Seq(EventKind), NEW e
    PROVE  Count(q, e) > 0 <=> \E i \in 1..Len(q) : q[i] = e
<1>1. Count(q, e) = 0 <=> Places(q, e) = {}
  BY PlacesFinite, FS_EmptySet DEF Count
<1>2. Count(q, e) \in Nat
  BY PlacesFinite
<1>3. Places(q, e) # {} <=> \E i \in 1..Len(q) : q[i] = e
  BY DEF Places
<1>4. QED
  BY <1>1, <1>2, <1>3

(* An event that is queued counts.                                         *)
LEMMA CountAppend ==
    ASSUME NEW q \in Seq(EventKind), NEW e, NEW x \in EventKind
    PROVE  Count(Append(q, x), e) = Count(q, e) + (IF x = e THEN 1 ELSE 0)
<1>1. /\ Len(q) \in Nat /\ Len(Append(q, x)) = Len(q) + 1
      /\ \A i \in 1..Len(q) : Append(q, x)[i] = q[i]
      /\ Append(q, x)[Len(q) + 1] = x
  OBVIOUS
<1>2. CASE x = e
  <2>1. Places(Append(q, x), e) = Places(q, e) \cup {Len(q) + 1}
    BY <1>1, <1>2 DEF Places
  <2>2. Len(q) + 1 \notin Places(q, e)
    BY <1>1 DEF Places
  <2>3. QED
    BY <1>2, <2>1, <2>2, PlacesFinite, FS_AddElement DEF Count
<1>3. CASE x # e
  <2>1. Places(Append(q, x), e) = Places(q, e)
    BY <1>1, <1>3 DEF Places
  <2>2. QED
    BY <1>3, <2>1, PlacesFinite DEF Count
<1>4. QED
  BY <1>2, <1>3

(* An event that is taken does not count any more.                         *)
LEMMA CountTail ==
    ASSUME NEW q \in Seq(EventKind), NEW e, q # <<>>
    PROVE  Count(q, e) = Count(Tail(q), e) + (IF Head(q) = e THEN 1 ELSE 0)
<1>1. /\ Len(q) \in Nat /\ Len(q) >= 1 /\ Tail(q) \in Seq(EventKind)
      /\ Len(Tail(q)) = Len(q) - 1 /\ Head(q) = q[1]
      /\ \A i \in 1..Len(q) - 1 : Tail(q)[i] = q[i + 1]
  OBVIOUS
<1> DEFINE Rest == {i \in 2..Len(q) : q[i] = e}
           f == [i \in Places(Tail(q), e) |-> i + 1]
<1>2. Count(Tail(q), e) = Cardinality(Rest) /\ IsFiniteSet(Rest)
  <2>1. \A i \in Places(Tail(q), e) : i \in 1..Len(q) - 1 /\ q[i + 1] = e
    BY <1>1 DEF Places
  <2>2. f \in [Places(Tail(q), e) -> Rest]
    BY <1>1, <2>1
  <2>3. \A r \in Rest : r - 1 \in Places(Tail(q), e) /\ f[r - 1] = r
    BY <1>1 DEF Places
  <2>4. \A i, j \in Places(Tail(q), e) : f[i] = f[j] => i = j
    BY <1>1 DEF Places
  <2>5. f \in Bijection(Places(Tail(q), e), Rest)
    BY <2>2, <2>3, <2>4 DEF Bijection, Injection, Surjection, IsInjective
  <2>6. QED
    <3>1. ExistsBijection(Places(Tail(q), e), Rest)
      BY <2>5 DEF ExistsBijection
    <3>2. IsFiniteSet(Places(Tail(q), e))
      BY <1>1, PlacesFinite
    <3>3. QED
      BY <3>1, <3>2, FS_Bijection DEF Count
<1>3. CASE Head(q) = e
  <2>1. Places(q, e) = Rest \cup {1} /\ 1 \notin Rest
    BY <1>1, <1>3 DEF Places
  <2>2. QED
    <3>1. Cardinality(Rest \cup {1}) = Cardinality(Rest) + 1
      BY <1>2, <2>1, FS_AddElement
    <3>2. QED
      BY <1>2, <1>3, <2>1, <3>1 DEF Count
<1>4. CASE Head(q) # e
  <2>1. Places(q, e) = Rest
    BY <1>1, <1>4 DEF Places
  <2>2. QED
    <3>1. Count(q, e) = Cardinality(Rest) /\ Count(q, e) \in Nat
      BY <2>1, PlacesFinite DEF Count
    <3>2. QED
      BY <1>2, <1>4, <3>1
<1>5. QED
  BY <1>3, <1>4

(* What SDL_PushEvent does to the queue.                                   *)
LEMMA PushCounts ==
    ASSUME TypeOK, NEW x \in EventKind, push_event(x)
    PROVE  /\ events' \in Seq(EventKind) /\ Len(events') <= QueueSize
           /\ lost' \in BOOLEAN /\ (lost => lost')
           /\ Count(events', "render")
              = Count(events, "render")
                + (IF x = "render" /\ Len(events) < QueueSize THEN 1 ELSE 0)
           /\ x = "render" /\ ~lost' => Len(events) < QueueSize
<1>1. events \in Seq(EventKind) /\ Len(events) <= QueueSize /\ lost \in BOOLEAN
  BY DEF TypeOK, EventTypes, EventKind
<1>2. Count(events, "render") \in Nat
  BY <1>1, PlacesFinite
<1>3. QueueSize \in Nat /\ Len(events) \in Nat
  BY <1>1, ClientAssumption
<1>4. /\ events' = IF Len(events) < QueueSize THEN Append(events, x) ELSE events
      /\ lost' = (lost \/ (x = "render" /\ Len(events) = QueueSize))
  BY DEF push_event
<1>5. events' \in Seq(EventKind) /\ Len(events') <= QueueSize
  BY <1>1, <1>3, <1>4
<1>6. /\ lost' \in BOOLEAN
      /\ lost => lost'
      /\ x = "render" /\ ~lost' => Len(events) < QueueSize
  <2>1. x = "render" /\ ~lost' => Len(events) # QueueSize
    BY <1>4, Zenon
  <2>2. lost' \in BOOLEAN /\ (lost => lost')
    BY <1>4, Zenon
  <2>3. QED
    BY <1>1, <1>3, <2>1, <2>2
<1>7. Count(events', "render")
      = Count(events, "render") + (IF x = "render" /\ Len(events) < QueueSize THEN 1 ELSE 0)
  <2>1. CASE Len(events) < QueueSize
    <3>1. events' = Append(events, x)
      BY <1>4, <2>1
    <3>2. QED
      BY <1>1, <2>1, <3>1, CountAppend
  <2>2. CASE ~(Len(events) < QueueSize)
    BY <1>2, <1>4, <2>2
  <2>3. QED
    BY <2>1, <2>2
<1>8. QED
  BY <1>5, <1>6, <1>7

(* What taking an event does.                                              *)
LEMMA TakeCounts ==
    ASSUME TypeOK, NEW x, Next_event(x)
    PROVE  /\ mpc = "event"
           /\ events' \in Seq(EventKind) /\ Len(events') <= QueueSize
           /\ UNCHANGED lost
           /\ Count(events, "render")
              = Count(events', "render") + (IF x = "render" THEN 1 ELSE 0)
           /\ Count(events', "render") \in Nat
<1>1. events \in Seq(EventKind) /\ Len(events) <= QueueSize
  BY DEF TypeOK, EventTypes, EventKind
<1>2. /\ mpc = "event" /\ events # <<>> /\ Head(events) = x /\ events' = Tail(events)
      /\ UNCHANGED lost
  BY DEF Next_event
<1>3. events' \in Seq(EventKind) /\ Len(events') <= QueueSize
  BY <1>1, <1>2, ClientAssumption
<1>4. QED
  BY <1>1, <1>2, <1>3, CountTail, PlacesFinite

-----------------------------------------------------------------------------
(***************************************************************************)
(* Types.                                                                  *)
(***************************************************************************)

(* A SETUP that is awaited is that of a subsession; a picture to be stored *)
(* has a number and a buffer.                                              *)
PlaceInv ==
    /\ rpc = "setup" => sub # 0
    /\ rpc \in {"picture", "store"} => picture # NoPicture
    /\ rpc = "store" => Len(pipe) < PoolSize

(* The live555 thread that sets up the session.                            *)
LEMMA SessionKeepsType ==
    ASSUME TypeOK, PlaceInv, Session
    PROVE  TypeOK' /\ PlaceInv'
<1>1. UNCHANGED restVars
  BY DEF Session, openURL, continueAfterDESCRIBE, continueAfterSETUP, continueAfterPLAY,
         subsessionAfterPlaying, streamTimerHandler
<1>2. ASSUME NEW i \in 1..Len(Media) + 1, setupNextSubsession(i)
      PROVE  /\ sub' \in 0..Len(Media) /\ exited' \in {exited, "error"}
             /\ rpc' \in {rpc, "setup", "play"} /\ (rpc' = "setup" => sub' # 0)
  <2>1. Len(Media) \in Nat
    BY ClientAssumption
  <2>2. ASSUME NEW j \in i..Len(Media), init_decoder(j)
        PROVE  /\ sub' = j /\ j \in 1..Len(Media) /\ exited' \in {exited, "error"}
               /\ rpc' \in {rpc, "setup"}
    BY <2>1, <2>2 DEF init_decoder, exit
  <2>3. QED
    BY <1>2, <2>1, <2>2 DEF setupNextSubsession
<1>3. ASSUME shutdownStream
      PROVE  sinks' = {} /\ exited' = "rtsp" /\ UNCHANGED <<rpc, sub>>
  BY <1>3 DEF shutdownStream, exit
<1>4. /\ rpc \in Waiting \cup {"start"} /\ sub \in 0..Len(Media) /\ sinks \subseteq 1..Len(Media)
      /\ Len(Media) \in Nat
  BY ClientAssumption DEF TypeOK, RtspTypes, Waiting, Session, openURL, continueAfterDESCRIBE,
     continueAfterSETUP, continueAfterPLAY, subsessionAfterPlaying, streamTimerHandler
<1>5. /\ rpc' \in Waiting \cup {"start", "idle"}
      /\ sub' \in 0..Len(Media) /\ sinks' \subseteq 1..Len(Media)
      /\ exited' \in {exited, "rtsp", "error"}
      /\ rpc' = "setup" => sub' # 0
  <2>1. CASE openURL
    BY <1>4, <2>1 DEF openURL, sessionVars, Waiting
  <2>2. CASE continueAfterDESCRIBE
    <3>1. 1 \in 1..Len(Media) + 1
      BY <1>4
    <3>2. CASE setupNextSubsession(1) /\ UNCHANGED sinks
      BY <1>2, <1>4, <2>2, <3>1, <3>2 DEF continueAfterDESCRIBE, Waiting
    <3>3. CASE shutdownStream
      BY <1>3, <1>4, <2>2, <3>3 DEF continueAfterDESCRIBE, Waiting
    <3>4. QED
      BY <2>2, <3>2, <3>3 DEF continueAfterDESCRIBE
  <2>3. CASE continueAfterSETUP
    <3>1. rpc = "setup" /\ sub + 1 \in 1..Len(Media) + 1 /\ setupNextSubsession(sub + 1)
      BY <1>4, <2>3 DEF continueAfterSETUP
    <3>2. sub \in 1..Len(Media)
      BY <1>4, <3>1 DEF PlaceInv
    <3>3. sinks' \subseteq 1..Len(Media)
      BY <1>4, <2>3, <3>2 DEF continueAfterSETUP
    <3>4. QED
      BY <1>2, <1>4, <3>1, <3>3 DEF Waiting
  <2>4. CASE continueAfterPLAY
    BY <1>3, <1>4, <2>4 DEF continueAfterPLAY, sessionVars, Waiting
  <2>5. CASE (\E s \in sinks : subsessionAfterPlaying(s)) \/ streamTimerHandler
    BY <1>3, <1>4, <2>5 DEF subsessionAfterPlaying, streamTimerHandler, Waiting,
       PlaceInv
  <2>6. QED
    BY <2>1, <2>2, <2>3, <2>4, <2>5 DEF Session
<1>6. QED
  BY <1>1, <1>5 DEF TypeOK, RtspTypes, PictureTypes, EventTypes, ThreadTypes, PlaceInv, Waiting, restVars, windowVars, eventVars, mainVars, audioVars, dogVars

(* What the live555 thread does with a packet.                             *)
LEMMA HandlerKeepsRtsp ==
    ASSUME TypeOK, Receive \/ Handler \/ rtsp_ends
    PROVE  RtspTypes'
<1>1. /\ UNCHANGED <<sub, sinks>>
      /\ rpc' \in {"stream", "decode", "picture", "request", "store", "push", "open",
                   "stamp", "ended"}
  BY DEF Receive, Handler, rtsp_ends, play_video, play_audio, play_video_priv,
         picture_decoded, request_window, store_picture, push_render, request_audio,
         stamp_watchdog, keepVideo, keepAudio, sessionVars
<1>2. QED
  BY <1>1 DEF TypeOK, RtspTypes, Waiting

(* A buffer is free for the picture.                                       *)
LEMMA EvictedFits ==
    ASSUME TypeOK
    PROVE  Evicted(pipe) \in Seq(1..MaxPictures) /\ Len(Evicted(pipe)) < PoolSize
<1>1. /\ pipe \in Seq(1..MaxPictures) /\ Len(pipe) <= PoolSize /\ PoolSize \in Nat
      /\ PoolSize >= 2 /\ Held(mhand) \in {0, 1}
  BY ClientAssumption DEF TypeOK, PictureTypes, Held, NoPicture
<1>2. CASE Len(pipe) + Held(mhand) < PoolSize
  BY <1>1, <1>2 DEF Evicted
<1>3. CASE ~(Len(pipe) + Held(mhand) < PoolSize)
  <2>1. pipe # <<>> /\ Evicted(pipe) = Tail(pipe)
    BY <1>1, <1>3 DEF Evicted
  <2>2. QED
    BY <1>1, <2>1
<1>4. QED
  BY <1>2, <1>3

LEMMA HandlerKeepsPictures ==
    ASSUME TypeOK, PlaceInv, Receive \/ Handler \/ rtsp_ends
    PROVE  PictureTypes' /\ PlaceInv'
<1>1. ASSUME UNCHANGED <<picture, windowVars, pipe, mainVars>>, rpc' \notin {"setup", "picture", "store"}
      PROVE  PictureTypes' /\ PlaceInv'
  BY <1>1 DEF TypeOK, PictureTypes, PlaceInv, windowVars, mainVars
<1>2. CASE play_video_priv
  <2>1. picture \in 0..MaxPictures /\ MaxPictures \in Nat
    BY ClientAssumption DEF TypeOK, PictureTypes
  <2>2. picture' \in 0..MaxPictures /\ (rpc' = "picture" => picture' # NoPicture)
        /\ rpc' \in {"picture", "stamp"}
    BY <1>2, <2>1 DEF play_video_priv, NoPicture
  <2>3. QED
    BY <1>2, <2>2
    DEF TypeOK, PictureTypes, PlaceInv, play_video_priv, keepVideo, windowVars, mainVars
<1>3. CASE picture_decoded
  <2>1. pipe' \in Seq(1..MaxPictures) /\ Len(pipe') <= PoolSize
        /\ (rpc' = "store" => Len(pipe') < PoolSize)
    BY <1>3, EvictedFits, ClientAssumption DEF TypeOK, PictureTypes, picture_decoded
  <2>2. QED
    BY <1>3, <2>1
    DEF TypeOK, PictureTypes, PlaceInv, picture_decoded, keepVideo, windowVars, mainVars
<1>4. CASE store_picture
  <2>1. /\ picture \in 1..MaxPictures /\ pipe \in Seq(1..MaxPictures) /\ Len(pipe) < PoolSize
        /\ pipe' = Append(pipe, picture) /\ PoolSize \in Nat /\ MaxPictures \in Nat
    BY <1>4, ClientAssumption DEF store_picture, TypeOK, PictureTypes, PlaceInv, NoPicture
  <2>2. pipe' \in Seq(1..MaxPictures) /\ Len(pipe') <= PoolSize
    BY <2>1
  <2>3. QED
    BY <1>4, <2>2
    DEF TypeOK, PictureTypes, PlaceInv, store_picture, keepVideo, windowVars, mainVars
<1>5. QED
  BY <1>1, <1>2, <1>3, <1>4 
  DEF Receive, Handler, rtsp_ends, play_video, play_audio, request_window, push_render,
      request_audio, stamp_watchdog, restVars, keepVideo, keepAudio

LEMMA HandlerKeepsRest ==
    ASSUME TypeOK, Receive \/ Handler \/ rtsp_ends
    PROVE  EventTypes' /\ ThreadTypes'
<1>1. EventTypes'
  <2>1. CASE UNCHANGED eventVars
    BY <2>1 DEF TypeOK, EventTypes, eventVars
  <2>2. ASSUME NEW x \in EventKind, push_event(x) PROVE EventTypes'
    BY <2>2, PushCounts DEF EventTypes, EventKind
  <2>3. QED
    BY <2>1, <2>2
    DEF Receive, Handler, rtsp_ends, play_video, play_audio, play_video_priv, EventKind,
        picture_decoded, request_window, store_picture, push_render, request_audio,
        stamp_watchdog, restVars
<1>2. ThreadTypes'
  <2>1. /\ UNCHANGED <<mpc, running, quit, apc, wpc, held, exited>>
        /\ audioq' \in 0..MaxAudio /\ idle' \in {idle, 0}
    BY ClientAssumption DEF TypeOK, ThreadTypes,
       Receive, Handler, rtsp_ends, play_video, play_audio, play_video_priv,
       picture_decoded, request_window, store_picture, push_render, request_audio,
       stamp_watchdog, keepVideo, keepAudio, restVars, mainVars, audioVars, dogVars
  <2>2. QED
    BY <2>1, ClientAssumption DEF TypeOK, ThreadTypes
<1>3. QED
  BY <1>1, <1>2

(* What the main thread and the user do.                                   *)
LEMMA MainKeepsPictures ==
    ASSUME TypeOK, PlaceInv, Main \/ user_quits
    PROVE  PictureTypes' /\ RtspTypes' /\ PlaceInv'
<1>1. UNCHANGED <<rpc, sub, sinks, picture>>
  BY DEF Main, user_quits, main_loop, main_exit, arm_watchdog, publish_window, render_release,
         render_image, create_overlay, open_audio, render_text, window_closed, keepMain,
         sessionVars
<1>2. CASE UNCHANGED <<windowVars, pipe, mhand, shown>>
  BY <1>1, <1>2 DEF TypeOK, PictureTypes, RtspTypes, PlaceInv, windowVars
<1>3. CASE publish_window
  <2>1. pipe' \in Seq(1..MaxPictures) /\ Len(pipe') = 0 /\ PoolSize \in Nat /\ PoolSize >= 2
    BY <1>3, ClientAssumption DEF publish_window
  <2>2. surface' \in BOOLEAN /\ windows' \in Nat /\ UNCHANGED <<mhand, shown>>
    BY <1>3 DEF TypeOK, PictureTypes, publish_window
  <2>3. PictureTypes'
    BY <1>1, <2>1, <2>2 DEF TypeOK, PictureTypes
  <2>4. RtspTypes'
    BY <1>1 DEF TypeOK, RtspTypes
  <2>5. PlaceInv'
    BY <1>1, <2>1 DEF PlaceInv
  <2>6. QED
    BY <2>3, <2>4, <2>5
<1>4. CASE render_release
  <2>1. /\ UNCHANGED <<surface, windows, pipe>>
        /\ mhand' \in 0..MaxPictures /\ shown' \in 0..MaxPictures
    BY <1>4, ClientAssumption
    DEF TypeOK, PictureTypes, render_release, NoPicture, windowVars
  <2>2. QED
    BY <1>1, <2>1 DEF TypeOK, PictureTypes, RtspTypes, PlaceInv
<1>5. CASE render_image
  <2>1. pipe \in Seq(1..MaxPictures) /\ Len(pipe) <= PoolSize /\ PoolSize \in Nat
        /\ MaxPictures \in Nat /\ mhand \in 0..MaxPictures
    BY ClientAssumption DEF TypeOK, PictureTypes
  <2>2. /\ pipe' \in Seq(1..MaxPictures) /\ Len(pipe') <= Len(pipe)
        /\ mhand' \in 0..MaxPictures
    <3>1. \/ pipe = <<>> /\ UNCHANGED <<mhand, pipe>>
          \/ pipe # <<>> /\ mhand' = Head(pipe) /\ pipe' = Tail(pipe)
      BY <1>5 DEF render_image, take_picture
    <3>2. ASSUME pipe # <<>>
          PROVE  /\ Head(pipe) \in 1..MaxPictures /\ Tail(pipe) \in Seq(1..MaxPictures)
                 /\ Len(Tail(pipe)) = Len(pipe) - 1 /\ Len(pipe) \in Nat
      BY <2>1, <3>2
    <3>3. CASE pipe = <<>> /\ UNCHANGED <<mhand, pipe>>
      BY <2>1, <3>3
    <3>4. CASE pipe # <<>> /\ mhand' = Head(pipe) /\ pipe' = Tail(pipe)
      <4>1. /\ mhand' \in 1..MaxPictures /\ pipe' \in Seq(1..MaxPictures)
            /\ Len(pipe') = Len(pipe) - 1 /\ Len(pipe) \in Nat
        BY <3>2, <3>4
      <4>2. QED
        BY <2>1, <4>1
    <3>5. QED
      BY <3>1, <3>3, <3>4
  <2>3. Len(pipe') <= PoolSize /\ (Len(pipe) < PoolSize => Len(pipe') < PoolSize)
    BY <2>1, <2>2
  <2>4. UNCHANGED <<surface, windows, shown>>
    BY <1>5 DEF render_image, windowVars
  <2>5. QED
    BY <1>1, <2>2, <2>3, <2>4 DEF TypeOK, PictureTypes, RtspTypes, PlaceInv
<1>6. QED
  BY <1>2, <1>3, <1>4, <1>5
  DEF Main, user_quits, main_loop, main_exit, arm_watchdog, create_overlay, open_audio,
      render_text, window_closed, mainVars

LEMMA MainKeepsRest ==
    ASSUME TypeOK, Main \/ user_quits
    PROVE  EventTypes' /\ ThreadTypes'
<1>1. EventTypes'
  <2>1. CASE UNCHANGED eventVars
    BY <2>1 DEF TypeOK, EventTypes, eventVars
  <2>2. ASSUME push_event("quit") PROVE EventTypes'
    BY <2>2, PushCounts DEF EventTypes, EventKind
  <2>3. ASSUME NEW x, Next_event(x) PROVE EventTypes'
    BY <2>3, TakeCounts DEF TypeOK, EventTypes, EventKind
  <2>4. QED
    BY <2>1, <2>2, <2>3
    DEF Main, user_quits, main_loop, main_exit, arm_watchdog, publish_window, render_release,
        render_image, create_overlay, open_audio, render_text, window_closed
<1>2. ThreadTypes'
  <2>1. UNCHANGED <<audioq, wpc, held>>
    BY DEF Main, user_quits, main_loop, main_exit, arm_watchdog, publish_window, render_release,
           render_image, create_overlay, open_audio, render_text, window_closed, keepMain,
           audioVars, dogVars
  <2>2. mpc' \in {"loop", "event", "create", "arm", "show", "closing"}
    BY DEF TypeOK, ThreadTypes, Main, user_quits, main_loop, main_exit, arm_watchdog,
           publish_window, render_release, render_image, create_overlay, open_audio,
           render_text, window_closed, take_picture, mainVars
  <2>3. running' \in BOOLEAN /\ quit' \in BOOLEAN
    BY DEF TypeOK, ThreadTypes, Main, user_quits, main_loop, main_exit, arm_watchdog,
           publish_window, render_release, render_image, create_overlay, open_audio,
           render_text, window_closed
  <2>4. apc' \in {"none", "idle", "get"} /\ idle' \in {idle, 0}
    BY DEF TypeOK, ThreadTypes, Main, user_quits, main_loop, main_exit, arm_watchdog,
           publish_window, render_release, render_image, create_overlay, open_audio,
           render_text, window_closed, audioVars, dogVars
  <2>5. exited' \in {exited, "main", "error"}
    BY DEF Main, user_quits, main_loop, main_exit, arm_watchdog, exit,
           publish_window, render_release, render_image, create_overlay, open_audio,
           render_text, window_closed
  <2>6. QED
    BY <2>1, <2>2, <2>3, <2>4, <2>5, ClientAssumption DEF TypeOK, ThreadTypes
<1>3. QED
  BY <1>1, <1>2

(* The sound thread and the watchdog.                                      *)
LEMMA OthersKeepType ==
    ASSUME TypeOK, PlaceInv, callback \/ Sound \/ Watchdog \/ watchdog_cancelled
    PROVE  TypeOK' /\ PlaceInv'
<1>1. UNCHANGED <<rpc, sessionVars, picture, windowVars, pipe, mainVars, quit>>
  BY DEF callback, Sound, packet_queue_get, Watchdog, watchdog_check, watchdog_exit,
         watchdog_cancelled, keepSound, keepDog
<1>2. RtspTypes' /\ PictureTypes' /\ PlaceInv'
  BY <1>1 DEF TypeOK, RtspTypes, PictureTypes, PlaceInv, sessionVars, windowVars, mainVars
<1>3. EventTypes'
  <2>1. CASE UNCHANGED eventVars
    BY <2>1 DEF TypeOK, EventTypes, eventVars
  <2>2. ASSUME push_event("text") PROVE EventTypes'
    BY <2>2, PushCounts DEF EventTypes, EventKind
  <2>3. QED
    BY <2>1, <2>2
    DEF callback, Sound, packet_queue_get, Watchdog, watchdog_check, watchdog_exit,
        watchdog_cancelled, keepSound
<1>4. ThreadTypes'
  <2>1. idle' \in -1..IdleMaximum + 1
    <3>1. idle \in -1..IdleMaximum + 1 /\ IdleMaximum \in Nat
      BY ClientAssumption DEF TypeOK, ThreadTypes
    <3>2. CASE UNCHANGED idle
      BY <3>1, <3>2
    <3>3. CASE idle' \in Later
      BY <3>1, <3>3 DEF Later
    <3>4. QED
      BY <3>2, <3>3
      DEF callback, Sound, packet_queue_get, Watchdog, watchdog_check, watchdog_exit,
          watchdog_cancelled, keepSound, dogVars
  <2>2. apc' \in {"none", "idle", "get"} /\ audioq' \in 0..MaxAudio
    BY ClientAssumption
    DEF TypeOK, ThreadTypes, callback, Sound, packet_queue_get, Watchdog, watchdog_check,
        watchdog_exit, watchdog_cancelled, keepDog, audioVars
  <2>3. running' \in BOOLEAN /\ held' \in BOOLEAN
    BY DEF TypeOK, ThreadTypes, callback, Sound, packet_queue_get, Watchdog, watchdog_check,
           watchdog_exit, watchdog_cancelled, keepSound, dogVars
  <2>4. wpc' \in {"watch", "exit", "ended"} /\ exited' \in {exited, "watchdog"}
    BY DEF TypeOK, ThreadTypes, callback, Sound, packet_queue_get, Watchdog, watchdog_check,
           watchdog_exit, watchdog_cancelled, keepSound, dogVars, exit
  <2>5. QED
    BY <1>1, <2>1, <2>2, <2>3, <2>4 DEF TypeOK, ThreadTypes, mainVars
<1>5. QED
  BY <1>2, <1>3, <1>4 DEF TypeOK

(* Every step keeps the types.                                             *)
LEMMA StepKeepsType ==
    ASSUME TypeOK, PlaceInv, [Next]_vars
    PROVE  TypeOK' /\ PlaceInv'
<1>1. CASE UNCHANGED vars
  BY <1>1 DEF vars, sessionVars, windowVars, mainVars, audioVars, dogVars, eventVars, TypeOK,
              RtspTypes, PictureTypes, EventTypes, ThreadTypes, PlaceInv
<1>2. CASE Receive \/ Handler \/ rtsp_ends
  BY <1>2, HandlerKeepsRtsp, HandlerKeepsPictures, HandlerKeepsRest DEF TypeOK
<1>3. CASE Main \/ user_quits
  BY <1>3, MainKeepsPictures, MainKeepsRest DEF TypeOK
<1>4. QED
  BY <1>1, <1>2, <1>3, SessionKeepsType, OthersKeepType DEF Next

-----------------------------------------------------------------------------
(***************************************************************************)
(* Windows, requests and pictures.                                         *)
(***************************************************************************)
Renders == Count(events, "render")

(* One window at most, and no request for it before it is there.           *)
WindowInv ==
    /\ windows = IF surface THEN 1 ELSE 0
    /\ mpc = "create" => ~surface
    /\ Renders > 0 \/ rpc \in {"store", "push"} => surface

(* Every picture in the pipeline has a request.                            *)
RequestInv ==
    lost \/ rpc = "ended" \/ Len(pipe) <= Renders + (IF rpc = "push" THEN 1 ELSE 0)

(* Pictures are in order: the one that is shown, the one that is loaded,   *)
(* those in the pipeline and the one that is decoded.                      *)
Behind(n) == mhand < n /\ shown < n /\ Below(pipe, n)

OrderInv ==
    /\ Ascending(pipe) /\ Above(pipe, shown) /\ Above(pipe, mhand)
    /\ mpc = "show" => shown < mhand
    /\ Behind(picture + 1)
    /\ rpc \in {"picture", "store"} => Behind(picture)

(* The steps that matter to them, and what the others leave alone.         *)
Busy ==
    \/ play_video_priv \/ picture_decoded \/ store_picture \/ push_render
    \/ render_image \/ render_release \/ create_overlay \/ publish_window

Quiet ==
    /\ UNCHANGED <<picture, surface, windows, pipe, mhand, shown>>
    /\ Renders' = Renders /\ (lost => lost')
    /\ rpc' = rpc \/ (rpc' \notin {"picture", "store", "push"} /\ (rpc \in {"push", "ended"} => rpc' = "ended"))
    /\ mpc' = mpc \/ mpc' \notin {"create", "show"}

(* What the live555 thread does else.                                      *)
LEMMA RtspQuiet ==
    ASSUME TypeOK, Session \/ Receive \/ Handler \/ rtsp_ends
    PROVE  Busy \/ Quiet
<1>1. CASE Session
  <2>1. UNCHANGED restVars
    BY <1>1 DEF Session, openURL, continueAfterDESCRIBE, continueAfterSETUP, continueAfterPLAY,
           subsessionAfterPlaying, streamTimerHandler
  <2>2. rpc \in Waiting \cup {"start"} /\ rpc' \in Waiting \cup {"start", "idle"}
    BY <1>1 DEF Session, openURL, continueAfterDESCRIBE, continueAfterSETUP, continueAfterPLAY,
           subsessionAfterPlaying, streamTimerHandler, shutdownStream, setupNextSubsession,
           init_decoder, Waiting
  <2>3. QED
    BY <2>1, <2>2 DEF Quiet, Renders, restVars, windowVars, eventVars, mainVars, Waiting
<1>2. CASE Receive \/ stamp_watchdog \/ rtsp_ends
  BY <1>2 DEF Receive, play_video, play_audio, stamp_watchdog, rtsp_ends, keepVideo, keepAudio,
              restVars, Quiet, Renders, windowVars, eventVars, mainVars
<1>3. CASE request_window \/ request_audio
  <2>1. Renders' = Renders /\ (lost => lost')
    <3>1. CASE UNCHANGED eventVars
      BY <3>1 DEF Renders, eventVars
    <3>2. ASSUME NEW x \in EventKind \ {"render"}, push_event(x)
          PROVE  Renders' = Renders /\ (lost => lost')
      <4>1. Count(events, "render") \in Nat
        BY PlacesFinite DEF TypeOK, EventTypes, EventKind
      <4>2. QED
        BY <3>2, <4>1, PushCounts DEF Renders
    <3>3. QED
      BY <1>3, <3>1, <3>2 DEF request_window, request_audio, EventKind
  <2>2. QED
    BY <1>3, <2>1 DEF request_window, request_audio, keepVideo, keepAudio, Quiet, windowVars,
                      mainVars
<1>4. QED
  BY <1>1, <1>2, <1>3 DEF Handler, Busy

(* What the others do.                                                     *)
LEMMA OthersQuiet ==
    ASSUME TypeOK, Main \/ user_quits \/ callback \/ Sound \/ Watchdog \/ watchdog_cancelled
    PROVE  Busy \/ Quiet
<1>1. Renders \in Nat
  BY PlacesFinite DEF TypeOK, EventTypes, EventKind, Renders
<1>2. CASE main_loop \/ arm_watchdog \/ main_exit \/ callback \/ Sound \/ watchdog_exit
           \/ watchdog_cancelled
  BY <1>2 DEF main_loop, arm_watchdog, main_exit, callback, Sound, packet_queue_get,
              watchdog_exit, watchdog_cancelled, keepMain, keepSound, keepDog, Quiet, Renders,
              windowVars, eventVars, mainVars
<1>3. CASE open_audio \/ render_text \/ window_closed
  <2>1. Renders' = Renders /\ UNCHANGED lost
    BY <1>1, <1>3, TakeCounts DEF open_audio, render_text, window_closed, Renders
  <2>2. QED
    BY <1>3, <2>1 DEF open_audio, render_text, window_closed, keepMain, Quiet, windowVars
<1>4. CASE user_quits \/ watchdog_check
  <2>1. Renders' = Renders /\ (lost => lost')
    <3>1. CASE UNCHANGED eventVars
      BY <3>1 DEF Renders, eventVars
    <3>2. ASSUME NEW x \in EventKind \ {"render"}, push_event(x)
          PROVE  Renders' = Renders /\ (lost => lost')
      BY <1>1, <3>2, PushCounts DEF Renders
    <3>3. QED
      BY <1>4, <3>1, <3>2 DEF user_quits, watchdog_check, EventKind
  <2>2. QED
    BY <1>4, <2>1 DEF user_quits, watchdog_check, keepDog, Quiet, windowVars, mainVars
<1>5. QED
  BY <1>2, <1>3, <1>4 DEF Main, Watchdog, Busy

LEMMA BusyOrQuiet ==
    ASSUME TypeOK, [Next]_vars
    PROVE  Busy \/ Quiet
<1>1. CASE UNCHANGED vars
  BY <1>1 DEF vars, windowVars, eventVars, mainVars, Quiet, Renders
<1>2. QED
  BY <1>1, RtspQuiet, OthersQuiet DEF Next

(* One window at most, and no request for it before it is there.           *)
LEMMA StepKeepsWindow ==
    ASSUME TypeOK, WindowInv, [Next]_vars
    PROVE  WindowInv'
<1>1. Renders \in Nat
  BY PlacesFinite DEF TypeOK, EventTypes, EventKind, Renders
<1>2. CASE Quiet
  BY <1>2 DEF Quiet, WindowInv
<1>3. CASE play_video_priv \/ picture_decoded \/ store_picture \/ render_release
  BY <1>3 DEF play_video_priv, picture_decoded, store_picture, render_release, keepVideo, keepMain,
              windowVars, mainVars, eventVars, WindowInv, Renders
<1>4. CASE push_render
  <2>1. /\ rpc = "push" /\ rpc' = "decode" /\ UNCHANGED <<surface, windows, mpc>>
    BY <1>4 DEF push_render, keepVideo, windowVars, mainVars
  <2>2. QED
    BY <2>1 DEF WindowInv
<1>5. CASE render_image \/ create_overlay
  <2>1. Renders' \in Nat /\ Renders' <= Renders
    BY <1>1, <1>5, TakeCounts DEF render_image, create_overlay, Renders
  <2>2. /\ UNCHANGED <<rpc, surface, windows>>
        /\ mpc' = "create" => ~surface \/ mpc = "create"
    BY <1>5 DEF render_image, create_overlay, take_picture, keepMain, windowVars
  <2>3. Renders' > 0 => Renders > 0
    BY <1>1, <2>1
  <2>4. QED
    BY <2>2, <2>3 DEF WindowInv
<1>6. CASE publish_window
  <2>1. windows = 0 /\ windows' = windows + 1 /\ surface' = TRUE /\ mpc' # "create"
    BY <1>6 DEF publish_window, WindowInv
  <2>2. QED
    BY <2>1 DEF WindowInv
<1>7. QED
  BY <1>2, <1>3, <1>4, <1>5, <1>6, BusyOrQuiet DEF Busy

(* Every picture in the pipeline has a request.                            *)
LEMMA StepKeepsRequest ==
    ASSUME TypeOK, PlaceInv, RequestInv, [Next]_vars
    PROVE  RequestInv'
<1>1. /\ Renders \in Nat /\ pipe \in Seq(1..MaxPictures) /\ Len(pipe) \in Nat
  BY PlacesFinite DEF TypeOK, EventTypes, PictureTypes, EventKind, Renders
<1>2. CASE Quiet
  BY <1>1, <1>2 DEF Quiet, RequestInv
<1>3. CASE play_video_priv
  BY <1>3 DEF play_video_priv, RequestInv, Renders, eventVars
<1>4. CASE picture_decoded
  <2>1. /\ pipe' = pipe \/ pipe' = Evicted(pipe)
        /\ rpc = "picture" /\ rpc' # "push"
        /\ Renders' = Renders /\ lost' = lost
    BY <1>4 DEF picture_decoded, eventVars, Renders
  <2>2. Len(Evicted(pipe)) <= Len(pipe)
    <3>1. CASE Evicted(pipe) = pipe
      BY <1>1, <3>1
    <3>2. CASE Evicted(pipe) # pipe
      <4>1. Evicted(pipe) = Tail(pipe) /\ pipe # <<>>
        <5>1. Evicted(pipe) = Tail(pipe) /\ ~(Len(pipe) + Held(mhand) < PoolSize)
          BY <3>2 DEF Evicted
        <5>2. PoolSize \in Nat /\ PoolSize >= 2 /\ Held(mhand) \in {0, 1}
          BY ClientAssumption DEF Held
        <5>3. QED
          BY <1>1, <5>1, <5>2
      <4>2. QED
        BY <1>1, <4>1
    <3>3. QED
      BY <3>1, <3>2
  <2>3. Len(pipe') \in Nat /\ Len(pipe') <= Len(pipe)
    BY <1>1, <2>1, <2>2, EvictedFits
  <2>4. rpc = "picture" /\ rpc' # "push"
    BY <1>4 DEF picture_decoded
  <2>5. QED
    BY <1>1, <2>1, <2>3, <2>4 DEF RequestInv
<1>5. CASE store_picture
  <2>1. /\ rpc = "store" /\ rpc' = "push" /\ Renders' = Renders /\ lost' = lost
        /\ Len(pipe') = Len(pipe) + 1
    BY <1>1, <1>5 DEF store_picture, eventVars, Renders, TypeOK, PictureTypes, PlaceInv
  <2>2. QED
    BY <1>1, <2>1 DEF RequestInv
<1>6. CASE push_render
  <2>1. rpc = "push" /\ push_event("render") /\ UNCHANGED pipe /\ rpc' = "decode"
    BY <1>6 DEF push_render
  <2>2. /\ lost => lost'
        /\ Renders' = Renders + (IF Len(events) < QueueSize THEN 1 ELSE 0)
        /\ ~lost' => Len(events) < QueueSize
    BY <2>1, PushCounts DEF EventKind, Renders
  <2>3. ASSUME ~lost' PROVE Renders' = Renders + 1 /\ ~lost
    BY <2>2, <2>3
  <2>4. QED
    BY <1>1, <2>1, <2>3 DEF RequestInv
<1>7. CASE render_image
  <2>1. /\ Renders' \in Nat /\ Renders = Renders' + 1 /\ lost' = lost /\ rpc' = rpc
    BY <1>7, TakeCounts DEF render_image, Renders, keepMain
  <2>2. Len(pipe') \in Nat /\ ((pipe = <<>> /\ Len(pipe') = 0) \/ Len(pipe') = Len(pipe) - 1)
    BY <1>1, <1>7 DEF render_image, take_picture
  <2>3. QED
    BY <1>1, <2>1, <2>2 DEF RequestInv
<1>8. CASE render_release
  BY <1>8 DEF render_release, RequestInv, Renders, eventVars, keepMain
<1>9. CASE create_overlay
  <2>1. Renders' = Renders /\ lost' = lost /\ UNCHANGED <<rpc, pipe>>
    BY <1>1, <1>9, TakeCounts DEF create_overlay, Renders, keepMain
  <2>2. QED
    BY <2>1 DEF RequestInv
<1>10. CASE publish_window
  <2>1. Len(pipe') = 0 /\ Renders' = Renders /\ rpc' = rpc
    BY <1>10 DEF publish_window, Renders, eventVars, keepMain
  <2>2. QED
    BY <1>1, <2>1 DEF RequestInv
<1>11. QED
  BY <1>2, <1>3, <1>4, <1>5, <1>6, <1>7, <1>8, <1>9, <1>10, BusyOrQuiet DEF Busy

(* Pictures are in order.                                                  *)
LEMMA StepKeepsOrder ==
    ASSUME TypeOK, PlaceInv, OrderInv, [Next]_vars
    PROVE  OrderInv'
<1>1. /\ pipe \in Seq(Nat) /\ Len(pipe) \in Nat /\ picture \in Nat
      /\ mhand \in Nat /\ shown \in Nat /\ \A i \in 1..Len(pipe) : pipe[i] \in Nat
  <2>1. pipe \in Seq(1..MaxPictures) /\ MaxPictures \in Nat
    BY ClientAssumption DEF TypeOK, PictureTypes
  <2>2. QED
    BY <2>1 DEF TypeOK, PictureTypes
<1>2. CASE Quiet
  BY <1>2 DEF Quiet, OrderInv, Behind
<1>3. CASE push_render
  BY <1>3 DEF push_render, keepVideo, mainVars, OrderInv, Behind
<1>4. CASE create_overlay
  BY <1>4 DEF create_overlay, keepMain, OrderInv, Behind
<1>5. CASE play_video_priv
  <2>1. /\ UNCHANGED <<pipe, mhand, shown, mpc>> /\ rpc' \in {"picture", "stamp"}
        /\ picture' = picture + 1 \/ (picture' = picture /\ rpc' = "stamp")
    BY <1>5 DEF play_video_priv, keepVideo, mainVars
  <2>2. Behind(picture + 1) /\ Behind(picture + 1 + 1)
    BY <1>1 DEF OrderInv, Behind, Below
  <2>3. QED
    BY <2>1, <2>2 DEF OrderInv, Behind
<1>6. CASE picture_decoded
  <2>1. /\ UNCHANGED <<mhand, shown, mpc, picture>> /\ rpc = "picture"
        /\ rpc' \in {"request", "store"} /\ pipe' \in {pipe, Evicted(pipe)}
    BY <1>6 DEF picture_decoded, keepVideo, mainVars
  <2>2. CASE pipe' = pipe
    BY <2>1, <2>2 DEF OrderInv, Behind
  <2>3. CASE pipe' # pipe
    <3>1. pipe' = Tail(pipe) /\ pipe # <<>>
      <4>1. pipe' = Tail(pipe) /\ ~(Len(pipe) + Held(mhand) < PoolSize)
        BY <2>1, <2>3 DEF Evicted
      <4>2. PoolSize \in Nat /\ PoolSize >= 2 /\ Held(mhand) \in {0, 1}
        BY ClientAssumption DEF Held
      <4>3. QED
        BY <1>1, <4>1, <4>2
    <3>2. QED
      BY <1>1, <2>1, <3>1, TailOrdered DEF OrderInv, Behind
  <2>4. QED
    BY <2>2, <2>3
<1>7. CASE store_picture
  <2>1. /\ UNCHANGED <<mhand, shown, mpc, picture>> /\ rpc = "store" /\ rpc' = "push"
        /\ pipe' = Append(pipe, picture)
    BY <1>7 DEF store_picture, keepVideo, mainVars
  <2>2. QED
    BY <1>1, <2>1, AppendOrdered DEF OrderInv, Behind
<1>8. CASE render_image
  <2>1. UNCHANGED <<shown, picture, rpc>>
    BY <1>8 DEF render_image, keepMain
  <2>2. CASE pipe = <<>>
    BY <1>8, <2>1, <2>2 DEF render_image, take_picture, OrderInv, Behind
  <2>3. CASE pipe # <<>>
    <3>1. mhand' = Head(pipe) /\ pipe' = Tail(pipe)
      BY <1>8, <2>3 DEF render_image, take_picture
    <3>2. QED
      BY <1>1, <2>1, <2>3, <3>1, TailOrdered DEF OrderInv, Behind
  <2>4. QED
    BY <2>2, <2>3
<1>9. CASE render_release
  <2>1. /\ mpc = "show" /\ shown' = mhand /\ mhand' = 0 /\ mpc' = "loop" 
        /\ UNCHANGED <<pipe, picture, rpc>>
    BY <1>9 DEF render_release, NoPicture, keepMain
  <2>2. Above(pipe, 0) /\ \A n \in Nat : Behind(n) => 0 < n
    BY <1>1 DEF OrderInv, Above, Behind
  <2>3. QED
    BY <1>1, <2>1, <2>2 DEF OrderInv, Behind
<1>10. CASE publish_window
  <2>1. Len(pipe') = 0 /\ mpc' = "arm" /\ UNCHANGED <<picture, rpc, mhand, shown>>
    BY <1>10 DEF publish_window, keepMain
  <2>2. Ascending(pipe') /\ \A n : Above(pipe', n) /\ Below(pipe', n)
    BY <2>1 DEF Ascending, Above, Below
  <2>3. QED
    BY <2>1, <2>2 DEF OrderInv, Behind
<1>11. QED
  BY <1>2, <1>3, <1>4, <1>5, <1>6, <1>7, <1>8, <1>9, <1>10, BusyOrQuiet DEF Busy

(***************************************************************************)
(* The inductive invariant of the client.                                  *)
(***************************************************************************)
ClientInv == TypeOK /\ PlaceInv /\ WindowInv /\ RequestInv /\ OrderInv

LEMMA InitHolds ==
    Init => ClientInv
<1>1. SUFFICES ASSUME Init PROVE ClientInv
  OBVIOUS
<1>2. /\ QueueSize \in Nat /\ PoolSize \in Nat /\ Len(Media) \in Nat
      /\ MaxPictures \in Nat /\ MaxAudio \in Nat /\ IdleMaximum \in Nat
  BY ClientAssumption
<1>3. /\ events \in Seq(EventKind) /\ Len(events) = 0
      /\ pipe \in Seq(1..MaxPictures) /\ Len(pipe) = 0
  <2>1. events = <<>> /\ pipe = <<>>
    BY <1>1 DEF Init
  <2>2. QED
    BY <2>1
<1>4. RtspTypes
  BY <1>1, <1>2 DEF Init, RtspTypes
<1>5. EventTypes /\ PictureTypes
  <2>1. lost \in BOOLEAN /\ surface \in BOOLEAN /\ windows \in Nat
    BY <1>1 DEF Init
  <2>2. picture \in 0..MaxPictures /\ mhand \in 0..MaxPictures /\ shown \in 0..MaxPictures
    BY <1>1, <1>2 DEF Init, NoPicture
  <2>3. QED
    BY <1>2, <1>3, <2>1, <2>2 DEF EventTypes, PictureTypes, EventKind
<1>6. ThreadTypes
  <2>1. idle \in -1..IdleMaximum + 1 /\ audioq \in 0..MaxAudio
    BY <1>1, <1>2 DEF Init
  <2>2. QED
    BY <1>1, <2>1 DEF Init, ThreadTypes
<1>7. Renders = 0
  <2>1. Places(events, "render") = {}
    BY <1>3 DEF Places
  <2>2. QED
    BY <2>1, FS_EmptySet DEF Renders, Count
<1>8. PlaceInv /\ WindowInv /\ RequestInv
  BY <1>1, <1>2, <1>3, <1>7 DEF Init, PlaceInv, WindowInv, RequestInv
<1>9. OrderInv
  BY <1>1, <1>3 DEF Init, OrderInv, Behind, Ascending, Above, Below, NoPicture
<1>10. QED
  BY <1>4, <1>5, <1>6, <1>8, <1>9 DEF ClientInv, TypeOK

(***************************************************************************)
(* The client's state has its types, its picture pipeline and SDL's queue  *)
(* do not overflow, and the invariant holds, whatever the server sends and *)
(* whatever order the threads run in (client/ga-client.cpp and             *)
(* client/rtspclient.cpp).                                                 *)
(***************************************************************************)
THEOREM ClientCorrect ==
    Spec => []ClientInv
<1>1. Init => ClientInv
  BY InitHolds
<1>2. ClientInv /\ [Next]_vars => ClientInv'
  BY StepKeepsType, StepKeepsWindow, StepKeepsRequest, StepKeepsOrder DEF ClientInv
<1>3. QED
  BY <1>1, <1>2, PTL DEF Spec

(***************************************************************************)
(* One window is made however often one is asked for, and no request to    *)
(* render is queued before it is there (create_overlay and render_image,   *)
(* ga-client.cpp).                                                         *)
(***************************************************************************)
THEOREM OneWindowCorrect ==
    Spec => []OneWindow
<1>1. ClientInv => OneWindow
  <2>1. SUFFICES ASSUME ClientInv PROVE OneWindow
    OBVIOUS
  <2>2. Queued("render") = Renders
    BY DEF Queued, Renders, Count, Places
  <2>3. windows <= 1
    BY <2>1 DEF ClientInv, WindowInv
  <2>4. QED
    BY <2>1, <2>2, <2>3 DEF ClientInv, WindowInv, OneWindow
<1>2. QED
  BY <1>1, ClientCorrect, PTL

(***************************************************************************)
(* The safety part of PicturesShown: a picture that waits in the pipeline  *)
(* has a request that is queued or about to be, unless SDL_PushEvent       *)
(* failed, and pictures are shown in the order in which they were decoded, *)
(* none twice, also when the pipeline drops old ones.                      *)
(***************************************************************************)
THEOREM PicturesInOrderCorrect ==
    Spec => [][EachRequested]_vars /\ [][InOrder]_vars
<1>1. ClientInv' => EachRequested
  BY DEF ClientInv, RequestInv, EachRequested, Requested, Queued, Renders, Count, Places
<1>2. ClientInv /\ [Next]_vars => InOrder
  <2>1. SUFFICES ASSUME ClientInv, [Next]_vars PROVE InOrder
    OBVIOUS
  <2>2. CASE Quiet
    BY <2>2 DEF Quiet, InOrder
  <2>3. CASE render_release
    BY <2>1, <2>3 DEF render_release, ClientInv, OrderInv, InOrder
  <2>4. CASE ~Quiet /\ ~render_release
    <3>1. UNCHANGED shown
      BY <2>1, <2>4, BusyOrQuiet
      DEF ClientInv, Busy, play_video_priv, picture_decoded, store_picture, push_render,
          render_image, create_overlay, publish_window, keepVideo, mainVars
    <3>2. QED
      BY <3>1 DEF InOrder
  <2>5. QED
    BY <2>2, <2>3, <2>4
<1>3. QED
  BY <1>1, <1>2, ClientCorrect, PTL DEF Spec
=============================================================================
