---------------------------- MODULE ClientPlayer ----------------------------
(***************************************************************************)
(* The client: its main thread (client/ga-client.cpp), which owns the      *)
(* windows and the sound device and serves SDL's event queue; the live555  *)
(* thread (client/rtspclient.cpp), which sets up the streams, puts packets *)
(* together, decodes them and asks the main thread for a window, for the   *)
(* sound device and for every picture to be shown; SDL's sound thread,     *)
(* which takes audio packets in its callback; and the watchdog.            *)
(*                                                                         *)
(* There is one video channel.  How packets make a unit for the decoder is *)
(* a choice here, and so is how much sound is left in audiobuf.  Input     *)
(* events go to the controller (CtrlQueue) and are left out.               *)
(***************************************************************************)
EXTENDS Integers, Sequences, FiniteSets

CONSTANTS Media,          \* the subsessions: a sequence of "video" and "audio"
          PoolSize,       \* buffers of the picture pipeline (16 in the code)
          QueueSize,      \* events that SDL's queue holds
          IdleDetection,  \* IDLE_DETECTION_THRESHOLD in watchdog periods
          IdleMaximum,    \* IDLE_MAXIMUM_THRESHOLD in watchdog periods
          HasDuration,    \* the server's SDP may tell a duration
          MaxPictures,    \* bound: pictures decoded
          MaxAudio        \* bound: packets in the audio queue

ASSUME ClientAssumption ==
    /\ Media \in Seq({"video", "audio"})
    /\ PoolSize \in Nat /\ PoolSize >= 2
    /\ QueueSize \in Nat \ {0}
    /\ IdleDetection \in Nat /\ IdleMaximum \in Nat /\ IdleDetection <= IdleMaximum
    /\ HasDuration \in BOOLEAN
    /\ MaxPictures \in Nat /\ MaxAudio \in Nat

NoPicture == 0

VARIABLES
    rpc,        \* where the live555 thread is
    sub,        \* scs.subsession, by its place in Media; 0: NULL
    sinks,      \* the subsessions with a sink
    picture,    \* the number of the last picture decoded
    surface,    \* the window and its pipeline are there
    windows,    \* windows created
    pipe,       \* the pictures stored in the pipeline
    events,     \* SDL's event queue
    lost,       \* SDL_PushEvent has failed for a picture
    mpc,        \* where the main thread is
    mhand,      \* the picture it has loaded
    shown,      \* the picture it has shown last
    running,    \* rtspThreadParam.running
    quit,       \* quitLive555 is set and the threads are cancelled
    apc,        \* where the sound thread is; "none": no device is open
    audioq,     \* packets in the audio queue
    wpc,        \* where the watchdog is
    idle,       \* the watchdog's periods that watchdogTimer is old; -1: it was not set
    held,       \* watchdogMutex is locked for good
    exited      \* "no", or who ended the process

sessionVars == <<sub, sinks>>
windowVars  == <<surface, windows>>
mainVars    == <<mpc, mhand, shown>>
audioVars   == <<apc, audioq>>
dogVars     == <<wpc, idle, held>>
eventVars   == <<events, lost>>
vars == <<rpc, sessionVars, picture, windowVars, pipe, eventVars, mainVars,
          running, quit, audioVars, dogVars, exited>>

audioOpened == apc # "none"
Held(x) == IF x = NoPicture THEN 0 ELSE 1

Waiting == {"describe", "setup", "play", "stream"}    \* in SingleStep

RtspTypes ==
    /\ rpc \in Waiting \cup {"start", "idle", "decode", "picture", "request", "store",
                             "push", "open", "stamp", "ended"}
    /\ sub \in 0..Len(Media)
    /\ sinks \subseteq 1..Len(Media)

PictureTypes ==
    /\ picture \in 0..MaxPictures
    /\ surface \in BOOLEAN /\ windows \in Nat
    /\ pipe \in Seq(1..MaxPictures) /\ Len(pipe) <= PoolSize
    /\ mhand \in 0..MaxPictures /\ shown \in 0..MaxPictures

EventTypes ==
    /\ events \in Seq({"create", "render", "audio", "text", "quit"})
    /\ Len(events) <= QueueSize /\ lost \in BOOLEAN

ThreadTypes ==
    /\ mpc \in {"loop", "event", "create", "arm", "show", "closing"}
    /\ running \in BOOLEAN /\ quit \in BOOLEAN
    /\ apc \in {"none", "idle", "get"} /\ audioq \in 0..MaxAudio
    /\ wpc \in {"watch", "exit", "ended"}
    /\ idle \in -1..IdleMaximum + 1 /\ held \in BOOLEAN
    /\ exited \in {"no", "main", "rtsp", "watchdog", "error"}

TypeOK == RtspTypes /\ PictureTypes /\ EventTypes /\ ThreadTypes

Init ==
    /\ rpc = "start" /\ sub = 0 /\ sinks = {}
    /\ picture = 0
    /\ surface = FALSE /\ windows = 0 /\ pipe = <<>>
    /\ events = <<>> /\ lost = FALSE
    /\ mpc = "loop" /\ mhand = NoPicture /\ shown = 0
    /\ running = TRUE /\ quit = FALSE
    /\ apc = "none" /\ audioq = 0
    /\ wpc = "watch" /\ idle = -1 /\ held = FALSE
    /\ exited = "no"

(* SDL_PushEvent: whether it could queue the event nobody looks at.        *)
push_event(e) ==
    /\ events' = IF Len(events) < QueueSize THEN Append(events, e) ELSE events
    /\ lost' = (lost \/ (e = "render" /\ Len(events) = QueueSize))

exit(who) == exited' = who

-----------------------------------------------------------------------------
(* The live555 thread: setting up the session.                             *)

restVars == <<picture, windowVars, pipe, eventVars, mainVars, running, quit,
              audioVars, dogVars>>

(* Without a client object the event loop runs empty.                      *)
openURL ==
    /\ rpc = "start"
    /\ rpc' \in {"describe", "idle"}
    /\ UNCHANGED <<sessionVars, restVars, exited>>

shutdownStream ==
    /\ sinks' = {}
    /\ exit("rtsp")
    /\ UNCHANGED <<rpc, sub>>

(* A codec that is not there, or does not open, ends the process.          *)
init_decoder(j) ==
    \/ sub' = j /\ rpc' = "setup" /\ UNCHANGED exited
    \/ sub' = j /\ exit("error") /\ UNCHANGED rpc

(* The first subsession from i on that can be initiated; PLAY if there is  *)
(* none.                                                                   *)
setupNextSubsession(i) ==
    \/ \E j \in i..Len(Media) : init_decoder(j)
    \/ sub' = 0 /\ rpc' = "play" /\ UNCHANGED exited

continueAfterDESCRIBE ==
    /\ rpc = "describe" /\ ~quit
    /\ \/ setupNextSubsession(1) /\ UNCHANGED sinks
       \/ shutdownStream
    /\ UNCHANGED restVars

continueAfterSETUP ==
    /\ rpc = "setup" /\ ~quit
    /\ sinks' \in {sinks, sinks \cup {sub}}
    /\ setupNextSubsession(sub + 1)
    /\ UNCHANGED restVars

continueAfterPLAY ==
    /\ rpc = "play" /\ ~quit
    /\ \/ rpc' = "stream" /\ UNCHANGED <<sessionVars, exited>>
       \/ shutdownStream
    /\ UNCHANGED restVars

(* A BYE, or the end of a source.                                          *)
subsessionAfterPlaying(s) ==
    /\ rpc \in Waiting /\ ~quit
    /\ s \in sinks
    /\ IF sinks = {s} THEN shutdownStream
       ELSE sinks' = sinks \ {s} /\ UNCHANGED <<rpc, sub, exited>>
    /\ UNCHANGED restVars

streamTimerHandler ==
    /\ rpc = "stream" /\ ~quit /\ HasDuration
    /\ shutdownStream
    /\ UNCHANGED restVars

-----------------------------------------------------------------------------
(* The live555 thread: a video packet.                                     *)

keepVideo == <<sessionVars, windowVars, mainVars, running, quit, audioVars, dogVars, exited>>

Playing(kind) == \E s \in sinks : Media[s] = kind

(* A packet may complete a unit for the decoder, or start the next one.    *)
(* Packets that come before the response to PLAY are left out: they are    *)
(* handled in the same way, and the thread goes back to that wait.         *)
play_video ==
    /\ rpc = "stream" /\ ~quit
    /\ Playing("video")
    /\ rpc' \in {"decode", "stamp"}
    /\ UNCHANGED <<picture, pipe, eventVars, keepVideo>>

(* The decoder finds pictures in a unit, or fails, or has enough.          *)
play_video_priv ==
    /\ rpc = "decode"
    /\ \/ /\ picture < MaxPictures
          /\ picture' = picture + 1
          /\ rpc' = "picture"
       \/ rpc' = "stamp" /\ UNCHANGED picture
    /\ UNCHANGED <<pipe, eventVars, keepVideo>>

(* The pipeline's allocate_data takes the eldest picture when no buffer is  *)
(* free; main owns one at most, so two buffers suffice.                    *)
Evicted(q) == IF Len(q) + Held(mhand) < PoolSize THEN q ELSE Tail(q)

(* With no window yet, ask for one and skip the picture; else allocate and *)
(* scale into the buffer.                                                  *)
picture_decoded ==
    /\ rpc = "picture"
    /\ \/ ~surface /\ rpc' = "request" /\ UNCHANGED pipe
       \/ surface /\ pipe' = Evicted(pipe) /\ rpc' = "store"
    /\ UNCHANGED <<picture, eventVars, keepVideo>>

request_window ==
    /\ rpc = "request"
    /\ push_event("create")
    /\ rpc' = "decode"
    /\ UNCHANGED <<picture, pipe, keepVideo>>

store_picture ==
    /\ rpc = "store"
    /\ pipe' = Append(pipe, picture)
    /\ rpc' = "push"
    /\ UNCHANGED <<picture, eventVars, keepVideo>>

push_coalesced ==                           \* mutant: one request at a time
    /\ rpc = "push"
    /\ IF \E i \in 1..Len(events) : events[i] = "render"
       THEN UNCHANGED eventVars ELSE push_event("render")
    /\ rpc' = "decode"
    /\ UNCHANGED <<picture, pipe, keepVideo>>

push_render ==
    /\ rpc = "push"
    /\ push_event("render")
    /\ rpc' = "decode"
    /\ UNCHANGED <<picture, pipe, keepVideo>>

-----------------------------------------------------------------------------
(* The live555 thread: an audio packet, and what ends either kind.         *)

keepAudio == <<sessionVars, picture, windowVars, pipe, mainVars, running, quit,
               exited>>

(* The condition variable of the queue is signalled with every packet and  *)
(* waited on while the queue is empty, under its mutex.                    *)
play_audio ==
    /\ rpc = "stream" /\ ~quit
    /\ Playing("audio") /\ audioq < MaxAudio
    /\ audioq' \in {audioq, audioq + 1}         \* av_dup_packet may fail
    /\ rpc' = "open"
    /\ UNCHANGED <<apc, dogVars, eventVars, keepAudio>>

request_audio ==
    /\ rpc = "open"
    /\ IF audioOpened THEN UNCHANGED eventVars ELSE push_event("audio")
    /\ rpc' = "stamp"
    /\ UNCHANGED <<apc, audioq, dogVars, keepAudio>>

stamp_watchdog ==
    /\ rpc = "stamp"
    /\ ~held
    /\ idle' = 0
    /\ rpc' = "stream"
    /\ UNCHANGED <<apc, audioq, wpc, held, eventVars, keepAudio>>

(* The loop ends, or the thread reaches a point where it can be cancelled. *)
rtsp_ends ==
    /\ quit /\ rpc # "ended"
    /\ rpc' = "ended"
    /\ UNCHANGED <<sessionVars, restVars, exited>>

-----------------------------------------------------------------------------
(* The main thread.                                                        *)

keepMain == <<rpc, sessionVars, picture, audioq, wpc, held>>

main_loop ==
    /\ mpc = "loop"
    /\ \/ running /\ mpc' = "event" /\ UNCHANGED quit
       \/ ~running /\ mpc' = "closing" /\ quit' = TRUE
    /\ UNCHANGED <<mhand, shown, windowVars, pipe, eventVars, running, apc, idle, exited, keepMain>>

Next_event(e) ==
    /\ mpc = "event"
    /\ events # <<>> /\ Head(events) = e
    /\ events' = Tail(events)
    /\ UNCHANGED lost

(* The picture to show may have given way to a later one, already shown.   *)
take_picture ==
    \/ pipe = <<>> /\ mpc' = "loop" /\ UNCHANGED <<mhand, pipe>>
    \/ /\ pipe # <<>>
       /\ mhand' = Head(pipe)
       /\ pipe' = Tail(pipe)
       /\ mpc' = "show"

render_image ==
    /\ Next_event("render")
    /\ take_picture
    /\ UNCHANGED <<shown, windowVars, running, quit, apc, idle, exited, keepMain>>

render_release ==
    /\ mpc = "show"
    /\ shown' = mhand
    /\ mhand' = NoPicture
    /\ mpc' = "loop"
    /\ UNCHANGED <<windowVars, pipe, eventVars, running, quit, apc, idle, exited, keepMain>>

create_unasked ==                           \* mutant: duplicates are not looked for
    /\ Next_event("create")
    /\ mpc' = "create"
    /\ UNCHANGED <<mhand, shown, windowVars, pipe, running, quit, apc, idle, exited, keepMain>>

create_overlay ==
    /\ Next_event("create")
    /\ \/ surface /\ mpc' = "loop" /\ UNCHANGED exited
       \/ ~surface /\ mpc' = "create" /\ UNCHANGED exited
       \/ ~surface /\ exit("error") /\ UNCHANGED mpc
    /\ UNCHANGED <<mhand, shown, windowVars, pipe, running, quit, apc, idle, keepMain>>

publish_window ==
    /\ mpc = "create"
    /\ surface' = TRUE /\ windows' = windows + 1
    /\ pipe' = <<>>
    /\ mpc' = "arm"
    /\ UNCHANGED <<mhand, shown, eventVars, running, quit, apc, idle, exited, keepMain>>

arm_watchdog ==
    /\ mpc = "arm"
    /\ ~held
    /\ idle' = 0
    /\ mpc' = "loop"
    /\ UNCHANGED <<mhand, shown, windowVars, pipe, eventVars, running, quit, apc, exited, keepMain>>

(* The device may be open already, or not be opened.                       *)
open_audio ==
    /\ Next_event("audio")
    /\ apc' \in IF audioOpened THEN {apc} ELSE {"none", "idle"}
    /\ mpc' = "loop"
    /\ UNCHANGED <<mhand, shown, windowVars, pipe, running, quit, idle, exited, keepMain>>

render_text ==
    /\ Next_event("text")
    /\ mpc' = "loop"
    /\ UNCHANGED <<mhand, shown, windowVars, pipe, running, quit, apc, idle, exited, keepMain>>

window_closed ==
    /\ Next_event("quit")
    /\ running' = FALSE
    /\ mpc' = "loop"
    /\ UNCHANGED <<mhand, shown, windowVars, pipe, quit, apc, idle, exited, keepMain>>

main_joins ==                               \* mutant: waits for the thread instead of cancelling it
    /\ mpc = "closing"
    /\ apc \in {"none", "idle"} /\ rpc = "ended"
    /\ exit("main")
    /\ UNCHANGED <<mpc, mhand, shown, windowVars, pipe, eventVars, running, quit, apc, idle, keepMain>>

(* SDL_Quit closes the sound device, which waits for its thread to come    *)
(* back from the callback.                                                 *)
main_exit ==
    /\ mpc = "closing"
    /\ apc \in {"none", "idle"}
    /\ exit("main")
    /\ UNCHANGED <<mpc, mhand, shown, windowVars, pipe, eventVars, running, quit, apc, idle, keepMain>>

(* The user closes the window, or interrupts the program.                  *)
user_quits ==
    /\ "quit" \notin {events[i] : i \in 1..Len(events)} /\ running
    /\ Len(events) < QueueSize
    /\ push_event("quit")
    /\ UNCHANGED <<rpc, sessionVars, picture, windowVars, pipe, mainVars, running,
                   quit, audioVars, dogVars, exited>>

-----------------------------------------------------------------------------
(* The sound thread: audio_fill_buffer.                                    *)

keepSound == <<rpc, sessionVars, picture, windowVars, pipe, eventVars, mainVars,
               running, quit, dogVars, exited>>

(* A callback that audiobuf has no data for.                               *)
callback ==
    /\ apc = "idle" /\ mpc # "closing"
    /\ apc' = "get"
    /\ UNCHANGED <<audioq, keepSound>>

(* A packet decodes to enough, or another one is needed; for one that does *)
(* not decode there is silence.                                            *)
packet_queue_get ==
    /\ apc = "get"
    /\ audioq > 0
    /\ audioq' = audioq - 1
    /\ apc' \in {"idle", "get"}
    /\ UNCHANGED keepSound

-----------------------------------------------------------------------------
(* The watchdog.                                                           *)

keepDog == <<rpc, sessionVars, picture, windowVars, pipe, mainVars, quit, audioVars>>

(* A period or, if the watchdog is late, several have passed.              *)
Later == IF idle = -1 THEN {-1} ELSE {i \in 1..IdleMaximum + 1 : i > idle}

watchdog_patient ==                         \* mutant: it warns and warns
    /\ wpc = "watch"
    /\ idle' \in Later
    /\ IF idle' > IdleDetection THEN push_event("text") ELSE UNCHANGED eventVars
    /\ UNCHANGED <<wpc, held, running, exited, keepDog>>

watchdog_check ==
    /\ wpc = "watch"
    /\ idle' \in Later
    /\ \/ /\ idle' > IdleMaximum
          /\ running' = FALSE /\ held' = TRUE /\ wpc' = "exit"
          /\ UNCHANGED eventVars
       \/ /\ idle' \in IdleDetection + 1..IdleMaximum
          /\ push_event("text")
          /\ UNCHANGED <<running, held, wpc>>
       \/ /\ idle' <= IdleDetection
          /\ UNCHANGED <<eventVars, running, held, wpc>>
    /\ UNCHANGED <<exited, keepDog>>

watchdog_exit ==
    /\ wpc = "exit"
    /\ exit("watchdog")
    /\ UNCHANGED <<wpc, idle, held, eventVars, running, keepDog>>

watchdog_cancelled ==
    /\ quit /\ wpc # "ended"
    /\ wpc' = "ended"
    /\ UNCHANGED <<idle, held, eventVars, running, exited, keepDog>>

Session ==
    \/ openURL \/ continueAfterDESCRIBE \/ continueAfterSETUP \/ continueAfterPLAY
    \/ \E s \in sinks : subsessionAfterPlaying(s)
    \/ streamTimerHandler

Receive == play_video \/ play_audio

Handler ==
    \/ play_video_priv \/ picture_decoded \/ request_window
    \/ store_picture \/ push_render
    \/ request_audio \/ stamp_watchdog

Main ==
    \/ main_loop \/ render_image \/ render_release
    \/ create_overlay \/ publish_window \/ arm_watchdog
    \/ open_audio \/ render_text \/ window_closed \/ main_exit

Sound == packet_queue_get

Watchdog == watchdog_check \/ watchdog_exit

Next ==
    /\ exited = "no"
    /\ \/ Session \/ Receive \/ Handler \/ rtsp_ends
       \/ Main \/ user_quits
       \/ callback \/ Sound
       \/ Watchdog \/ watchdog_cancelled

Spec == Init /\ [][Next]_vars

(***************************************************************************)
(* A thread that can go on does, and time passes.  Nothing is assumed of   *)
(* the server, the user and the sound device: that packets come, that a    *)
(* request is answered, or that a callback is made.                        *)
(***************************************************************************)
Alive(A) == exited = "no" /\ A

Fairness ==
    /\ WF_vars(Alive(Handler)) /\ WF_vars(Alive(Main)) /\ WF_vars(Alive(Sound))
    /\ WF_vars(Alive(Watchdog))

FairSpec == Spec /\ Fairness

-----------------------------------------------------------------------------
Queued(e) == Cardinality({i \in 1..Len(events) : events[i] = e})

(***************************************************************************)
(* However many pictures are decoded before the first window is there, and *)
(* however often it was asked for, one window is made (create_overlay);    *)
(* and no request to render is queued before it is, since the main thread  *)
(* uses the texture and renderer without looking whether they are there    *)
(* (render_image).                                                         *)
(***************************************************************************)
OneWindow ==
    /\ windows <= 1
    /\ Queued("render") > 0 \/ rpc \in {"store", "push"} => surface

(***************************************************************************)
(* A picture that was stored is shown, or gives way to later ones, though  *)
(* the stream may stop right after it: each request shows one picture, and *)
(* every picture in the pipeline has a request that is queued or about to  *)
(* be, unless SDL_PushEvent failed.  Pictures are shown in the order in    *)
(* which they were decoded, none twice.                                    *)
(***************************************************************************)
Requested == Queued("render") + (IF rpc = "push" THEN 1 ELSE 0)

EachRequested == ~lost' /\ rpc' # "ended" => Len(pipe') <= Requested'
InOrder       == shown' # shown => shown' > shown

PicturesShown ==
    /\ [][EachRequested]_vars
    /\ [][InOrder]_vars
    /\ []<>(pipe = <<>> \/ lost \/ ~running \/ exited # "no")

(***************************************************************************)
(* SDL_Quit waits for the sound thread, which waits for an audio packet in *)
(* its callback: nobody will wake it.                                      *)
(***************************************************************************)
Hangs == mpc = "closing" /\ apc = "get" /\ audioq = 0

(***************************************************************************)
(* A client that got a packet or a window and then gets nothing more ends  *)
(* (watchdog_thread), whatever its threads are doing, or hangs: without    *)
(* that way out the property does not hold.                                *)
(***************************************************************************)
StalledClientEnds == []<>(idle <= IdleMaximum \/ Hangs \/ exited # "no")

(***************************************************************************)
(* Once the window is closed or the watchdog gives up, the process ends    *)
(* (or hangs), whatever the other threads are doing.                       *)
(***************************************************************************)
QuitEnds == ~running ~> exited # "no" \/ Hangs
=============================================================================
