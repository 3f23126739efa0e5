---------------------------- MODULE ServerStart ----------------------------
(***************************************************************************)
(* The main program of the periodic server, from its configuration file to *)
(* the threads that serve (server/periodic/ga-server-periodic.cpp with     *)
(* core/rtspconf.cpp, core/ga-module.cpp, core/vsource.cpp, the registry   *)
(* of core/pipeline.cpp, and the init functions of the modules).  main     *)
(* does one thing after the other; the threads it starts look up the pipes *)
(* that init functions have registered, while main goes on.  The client's  *)
(* main (client/ga-client.cpp) begins with the same two steps, and is      *)
(* followed up to its three threads; what they do is in ClientPlayer and   *)
(* CtrlConnection.                                                         *)
(*                                                                         *)
(* Once source and filter run, the source's pool of frames is in use       *)
(* (Pipeline), and each frame is filled by a capture (ScreenCapture).  The *)
(* variables of Pipeline have the values of its Init from the start: the   *)
(* pool exists once vsource_init has made it, and nothing uses it before   *)
(* the threads run.                                                        *)
(***************************************************************************)
EXTENDS ConfigStore, InputReplay, SoundDevice, Pipeline

CONSTANTS Machines,    \* the machines the program may be started on
          Desktops,    \* the windows there may be, in the order FindWindowX meets them
          Required,    \* options rtspconf_parse does not do without
          Invalid,     \* a value out of range, unsupported, or "false"
          codecs,      \* the names of codecs that a value lists
          Encoders, Decoders,   \* the names of codecs that are there
          Hosts        \* the names of hosts that can be resolved

ASSUME StartAssumption ==
    /\ Required \cup {"control-enabled", "control-port", "display",
                     "find-window-name", "video-specific", "video-encoder", "video-decoder",
                     "audio-encoder", "audio-decoder"} \subseteq Option
    /\ Invalid \in Value
    /\ codecs \in [Value -> Seq(STRING)]

(* Screens are not empty, and their positions fit the 16 bits of a         *)
(* message.  Lines of image memory may be longer than those of the screen. *)
(* Windows are not empty, either, nor as large as that.                    *)
Extent == 1..65535

ASSUME MachineAssumption ==
    \A m \in Machines :
        /\ m.backend \in {"xwin", "gdi", "d3d", "dfm", "osx"}
        /\ m.width \in Extent /\ m.height \in Extent
        /\ m.pitch \in Nat /\ m.pitch >= m.width

Window == [name : Value, left : Int, top : Int, width : Extent, height : Extent, border : Nat]

Rectangle == [left : Int, right : Int, top : Int, bottom : Int]

ASSUME DesktopAssumption ==
    /\ \A windows \in Desktops : windows \in Seq(Window)
    /\ NoRect \notin Window /\ NoRect \notin Rectangle
    /\ NoRect \notin [left : Int, right : Int, top : Int, bottom : Int,
                      width : Int, height : Int]

VARIABLES machine,     \* constant
          stage,       \* where main is
          todo,        \* what is left of the stage: modules or threads
          failed,      \* a call of the operating system or a library has failed
          conf,        \* globalConf: what rtspconf_parse has made of the options
          window,      \* the window as ga_crop_window has found it
          vso,         \* options for the video encoder: pairs of key and value
          prect,       \* the rectangle to crop
          driver,      \* the DFMirage driver: how far its set-up has got
          source,      \* gWidth, gHeight, gStride of the source's channel
          pipelinemap, \* the pipes registered: private data and frames of each
          thread,      \* the threads of modules
          encoders,    \* registered for the clients to start
          encoder,     \* the contexts of the encoders, once a client plays
          shot,        \* whether a frame is captured; of the last one, what the
                       \* calls came to and the pixels
          replayrect,  \* croprect of the replayer, or NoRect before and without
          pointed,     \* where in the picture the user of a client pointed
          native       \* the keys, buttons, wheel and pointer of the machine

confvars    == <<conf, vso>>
encodervars == <<encoders, encoder>>
inputvars   == <<replayrect, pointed, native>>

startvars == <<storevars, machine, stage, todo, failed, confvars, window, prect,
               driver, source, pipelinemap, thread, encodervars, shot, inputvars>>

NoSource == [width |-> 0, height |-> 0, stride |-> 0]

NoCodec == "none"      \* NULL, no name

ASSUME CodecAssumption == NoCodec \notin Encoders \cup Decoders

CodecOption == {"video-encoder", "video-decoder", "audio-encoder", "audio-decoder"}

rtspconf_init ==
    [servername |-> NoValue, serverport |-> 554, ctrlenable |-> FALSE, ctrlport |-> 555,
     ctrltcp |-> TRUE, sendmousemotion |-> FALSE,
     codec |-> [o \in CodecOption |-> NoCodec]]

Encoder == {"vencoder", "aencoder"}

Context(is) == [state |-> is, width |-> 0, height |-> 0, options |-> <<>>]

StartInit ==
    /\ StoreInit
    /\ Init
    /\ machine \in Machines
    /\ stage = "load"
    /\ todo = <<>>
    /\ failed = FALSE
    /\ conf = rtspconf_init
    /\ vso = <<>>
    /\ window = NoRect
    /\ prect = NoRect
    /\ driver = "unopened"
    /\ source = NoSource
    /\ pipelinemap = <<>>
    /\ thread = <<>>
    /\ encoders = {}
    /\ encoder = [e \in Encoder |-> Context("idle")]
    /\ shot = [taken |-> FALSE, calls |-> "succeed", pixels |-> <<>>]
    /\ replayrect = NoRect
    /\ pointed = <<>>
    /\ native = Idle

HasAudio == machine.backend # "osx"      \* #ifndef __APPLE__

(* What each stage goes through.  The order of source and filter in the    *)
(* second list is the one that main's comment asks to note.                *)
ModulesToLoad ==
    <<"vsource", "filter", "vencoder">>
    \o (IF HasAudio THEN <<"asource", "aencoder">> ELSE <<>>) \o <<"ctrl">>

filter_first ==
    (IF conf.ctrlenable THEN <<"ctrl">> ELSE <<>>)
    \o <<"filter", "vsource">> \o (IF HasAudio THEN <<"asource">> ELSE <<>>)

ModulesToInit ==
    (IF conf.ctrlenable THEN <<"ctrl">> ELSE <<>>)
    \o <<"vsource", "filter">> \o (IF HasAudio THEN <<"asource">> ELSE <<>>)

ToRun ==
    (IF conf.ctrlenable THEN <<"ctrlserver">> ELSE <<>>)
    \o <<"vsource", "filter", "vencoder">>
    \o (IF HasAudio THEN <<"asource", "aencoder">> ELSE <<>>)

-----------------------------------------------------------------------------
exits == stage' = "exited"

CallFails == failed' = TRUE /\ exits

(* ga_init: main returns when the file cannot be read, or the URL is no    *)
(* RTSP URL; the program is also over when its stack is used up.           *)
load ==
    /\ stage = "load"
    /\ LoadStep
    /\ stage' = CASE loaded' = "yes" -> IF url = NoUrl THEN "parse" ELSE "url"
                  [] loaded' \in {"failed", "overflow"} -> "exited"
                  [] OTHER -> stage
    /\ UNCHANGED <<machine, todo, failed, confvars, window, prect, driver, source,
                   pipelinemap, thread, encodervars, shot, inputvars, vars>>

readframe == <<filevars, machine, todo, failed, window, prect, driver, source,
               pipelinemap, thread, encodervars, shot, inputvars, vars>>

load_url ==
    /\ stage = "url"
    /\ \/ ga_url_parse /\ stage' = "parse"
       \/ url.scheme # "rtsp" /\ exits /\ ga_vars' = ga_vars
    /\ UNCHANGED <<confvars, readframe>>

(* The first codec of a list that is there.                                *)
ga_avcodec_find(names, there) ==
    LET found == {i \in DOMAIN names : names[i] \in there}
    IN  IF found = {} THEN NoCodec ELSE names[Min(found)]

There(o) == IF o \in {"video-encoder", "audio-encoder"} THEN Encoders ELSE Decoders

rtspconf_load_codec(o) ==
    IF o \in DOMAIN ga_vars THEN ga_avcodec_find(codecs[readv(o)], There(o)) ELSE NoCodec

(* rtspconf_parse up to the options for the encoder: each required option  *)
(* is there and good, ports are in range, and a codec that is named exists.*)
ReadConf ==
    LET enabled == readbool("control-enabled", FALSE) IN
    [servername      |-> readv("server-name"),
     serverport      |-> readint("server-port"),
     ctrlenable      |-> enabled,
     ctrlport        |-> IF enabled THEN readint("control-port") ELSE 555,
     ctrltcp         |-> enabled => readv("control-proto") = "tcp",
     sendmousemotion |-> enabled /\ readbool("control-send-mouse-motion", TRUE),
     codec           |-> [o \in CodecOption |-> rtspconf_load_codec(o)]]

PortNumber == 1..65535

Refused(read) ==
    \/ {read.serverport, read.ctrlport} \ PortNumber # {}
    \/ \E o \in Required : readv(o) \in {NoValue, Invalid}
    \/ \E o \in CodecOption \cap DOMAIN ga_vars : read.codec[o] = NoCodec

(* The server's main, or the client's.                                     *)
Configured == IF url = NoUrl THEN "crop" ELSE "client"

rtspconf_parse ==
    /\ stage = "parse"
    /\ LET read == ReadConf IN
       IF Refused(read)
       THEN exits /\ UNCHANGED <<conf, ga_vars>>
       ELSE /\ conf' = read
            /\ IF mapsize("video-specific") > 0
               THEN stage' = "options" /\ ga_vars' = mapreset("video-specific")
               ELSE stage' = Configured /\ ga_vars' = ga_vars
    /\ UNCHANGED <<vso, readframe>>

(* The loop over video-specific.                                           *)
pass_option ==
    /\ stage = "options"
    /\ IF mapkey("video-specific") = END
       THEN stage' = Configured /\ UNCHANGED <<vso, ga_vars>>
       ELSE /\ vso' = IF mapvalue("video-specific") = NoValue THEN vso
                      ELSE Append(vso, <<mapkey("video-specific"), mapvalue("video-specific")>>)
            /\ ga_vars' = mapnextkey("video-specific")
            /\ stage' = stage
    /\ UNCHANGED <<conf, readframe>>

(* ga_crop_window, by the name of a window (its class, which Windows       *)
(* accepts too, is left out).  Mac OS X has no cropping.                   *)
NamesWindow == readv("find-window-name") # NoValue

NamesDisplay == machine.backend = "xwin" => readv("display") # NoValue

MayCrop == machine.backend # "osx" /\ NamesDisplay /\ NamesWindow

(* The first window of the name, a window before its children.             *)
FindWindowX(windows, name) ==
    LET named == {i \in DOMAIN windows : windows[i].name = name}
    IN  IF named = {} THEN NoRect ELSE windows[Min(named)]

cropframe == <<storevars, machine, confvars, driver, source, pipelinemap, thread, encodervars, shot, inputvars, vars>>

crop_disabled ==
    /\ stage = "crop" /\ ~MayCrop
    /\ stage' = "modules" /\ todo' = ModulesToLoad
    /\ UNCHANGED <<window, prect, failed, cropframe>>

found(w) == even_rect(client_rect(machine, w))

ga_crop_window ==
    /\ stage = "crop" /\ MayCrop
    /\ \E windows \in Desktops :
          LET named == FindWindowX(windows, readv("find-window-name"))
              w     == SetWindowPos(machine, named)
          IN
          /\ named # NoRect
          /\ window' = w
          /\ IF visible(machine, found(w))
             THEN /\ prect' = found(w)
                  /\ stage' = "modules" /\ todo' = ModulesToLoad
             ELSE exits /\ UNCHANGED <<prect, todo>>
    /\ UNCHANGED <<failed, cropframe>>

(* There is no such window, or the system does not tell its place.         *)
crop_fails ==
    /\ stage = "crop" /\ MayCrop
    /\ CallFails
    /\ UNCHANGED <<window, prect, todo, cropframe>>

(* Main goes on with the list, or with the next stage when it is done.     *)
Proceed(next, list) ==
    IF Len(todo) > 1 THEN todo' = Tail(todo) /\ stage' = stage
                     ELSE todo' = list /\ stage' = next

ga_load_module ==
    /\ stage = "modules"
    /\ \/ Proceed("init", ModulesToInit) /\ failed' = failed
       \/ CallFails /\ todo' = todo
    /\ UNCHANGED <<storevars, machine, confvars, window, prect, driver, source, pipelinemap,
                   thread, encodervars,
                   shot, inputvars, vars>>

-----------------------------------------------------------------------------
(***************************************************************************)
(* The DFMirage driver, set up by ga_win32_DFM_init before the rest of     *)
(* vsource_init: found and its registry key opened, attached to the        *)
(* desktop, loaded, and its screen buffer mapped.  dfm_open succeeds       *)
(* without a driver, too; what is done is not undone when a step fails.    *)
(***************************************************************************)
driverframe == <<storevars, machine, todo, confvars, window, prect, source, pipelinemap, thread,
                 encodervars, shot, inputvars, vars>>

SettingUp(state) ==
    /\ stage = "init" /\ Head(todo) = "vsource" /\ machine.backend = "dfm"
    /\ driver = state

dfm_open ==
    /\ SettingUp("unopened")
    /\ \/ driver' = "opened" /\ failed' = failed
       \/ driver' = "missing" /\ failed' = TRUE
    /\ UNCHANGED <<stage, driverframe>>

dfm_setAttachToDesktop ==
    /\ SettingUp("opened")
    /\ \/ driver' = "attached" /\ UNCHANGED <<stage, failed>>
       \/ CallFails /\ driver' = driver
    /\ UNCHANGED driverframe

dfm_load_unopened ==
    /\ SettingUp("missing")
    /\ exits
    /\ UNCHANGED <<failed, driver, driverframe>>

dfm_load ==
    /\ SettingUp("attached")
    /\ \/ driver' = "loaded" /\ UNCHANGED <<stage, failed>>
       \/ CallFails /\ driver' = driver
    /\ UNCHANGED driverframe

dfm_connect ==
    /\ SettingUp("loaded")
    /\ \/ driver' = "connected" /\ UNCHANGED <<stage, failed>>
       \/ CallFails /\ driver' = driver
    /\ UNCHANGED driverframe

DriverStep ==
    \/ dfm_open \/ dfm_setAttachToDesktop \/ dfm_load_unopened \/ dfm_load \/ dfm_connect

-----------------------------------------------------------------------------
Registered(name, pipe) ==
    [n \in DOMAIN pipelinemap \cup {name} |-> IF n = name THEN pipe ELSE pipelinemap[n]]

(* A new pipe with its private data, and the size of the frames in its     *)
(* pool.  The private data is the configuration of the source's channel,   *)
(* here its only one, by which its size is looked up.                      *)
set_privdata(config, frame) == [privdata |-> config, frame |-> frame]

get_privdata(name) == pipelinemap[name].privdata

(* vsource_init: the channel has the size of the rectangle or else of the  *)
(* screen; video_source_setup_ex makes its pipe.                           *)
SourceSize ==
    LET image == image_init(machine)
        crop  == ga_fillrect(prect)
    IN  IF prect = NoRect
        THEN [width |-> image.width, height |-> image.height, stride |-> image.bytes_per_line]
        ELSE [width |-> crop.width, height |-> crop.height, stride |-> crop.width]

video_source_setup_ex(config) ==
    /\ source' = config
    /\ pipelinemap' = Registered("image-0", set_privdata(config, config))

video_source_width  == source.width
video_source_height == source.height
video_source_stride == source.stride

vsource_init ==
    /\ stage = "init" /\ Head(todo) = "vsource"
    /\ machine.backend = "dfm" => driver = "connected"
    /\ \/ /\ Proceed("run", ToRun)
          /\ video_source_setup_ex(SourceSize)
          /\ failed' = failed
       \/ CallFails /\ UNCHANGED <<todo, source, pipelinemap>>
    /\ UNCHANGED <<storevars, machine, confvars, window, prect, driver, thread,
                   encodervars, shot, inputvars, vars>>

filter_RGB2YUV_init ==
    /\ stage = "init" /\ Head(todo) = "filter"
    /\ \/ /\ "image-0" \in DOMAIN pipelinemap
          /\ Proceed("run", ToRun)
          /\ pipelinemap' = Registered("filter-0", set_privdata(get_privdata("image-0"),
                [width  |-> video_source_width, height |-> video_source_height,
                 stride |-> video_source_stride]))
          /\ failed' = failed
       \/ /\ "image-0" \notin DOMAIN pipelinemap
          /\ exits
          /\ UNCHANGED <<todo, pipelinemap, failed>>
       \/ CallFails /\ UNCHANGED <<todo, pipelinemap>>
    /\ UNCHANGED <<storevars, machine, confvars, window, prect, driver, source, thread,
                   encodervars, shot, inputvars, vars>>

(* Only X has calls that may fail; the callback is registered at the end.  *)
sdlmsg_replay_init ==
    /\ stage = "init" /\ Head(todo) = "ctrl"
    /\ \/ /\ Proceed("run", ToRun)
          /\ replayrect' = replay_rect(prect)
          /\ failed' = failed
       \/ machine.backend = "xwin" /\ CallFails /\ UNCHANGED <<todo, replayrect>>
    /\ UNCHANGED <<storevars, machine, confvars, window, prect, driver, source, pipelinemap,
                   thread, encodervars, shot, pointed, native, vars>>

(* The device, and what the configuration says of sound (machine.audio).   *)
asource_init ==
    /\ stage = "init" /\ Head(todo) = "asource"
    /\ \/ /\ set_up(machine.dev, machine.audio)
          /\ Proceed("run", ToRun)
          /\ failed' = failed
       \/ /\ ~set_up(machine.dev, machine.audio)
          /\ exits
          /\ UNCHANGED <<todo, failed>>
       \/ CallFails /\ UNCHANGED todo
    /\ UNCHANGED <<storevars, machine, confvars, window, prect, driver, source, pipelinemap,
                   thread, encodervars, shot, inputvars, vars>>

-----------------------------------------------------------------------------
(* run_modules: a thread is created, or an encoder registered.             *)
Started(t) == [u \in DOMAIN thread \cup {t} |-> IF u = t THEN "started" ELSE thread[u]]

run_module ==
    /\ stage = "run" /\ Head(todo) \notin Encoder
    /\ \/ /\ Proceed("serving", <<>>)
          /\ thread' = Started(Head(todo))
          /\ failed' = failed
       \/ CallFails /\ UNCHANGED <<todo, thread>>
    /\ UNCHANGED <<storevars, machine, confvars, window, prect, driver, source, pipelinemap,
                   encodervars, shot, inputvars, vars>>

encoder_register ==
    /\ stage = "run" /\ Head(todo) \in Encoder
    /\ Proceed("serving", <<>>)
    /\ encoders' = encoders \cup {Head(todo)}
    /\ UNCHANGED <<storevars, machine, failed, confvars, window, prect, driver, source,
                   pipelinemap, thread, encoder, shot, inputvars, vars>>

BeginsNow(t) == stage \notin {"exited", "crashed"} /\ ~exited /\ t \in DOMAIN thread /\ thread[t] = "started"

Running(t) == t \in DOMAIN thread /\ thread[t] = "running"

BecomesRunning(t) == thread' = [thread EXCEPT ![t] = "running"]

(* The beginning of vsource_threadproc, up to its loop.                    *)
vsource_begin ==
    /\ BeginsNow("vsource")
    /\ IF "image-0" \in DOMAIN pipelinemap
       THEN BecomesRunning("vsource") /\ stage' = stage
       ELSE exits /\ thread' = thread
    /\ UNCHANGED <<storevars, machine, todo, failed, confvars, window, prect, driver, source,
                   pipelinemap,
                   encodervars, shot, inputvars, vars>>

(* The beginning of filter_RGB2YUV_threadproc.  Without its pipes or a     *)
(* context of libswscale the thread ends; in the latter case it deletes    *)
(* the pipe that stays registered.                                         *)
filter_quit == thread' = [thread EXCEPT !["filter"] = "ended"]

ga_swscale_init_fails == filter_quit /\ failed' = TRUE

filter_begin ==
    /\ BeginsNow("filter")
    /\ \/ /\ {"image-0", "filter-0"} \subseteq DOMAIN pipelinemap
          /\ BecomesRunning("filter")
          /\ failed' = failed
       \/ /\ ~({"image-0", "filter-0"} \subseteq DOMAIN pipelinemap)
          /\ filter_quit
          /\ failed' = failed
       \/ ga_swscale_init_fails
    /\ UNCHANGED <<storevars, machine, stage, todo, confvars, window, prect, driver, source,
                   pipelinemap,
                   encodervars, shot, inputvars, vars>>

(* asource_threadproc: asource_init again, which has been done, and a      *)
(* buffer for a chunk.                                                     *)
asource_begin ==
    /\ BeginsNow("asource")
    /\ \/ BecomesRunning("asource") /\ UNCHANGED <<stage, failed>>
       \/ CallFails /\ thread' = thread
    /\ UNCHANGED <<storevars, machine, todo, confvars, window, prect, driver, source,
                   pipelinemap, encodervars, shot, inputvars, vars>>

(* The address of the server, to listen at or to connect to: without a     *)
(* name, any.                                                              *)
name_resolve(name) == name = NoValue \/ name \in Hosts

(* ctrl_server_init: the name must resolve and the port be free; or the    *)
(* thread ends the program.                                                *)
ctrl_server_begin ==
    /\ BeginsNow("ctrlserver")
    /\ \/ /\ name_resolve(conf.servername)
          /\ BecomesRunning("ctrlserver")
          /\ UNCHANGED <<stage, failed>>
       \/ ~name_resolve(conf.servername) /\ exits /\ UNCHANGED <<thread, failed>>
       \/ CallFails /\ thread' = thread
    /\ UNCHANGED <<storevars, machine, todo, confvars, window, prect, driver, source,
                   pipelinemap, encodervars, shot, inputvars, vars>>

(* The options are handed over as a dictionary: a key twice counts once.   *)
ga_avcodec_vencoder_init(codec, width, height, options) ==
    IF codec = NoCodec THEN Context("failed")
    ELSE [state |-> "open", width |-> width, height |-> height,
          options |-> [k \in {options[i][1] : i \in DOMAIN options} |->
              options[Max({i \in DOMAIN options : options[i][1] = k})][2]]]

ga_avcodec_aencoder_init(codec) == Context(IF codec = NoCodec THEN "failed" ELSE "open")

(* The first client connects, and its streams are described.  Without a    *)
(* codec, which rtspconf_parse lets pass, the message that says so reads   *)
(* through NULL.  When a call fails the session ends, and another comes.   *)
ga_avformat_new_stream(codec) == codec # NoCodec

CodecOf(e) == conf.codec[IF e = "vencoder" THEN "video-encoder" ELSE "audio-encoder"]

per_client_init ==
    /\ stage = "serving" /\ ~exited
    /\ encoder["vencoder"].state = "idle"
    /\ IF \A e \in encoders : ga_avformat_new_stream(CodecOf(e))
       THEN encoder' = [e \in Encoder |-> Context(IF e \in encoders THEN "wanted" ELSE "idle")] /\ stage' = stage
       ELSE stage' = "crashed" /\ encoder' = encoder
    /\ UNCHANGED <<storevars, machine, todo, failed, confvars, window, prect, driver, source,
                   pipelinemap, thread, encoders, shot, inputvars, vars>>

(* It plays, and the threads of the encoders begin.  A thread whose        *)
(* context fails ends.                                                     *)
encoder_begins(e, context) ==
    /\ stage = "serving" /\ ~exited
    /\ e \in encoders /\ encoder[e].state = "wanted"
    /\ \/ encoder' = [encoder EXCEPT ![e] = context] /\ failed' = failed
       \/ encoder' = [encoder EXCEPT ![e] = Context("failed")] /\ failed' = TRUE
    /\ UNCHANGED <<storevars, machine, stage, todo, confvars, window, prect, driver, source,
                   pipelinemap, thread, encoders, shot, inputvars, vars>>

vencoder_begin ==
    LET frame == get_privdata("filter-0") IN
    encoder_begins("vencoder", ga_avcodec_vencoder_init(CodecOf("vencoder"),
                                                        frame.width, frame.height, vso))

aencoder_begin ==
    encoder_begins("aencoder", ga_avcodec_aencoder_init(CodecOf("aencoder")))

-----------------------------------------------------------------------------
(***************************************************************************)
(* The main of the client, from where its configuration has been read:     *)
(* libraries for windows and fonts, then the threads of the controller,    *)
(* without which it goes on, of the watchdog and of the RTSP client.       *)
(***************************************************************************)
ThreadsToCreate ==
    (IF conf.ctrlenable THEN <<"ctrlclient">> ELSE <<>>) \o <<"watchdog", "rtsp">>

clientframe == <<storevars, machine, vso, window, prect, driver, source, pipelinemap,
                 encodervars, shot, inputvars, vars>>

client_libraries ==       \* XInitThreads, TTF_Init, TTF_OpenFont, SDL_Init
    /\ stage = "client"
    /\ \/ stage' = "launch" /\ todo' = ThreadsToCreate /\ failed' = failed
       \/ CallFails /\ todo' = todo
    /\ UNCHANGED <<conf, thread, clientframe>>

client_thread_created ==
    /\ stage = "launch"
    /\ Proceed("playing", <<>>)
    /\ thread' = Started(Head(todo))
    /\ UNCHANGED <<conf, failed, clientframe>>

controller_disabled ==    \* ctrl_queue_init or pthread_create fails
    /\ stage = "launch" /\ Head(todo) = "ctrlclient"
    /\ Proceed("playing", <<>>)
    /\ conf' = [conf EXCEPT !.ctrlenable = FALSE]
    /\ failed' = TRUE
    /\ UNCHANGED <<thread, clientframe>>

client_thread_fails ==
    /\ stage = "launch" /\ Head(todo) # "ctrlclient"
    /\ CallFails
    /\ UNCHANGED <<conf, todo, thread, clientframe>>

(* ctrl_client_init: without a connection the thread ends.                 *)
ctrl_client_begin ==
    /\ BeginsNow("ctrlclient")
    /\ \/ name_resolve(conf.servername) /\ BecomesRunning("ctrlclient") /\ failed' = failed
       \/ /\ thread' = [thread EXCEPT !["ctrlclient"] = "ended"]
          /\ failed' = (failed \/ name_resolve(conf.servername))
    /\ UNCHANGED <<conf, stage, todo, clientframe>>

ClientStep ==
    \/ client_libraries \/ client_thread_created \/ controller_disabled
    \/ client_thread_fails \/ ctrl_client_begin

-----------------------------------------------------------------------------
CropRect == IF prect = NoRect THEN NoRect ELSE ga_fillrect(prect)

BufferSize(frame) == frame.height * frame.stride      \* imgbufsize, in pixels

(* Bound: frames are captured once every thread has begun.                 *)
Capturing ==
    /\ stage = "serving" /\ Running("vsource")
    /\ \A t \in DOMAIN thread : thread[t] # "started"
    /\ \A e \in encoders : encoder[e].state \in {"open", "failed"}

Filtering == stage = "serving" /\ Running("filter")

(* A frame is filled by a capture of the screen; what the capture returns  *)
(* is ignored.                                                             *)
vsource_capture(p, f) ==
    /\ Capturing
    /\ fill_data(p, f)
    /\ \E calls \in capture_calls(machine) \ {"exit"} :
         /\ shot' = [taken |-> TRUE, calls |-> calls, pixels |->
                Filled(machine, capture(machine, driver, calls, BufferSize(source), CropRect))]
         /\ failed' = (failed \/ calls # "succeed")
    /\ UNCHANGED <<storevars, machine, stage, todo, confvars, window, prect, driver,
                   source, pipelinemap,
                   thread, encodervars, inputvars>>

capture_fails(p) ==
    /\ Capturing /\ hand[p] # NULL
    /\ "exit" \in capture_calls(machine)
    /\ CallFails
    /\ UNCHANGED <<storevars, machine, todo, confvars, window, prect, driver, source,
                   pipelinemap, thread, encodervars, shot, inputvars, vars>>

(* The user of a client that shows a frame points at its first or its last *)
(* pixel, with the mouse or a finger, and the control server replays what  *)
(* the client sends.  Bound: once.                                         *)
client_conf ==
    [ctrlenable |-> TRUE, sendmousemotion |-> TRUE, relativeMouseMode |-> FALSE,
     windowSizeX |-> source.width, windowSizeY |-> source.height]

Pointing(x, y) ==
    {MotionEvent(x, y, 0, 0)}
    \cup {FingerEvent("down", fx, fy) :
            fx \in {f \in {0, 32767} : f = 32767 <=> x = source.width - 1},
            fy \in {f \in {0, 32767} : f = 32767 <=> y = source.height - 1}}

(* The messages of one event, replayed in order.                           *)
sdlmsg_replay_all(messages) ==
    LET after_first[i \in 0..Len(messages)] ==
            IF i = 0 THEN native
            ELSE sdlmsg_replay(machine, replayrect, after_first[i - 1], messages[i])
    IN  after_first[Len(messages)]

replay_pointing(x, y) ==
    /\ stage = "serving" /\ ~exited /\ shot.taken /\ pointed = <<>>
    /\ Running("ctrlserver")
    /\ \E e \in Pointing(x, y) :
          native' = sdlmsg_replay_all(ProcessEvent(e, client_conf))
    /\ pointed' = <<x, y>>
    /\ UNCHANGED <<storevars, machine, stage, todo, failed, confvars, window, prect, driver,
                   source, pipelinemap, thread, encodervars, shot, replayrect, vars>>

pool_step ==
    /\ \/ Capturing /\ \E p \in Producer : allocate_data(p) \/ store_data(p)
       \/ Filtering /\ \E c \in Consumer : ConsumerStep(c)
    /\ UNCHANGED startvars

MainStep ==
    \/ load \/ load_url \/ rtspconf_parse \/ pass_option
    \/ crop_disabled \/ ga_crop_window \/ crop_fails \/ ga_load_module
    \/ DriverStep \/ vsource_init \/ filter_RGB2YUV_init
    \/ sdlmsg_replay_init \/ asource_init
    \/ run_module \/ encoder_register

StartNext ==
    \/ MainStep
    \/ vsource_begin \/ filter_begin \/ asource_begin \/ ctrl_server_begin
    \/ per_client_init \/ vencoder_begin \/ aencoder_begin
    \/ ClientStep
    \/ /\ ~exited
       /\ \/ \E p \in Producer, f \in Frame : vsource_capture(p, f)
          \/ \E p \in Producer : capture_fails(p)
          \/ replay_pointing(0, 0) \/ replay_pointing(source.width - 1, source.height - 1)
          \/ pool_step

allvars == <<startvars, vars>>

StartSpec == StartInit /\ [][StartNext]_allvars

-----------------------------------------------------------------------------
(***************************************************************************)
(* When the configuration has been read, every option has the value of its *)
(* last assignment in the text, included files in place, or for a client   *)
(* what its URL says; and the encoder that the first client starts has     *)
(* each key of video-specific with the last value entered after the last   *)
(* plain assignment, and the first codec listed that is there              *)
(* (ga_conf_load, ga_conf_parse, ga_url_parse, and the loop at the end of  *)
(* rtspconf_parse, which depends on where an earlier use has left the      *)
(* iterator).                                                              *)
(***************************************************************************)
Lines == Flat(text)

FromUrl(o) ==
    /\ url # NoUrl /\ o \in {"server-url", "server-name", "server-port"}
    /\ o = "server-port" => url.port # NoPort

Meant(lines, o) ==
    IF ~FromUrl(o) THEN Said(lines, o)
    ELSE IF o = "server-url" THEN url.all
    ELSE IF o = "server-name" THEN url.name
    ELSE url.port

MeantMap(lines, o) == IF FromUrl(o) THEN <<>> ELSE SaidMap(lines, o)

IsFirstCodec(c, names, there) ==
    \E i \in DOMAIN names : /\ names[i] = c /\ c \in there
                            /\ \A j \in 1..(i - 1) : names[j] \notin there

Parsed == stage \notin {"load", "url", "parse", "options", "exited"}

ConfigMeansText ==
    /\ (stage \in {"parse", "options"} \/ Parsed) =>
           LET lines == Lines IN
           \A o \in Option : /\ readv(o) = Meant(lines, o)
                            /\ VarOf(o).mapdata = MeantMap(lines, o)
    /\ encoder["vencoder"].state = "open" =>
           /\ encoder["vencoder"].options = SaidMap(Lines, "video-specific")
           /\ IsFirstCodec(conf.codec["video-encoder"],
                           codecs[Said(Lines, "video-encoder")], Encoders)

(***************************************************************************)
(* A captured frame fits its buffer, whatever fails, and when the calls    *)
(* succeed it shows the window that was to be cropped, the one of the      *)
(* configured name: every pixel of its inside, with at most one line and   *)
(* one column before it, and pixel (x, y) of the frame is pixel (x, y)     *)
(* from one corner.  Uncropped it shows the screen.  Two more cases are    *)
(* left out: X windows with a border, whose last pixels are cut off        *)
(* (client rectangle), and Direct3D surfaces with padded lines, captured   *)
(* whole, which are copied with their padding into a buffer without room   *)
(* for it.                                                                 *)
(***************************************************************************)
CutOff == prect # NoRect /\ machine.backend = "xwin" /\ window.border > 0

Padded == prect = NoRect /\ machine.backend = "d3d" /\ machine.pitch > machine.width

ShowsFrom(x0, y0) ==
    \A x \in 0..(source.width - 1), y \in 0..(source.height - 1) :
        /\ source.stride * y + x \in DOMAIN shot.pixels
        /\ shot.pixels[source.stride * y + x] = <<x0 + x, y0 + y>>

InFrame(x0, y0, w) ==
    /\ x0 \in {w.left - 1, w.left} /\ x0 + source.width = w.left + w.width
    /\ y0 \in {w.top - 1, w.top}   /\ y0 + source.height = w.top + w.height

FrameShowsWindow ==
    (shot.taken /\ ~CutOff /\ ~Padded) =>
        /\ DOMAIN shot.pixels \subseteq 0..(BufferSize(source) - 1)
        /\ shot.calls = "succeed" =>
             IF prect = NoRect
             THEN /\ ShowsFrom(0, 0)
                  /\ source.width = machine.width /\ source.height = machine.height
             ELSE /\ window.name = Said(Lines, "find-window-name")
                  /\ \E x0 \in -1..machine.width, y0 \in -1..machine.height :
                         InFrame(x0, y0, window) /\ ShowsFrom(x0, y0)

(***************************************************************************)
(* Who points at a pixel of a picture whose capture has succeeded points   *)
(* at the same pixel of the server's screen: capture and replay, two       *)
(* modules, take the window to be at the same place (main hands prect to   *)
(* both).  On Windows the position is rounded down twice, and may come out *)
(* one column or line too low.                                             *)
(***************************************************************************)
Hits(at, pixel) ==
    IF OnWindows(machine) THEN pixel - at \in {0, 1} ELSE at = pixel

PointerHitsPixel ==
    (pointed # <<>> /\ shot.calls = "succeed" /\ ~Padded) =>
        LET pixel == shot.pixels[source.stride * pointed[2] + pointed[1]]
        IN  Hits(native.pointer[1], pixel[1]) /\ Hits(native.pointer[2], pixel[2])

(***************************************************************************)
(* The planes that the filter writes into a frame of its own pipe are      *)
(* apart and within the buffer, whose size was chosen for the captured     *)
(* image, for every window that ga_crop_window lets pass ("multiples of    *)
(* 2?") and every screen of even size (filter_RGB2YUV_init and             *)
(* filter_RGB2YUV_threadproc).                                             *)
(***************************************************************************)
PlanesApart(w, h) ==
    /\ YPlane(w, h) \cap UPlane(w, h) = {}
    /\ YPlane(w, h) \cap VPlane(w, h) = {}
    /\ UPlane(w, h) \cap VPlane(w, h) = {}

PlanesFit ==
    ("filter-0" \in DOMAIN pipelinemap
     /\ (prect # NoRect \/ (machine.width % 2 = 0 /\ machine.height % 2 = 0))) =>
        /\ PlanesApart(source.width, source.height)
        /\ UNION {YPlane(source.width, source.height), UPlane(source.width, source.height),
                  VPlane(source.width, source.height)}
             \subseteq 0..(RGBA_SIZE * BufferSize(pipelinemap["filter-0"].frame) - 1)

(***************************************************************************)
(* The program does not give up at its start, and none of its threads      *)
(* does, unless the file cannot be read (one whose includes go too deep    *)
(* cannot) or lacks something, a window to crop is not all visible, the    *)
(* sound device has not what is wanted, or a call fails.  The exits of     *)
(* allocate_data and of a filter without a frame, once it serves, are not  *)
(* counted here (exited in Pipeline, NotFatal of VideoPath).  And          *)
(* when it serves, its encoders are registered (main, "note the order of   *)
(* the two modules"), and the first client gets them all, unless one was   *)
(* not named, which rtspconf_parse lets pass, and per_client_init does not *)
(* survive.  A client that plays has all its threads, the one of the       *)
(* controller if it is enabled.                                            *)
(***************************************************************************)
Unreadable == loaded \in {"failed", "overflow"} \/ (url # NoUrl /\ url.scheme # "rtsp")

BadPort(o) == strtol[Meant(Lines, o)] \notin PortNumber

NoneOf(o) ==
    LET names == codecs[Said(Lines, o)] IN {names[i] : i \in DOMAIN names} \cap There(o) = {}

(* A codec with entries but no value is none, too.                         *)
Mentions(lines, o) ==
    \E i \in DOMAIN lines : lines[i].kind \in {"set", "entry"} /\ lines[i].option = o

Nameless == Meant(Lines, "server-name") # NoValue /\ Meant(Lines, "server-name") \notin Hosts

Lacking ==
    \/ BadPort("server-port")
    \/ Said(Lines, "control-enabled") \in TrueWords /\ BadPort("control-port")
    \/ \E o \in Required : Meant(Lines, o) \in {NoValue, Invalid}
    \/ \E o \in CodecOption : Mentions(Lines, o) /\ NoneOf(o)

(* X gives the outer corner of the border, not that of the area inside.    *)
Hidden ==       \* or the column or line that makes its size even is not
    LET border == IF machine.backend = "xwin" THEN window.border ELSE 0 IN
    /\ window # NoRect
    /\ \/ window.left - border < window.width % 2
       \/ window.top - border < window.height % 2
       \/ window.left - border + window.width > machine.width
       \/ window.top - border + window.height > machine.height

Unsuited ==
    HasAudio /\ ~set_up(machine.dev, machine.audio)

StartsWell ==
    /\ stage = "exited" =>
           Unreadable \/ Lacking \/ Hidden \/ Unsuited \/ Nameless \/ failed
    /\ (\E t \in DOMAIN thread : thread[t] = "ended") => Nameless \/ failed
    /\ stage = "crashed" =>
           \/ Said(Lines, "video-encoder") = NoValue
           \/ HasAudio /\ Said(Lines, "audio-encoder") = NoValue
    /\ (\E e \in Encoder : encoder[e].state = "failed") => failed
    /\ stage = "playing" =>
           /\ {"watchdog", "rtsp"} \subseteq DOMAIN thread
           /\ conf.ctrlenable <=> "ctrlclient" \in DOMAIN thread
    /\ stage = "serving" => encoders = (IF HasAudio THEN Encoder ELSE {"vencoder"})
=============================================================================
