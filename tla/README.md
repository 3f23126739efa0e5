# GamingAnywhere in TLA+

GamingAnywhere is a cloud-gaming system: a server that captures the screen and
the sound of a program, encodes both and streams them over RTSP/RTP, and a
client that plays the streams and sends keyboard and mouse events back. This
directory holds TLA+ models of its parts, the TLC configurations that check
them on small instances, and proofs that TLAPS checks for instances of every
size. Paths below are relative to `src/ga/`.

## 1. The system

### Components, their state and how they meet

| Component | Code | State | Operations | Talks to |
|---|---|---|---|---|
| Server main program | `server/periodic` | none of its own | read the configuration, load and start the modules, accept clients | everything, at start-up |
| Configuration | `core/ga-conf.cpp`, `core/ga-confvar.cpp`, `core/rtspconf.cpp` | a map from names to values and to maps, with one iterator each | load files with includes, set, look up, iterate, parse the URL | main, the encoders |
| Modules and codecs | `core/ga-module.cpp`, `core/ga-avcodec.cpp`, `core/ga-common.cpp` | | load, init, start; find a codec; find the window to crop | main |
| Screen and sound back ends | `module/vsource-desktop/ga-*.cpp`, `module/asource-system/ga-*.cpp`, `core/ga-win32.cpp` | device handles | set up, capture one image, read one chunk, sleep | the operating system |
| Frame pipeline | `core/pipeline.cpp` | a free list and a list of filled buffers, their counters, under `poolmutex`; the condition variables of threads that wait | `allocate_data`, `store_data`, `load_data`, `release_data`, `client_register`, `wait`, `timedwait`, `notify_all`; a registry by name | source, filter and encoder threads |
| Video source | `core/vsource.cpp`, `module/vsource-desktop` | one pipeline per channel, a frame clock | capture a frame into a buffer, number it, store it, notify, sleep | pipeline of the filter |
| RGB to YUV filter | `module/filter-rgb2yuv` | a source and a destination pipeline | wait, load, convert, store, notify | two pipelines |
| Audio source | `core/asource.cpp`, `module/asource-system` | a buffer per client, `ccmutex` | fill every client's buffer, read, put in silence | audio encoder |
| Encoder threads | `module/encoder-video`, `module/encoder-audio` | base and last time stamp | wait for data, stamp, encode, send to all clients | pipeline, encoder hub |
| Encoder hub | `core/encoder-common.cpp` | `encoder_clients`, `threadLaunched`, thread ids, `sync_reset`, `encoder_lock` | register and unregister a client, start and join encoders, the shared clock, send a packet to all | session and encoder threads |
| RTSP sessions | `core/rtspserver.cpp` | one `RTSPContext` per connection: state, session id, streams, writer mutex, read buffer | read requests and RTCP; SETUP, PLAY, PAUSE, TEARDOWN, leave | encoder hub, the client |
| Accept loop | `core/server.cpp` | the listening socket, one variable for the new connection | accept, start a session thread | RTSP sessions |
| Controller | `core/controller.cpp` | ring buffer of messages, its mutex and condition variable, one connection | write, read, release, send; receive and split | client window, input replay |
| Input | `module/ctrl-sdl`, `client/ctrl-sdl.cpp` | the key tables, the window's place and scale | build a message, replay one | controller, the system |
| Client | `client/ga-client.cpp`, `client/rtspclient.cpp` | picture pipelines, audio packet queue, unit and sound buffers, RTSP state, watchdog | set up streams, put units together, decode, render, play sound, end | pipeline, controller |

### What is hard in it

* Every stage is a thread of its own and the pools between them never block the
  producer; buffers travel from owner to owner under a lock that is held only
  for the moment of the exchange.
* The encoder threads serve contexts that live on the stacks of session
  threads. Sessions come and go while they run, and the first and the last one
  start and stop them. The last client waits for the encoder threads with the
  hub's lock in hand.
* Condition variables are used without a predicate under the same mutex.
* Connections fail in the middle of a packet, threads fail to start, SETUPs fail
  half-way, descriptors are handed out again.
* Streams of bytes are cut anywhere, datagrams are lost and overtake each other,
  units arrive without some of their pieces.
* Sizes that do not divide each other: what is captured, encoded, received,
  decoded and played comes in portions of different lengths. Windows lie at the
  edge of the screen, have odd sides or are kept upside-down.
* Three clocks have to agree: the capture's, the two encoders', the sound card's.

`PROJECT.json` lists the hazards one by one, each at its line and with the
properties about it.

## 2. Modules

| Module | Models | Kind |
|---|---|---|
| `LossyQueue` | what a pipeline promises: an ordered queue that may lose its eldest frame when it is nearly full, and never touches a frame in use | abstract specification |
| `Pipeline` | `core/pipeline.cpp`: the buffers of one pool, its two lists and counters, and the threads that allocate, store, load and release | detailed, implements `LossyQueue` |
| `VideoPath` | capture thread, RGB-to-YUV filter, video encoder over two pipelines, with `wait`, `timedwait` and `notify_all` | composition; each pipe implements `LossyQueue` |
| `Timestamps` | the numbers of frames and the stamps of both encoders, `encoder_pts_sync`, the pacing of the capture thread and `usleep` of Windows | detailed |
| `SampleQueue` | what an `AudioBuffer` promises: a bounded queue of samples that takes or drops a chunk as a whole | abstract specification |
| `AudioPath` | `core/asource.cpp` with the capture thread of `asource-system` and the audio encoder's reads and packets | detailed, implements `SampleQueue` |
| `SoundCapture` | `ga-win32-wasapi.cpp`: reading the loop-back of the sound card, and the silence that is put in when nothing is played | detailed |
| `RtspServer` | session threads of `core/rtspserver.cpp`, the hub `core/encoder-common.cpp`, the control flow of the two encoder threads towards it, `encoder_lock` and the writer mutexes | detailed |
| `AcceptLoop` | `rtspserver_main` of `core/server.cpp` and the descriptors of connections | composition, with `RtspServer` |
| `RtspRequests` | how a session thread cuts what it reads into requests and RTCP packets, and answers them | detailed |
| `ConfigStore` | `core/ga-conf.cpp`, `core/ga-confvar.cpp` | detailed |
| `ScreenCapture` | which rectangle is captured (`ga_fillrect`, the back ends' images) and where the filter puts its planes | functions |
| `SoundDevice` | which sound devices ALSA's and WASAPI's set-up accept | functions |
| `InputReplay` | `ProcessEvent`, the builders and the replay of messages: from an event in the client's window to the server's keys, buttons, wheel and pointer | functions |
| `ServerStart` | `main` of the server, and of the client up to its threads, over the four modules above and `Pipeline` | composition |
| `BoundedFifo` | what the controller queue promises | abstract specification |
| `CtrlQueue` | the client's half of `core/controller.cpp`: ring, signal, control thread | detailed, implements `BoundedFifo` |
| `CtrlConnection` | the server's half: accept, handshake, cutting a stream or datagrams into messages, replay | detailed |
| `RemoteInput` | users at several clients and the keys of the server's machine | composition of `CtrlConnection` and `InputReplay` |
| `ClientPlayer` | `client/ga-client.cpp` and `client/rtspclient.cpp`: the session, pictures on their way to the window, the sound thread, the watchdog, the end of the program | detailed |
| `UnitAssembly` | `play_video`: how pieces of a stream become units for the decoder | detailed |
| `SoundPlayer` | `play_audio`, `audio_fill_buffer`: packets, decoded frames and what the sound device gets | detailed |
| `ListOps` | the sum of a sequence, a sequence without some of its elements | functions |
| `ListLemmas`, `*Proofs` | theorems (section 6) | proofs |
| `MC*` | | instances for TLC |

How they fit together:

* `Pipeline` justifies the sequences of `VideoPath`: what `VideoPath` does to
  each of its two is a step of `LossyQueue` (`PipesAreLossyQueues`), and
  `ServerStartProofs` shows that the lists of the code implement `LossyQueue` for
  every pool. `Timestamps` reduces both pools to one list that loses its eldest.
* In `RtspServer` an encoder thread simply "has a packet to send"; how it gets
  one is the business of `VideoPath` and `AudioPath`, where in turn the hub is
  reduced to `launch`, `stop` and `join`.
* `AcceptLoop` extends `RtspServer`: its steps are those of the accept loop, and
  those of `RtspServer` with what they do to descriptors.
* `ServerStart` ends where the others begin: with threads that have their pipes,
  a pool in use, a first client, an input thread.

## 3. State and actions against the code

`map` in `PROJECT.json` names the lines for every definition. What is worth
knowing beyond that:

**Pipeline.** The free list (`bufpool`) and the list of filled buffers
(`datahead` to `datatail`) are sequences of buffers, with the code's two counters
beside them; `hand[t]` is the buffer that a thread owns and `contents` what was
last written into a buffer. An action is a public method, with `poolmutex` held
from its first to its last access; `load_data_unlocked`, which two of them call,
is an operator. Filling a buffer happens without the lock and is an action of
its own. `allocate_data` has the three outcomes of the code: a free buffer, the
eldest filled one, `exit(-1)`.

**VideoPath.** `filter_wait` and `encoder_timedwait` are the moment at which the
thread begins to wait, one step after it found its queue empty; `source_notify`
and `filter_notify` are apart from the store that precedes them. The encoder's
wait ends also by its time limit, the filter's only by a notification or, with
`Spurious`, for no reason. The filter's exit after a wait without a frame is
kept as `exited = "filter"`.

**Timestamps.** Time is a number of ticks that a step advances by one, and that
another may once set back; `Second`, `Milli`, the frame rate, the sample rate and
the packet size are parameters, so that the roundings of the code are kept: frame
intervals and numbers by division, the nap of the capture thread in whole
milliseconds on Windows. `age` is a history variable.

**AudioPath.** One sample of the model is one frame of the code (all channels of
one instant), so sizes in bytes become counts. `audio_source_buffer_fill` is one
action because the code holds `bufmutex` throughout; a read is two when it waits
in between. Positions `bufhead` and `buftail`, the move to the front and the
rewinding of an empty buffer are as in the code.

**SoundCapture.** Time passes while the thread sleeps.
The device delivers packets of one period while something is played and nothing
otherwise; whether the nap was silent is decided as the code does, by looking
for a packet when it is over. A tick of the thread's clock is a part of a sample
(`Grain`), and the silence that is put in is whole samples: the code divides, and
starts the next silence from the present time, so that the rest is lost.

**RtspServer.** `pc[c]` is the place of a session thread; a label stands
wherever another thread can observe or change something before the next
statement: after the lock is taken, after each `pthread_create`, between
unlocking and resetting `threadLaunched` on the failure path, between closing
the socket and unregistering, at each `pthread_join`. `tpc[t]` does the same for
encoder threads: the try-lock loop of `encoder_send_packet_all`, each client of
its loop, the header and the body of each packet in `rtsp_write_bindata`, whose
buffer holds one or more. RTSP requests are
chosen freely (`\E` over channels, session ids and transports), and requests
that are answered with an error and change nothing are stuttering steps.
`strcmp` on a null session id and a join of a thread that is not there
are undefined behaviour: the first sets `crashed`, the second either is ignored
or sets it. The first takes a client that plays before any SETUP, or one whose
second SETUP failed, which frees the id and leaves the state READY; `Polite`
clients do the latter.

**AcceptLoop.** `cs` is the loop's variable; a session thread that has been
created reads it in a later step (`starting`), after which it has a descriptor
of its own (`fd`). A descriptor that is closed may be given to the next
connection, while encoder threads may still write to it
(`write_to_stranger`). `hurried` records that a connection came before the last
thread had read the variable.

**RtspRequests.** Requests are lines over bytes of which the newline, the dollar
that opens an RTCP packet and its two length bytes have their meaning; `rbuffer`, `rbufhead` and `rbuftail` are the code's, and a `read` brings
any non-empty part of what has arrived. `rtsp_read_binary` does not look at the
length of the buffer that it copies into: a longer packet is copied over what
lies behind it on the stack, after which the model stops (`buffer_overruns`).

**ConfigStore, ServerStart.** A step reads one line of a file, or does one call
of `main`; each call that may fail has a failing action beside it. A capture that
fails ends the process on X (`capture_fails`); elsewhere its result is ignored,
and the frame keeps what its buffer held, or what a surface held that no call
filled (`capture_calls`). A file that includes itself exhausts the stack, since
each level has a large buffer on it, or is refused at the limit of open files,
whichever is lower: at a depth of `MaxOpen` both may happen. Threads that
`main` starts look up their pipes when they run, not when they are started.
Which codec an encoder opens, which entries of `video-specific` it gets and where
the iterator stands are kept as in the code. A client whose codec is not
configured crashes the server (`per_client_init`), which is a state of its own.

**ScreenCapture, SoundDevice, InputReplay.** These are functions of a machine (a
back end, the size and pitch of its screen, its sound device), of a window and of
the configuration. Images are functions from positions in memory to pixels of
the screen, so that strides, flipped rows and cut-off borders are visible;
addresses are counted in pixels. Fields of input messages are 16 bits wide.

**CtrlQueue.** Positions are counted in units of `qunit`; `qhead`, `qtail` and
their wrap-around are the code's. `ctrl_queue_write_msg` and the signal are
two steps, and the control thread sends from its unit without the mutex. When
`ctrl_client_init` fails the controller may stay enabled: a socket that cannot be
made does not disable it.

**CtrlConnection.** Here bytes matter: messages carry their size in their first
two bytes, and the stream is cut between any two of them. `buf`, `bufhead` and
`buflen` are the code's variables. A handshake is compared for as many bytes as
it says it has, so that a short one that agrees so far is accepted; one with the
right contents may be refused, because the comparison runs one byte over its end. A TCP connection
reset counts as its end.

**ClientPlayer.** `rpc` is the place of the live555 thread: waiting for a
response or packet, or inside a handler, with a label at each access to something
shared: reading `surface`, pushing an event, storing a picture, stamping the
watchdog. Looking at `surface` and allocating a buffer is one step, and storing
and asking to render are two, as in `play_video_priv`. The main thread's actions
are the cases of `ProcessEvent`; `create_overlay` looks whether the window is there
and publishes it in a later step. `SDL_PushEvent` on a full queue loses the
event. The watchdog's check is one step under its mutex, which it keeps (`held`)
when it gives up; `idle` counts its periods. `packet_queue_get`, which waits on a
condition variable in a loop under the queue's mutex, is an action enabled when
there is a packet. Packets are received from the response to PLAY on. The sinks
are there from SETUP on, and a packet may overtake that response; the thread
then does with it what it does later, and goes back to waiting for the response.
These interleavings are left out: with them the run doubles.

**UnitAssembly, SoundPlayer.** Pieces carry the number of their unit, their part
and their size; the private buffer is a sequence of them with the code's limit
in bytes. The sound thread's `audiobuf` and `abpos` are the code's; decoded
frames are sequences of sample numbers, and silence is a mark. A frame is cut off
at the end of `audiobuf`; the silence for a packet that is not decoded is not, and
the model stops where it is written beyond the end (`silence_overruns`).

## 4. Runs and bounds

| Run | Instance | Shows |
|---|---|---|
| `server_start` | configuration texts with includes, maps, mistakes and a file that includes itself; five back ends for the screen, eight windows, ten sound devices, clients with four URLs, any call failing, those of a capture among them; a pool of 3 buffers with 2 producers and 2 consumers | options mean what the text says (`ConfigMeansText`), `StartsWell`, `FrameShowsWindow`, `PointerHitsPixel`, `PlanesFit`; a buffer has one place and the pool implements `LossyQueue` |
| `server_faults` | 2 connections over 2 descriptors, 1 video encoder, 2 thread ids, UDP and TCP, every fault switched on, clients that obey nothing; or one connection with up to 3 of 8 requests and RTCP packets in a read buffer of 6, lines and packets being copied into 5 | `NoDanglingContext`, `PlayingHasSession`, `StreamsStable`, `ConnectionsServed`; `AnsweredInOrder`, `RequestsAnswered` |
| `server_sessions` | 2 polite connections, video and audio encoder, 3 thread ids, no faults, fair; deadlock checked | `EncodersServeClients`, `ClockArmedBetweenSessions`, `PoliteClientsAreSafe`, `DepartingClientLeaves` |
| `server_mutex` | 1 connection | finding, section 7 |
| `stamps` | 2 ticks to a second, 3 pairs of rates (one on Windows), packets of 2 samples, 2 sessions, 6 ticks, the clock set back by 1 | `StampsIncrease`, `StreamsKeepToClock` |
| `video` | 2 pools of 2, 4 frame numbers, encoder failures, spurious wake-ups, fair; or 2 units of up to 3 pieces, a sink of 2 and a private buffer of 5 bytes, the clock moved once | order, pool never exhausted, `CondMapLive`, both pipes are lossy queues, `EncoderStops`, `VideoFlows`; `UnitsWhole` |
| `video_fatal` | pools of 8, no failure and no spurious wake-up | finding |
| `audio` | chunks of up to 2 in a buffer of 8, packets of 3, 12 samples, fair; or 4 packets of 1 to 3 frames of 1 to 6 samples against requests of 2 and a buffer of 6; or periods of 2 samples, 2 ticks to a sample, naps of 5 ticks that last up to 6, 24 ticks, 2 bursts of sound | order, `SampleQueue`, `EncoderStops`; `SoundWhole`; `SoundKeepsClock` |
| `ctrl_queue` | 2 writers, 4 units, 2 messages, faults, fair | bounded fifo, `EventsFlow` |
| `ctrl` | TCP and UDP, 2 clients, 3 messages each, at most 2 datagrams in flight, buffer of 7; Windows and a Mac; over TCP one client with two keys that share one of the machine, one with a button and a key that a Mac has not; over UDP a button | what is replayed is what was sent, in order and all of it; `NoStuckKeys` |
| `ctrl_cut` | TCP alone, cuts anywhere | finding |
| `client` | one video, one audio stream, 4 pictures, pool and event queue of 2, watchdog limits of 0 and 1 periods, fair | one window, no rendering without it, pictures shown in order, a stalled or closed client ends |

Three runs (`server_faults`, `video`, `audio`) hold models that share no state:
a behaviour shows one of them, and the others stay in their initial states. The
MC module says so in its next-state relation. It is not a composition, and no
property relates the parts.

Why these bounds are enough:

* *Pool.* Three buffers are fewer than four threads, so all three outcomes of
  `allocate_data` occur; every list is empty, a singleton and full at some time.
  The theorems cover all other sizes. Buffers, threads and frames are
  interchangeable (`SYMMETRY`).
* *Start-up.* Each line of a text is there for an order that the code treats in
  its own way: an entry before and after a plain assignment, in the file and in
  an included one, before and after an iteration. `MaxOpen` is the depth at
  which a file that includes itself comes to its end. Screens are 4 by 4 and 5 by 3
  pixels, windows have sides of 2 and 3: inside, at each edge, beyond it, with a
  border. Texts with included files and clients are combined with one machine
  only, since neither depends on it.
* *Server.* The interesting conflict is between one session that is leaving and
  one that is arriving; a third only repeats one of the roles. A thread id more
  than encoders lets old and new threads of a channel coexist. `server_faults`
  has one encoder to afford TCP and every fault; `server_sessions` has two.
  The theorems cover any number.
* *Requests.* A buffer of 6 is full, empty, and moved to the front with two to
  three units in it; one packet does not fit into it, and a line and a packet that
  fit are too long for the buffer they are copied to.
* *Stamps.* Two ticks to a second against rates of 1 and 2 make frames and
  packets last one or two ticks, so that stamps repeat, skip and are corrected.
* *Video.* Two buffers per pool are the least with which the filter can run
  (`PoolNeverExhausted` says so). `MaxFrames` is 4; with `Recycle` the last
  number is captured for ever, so that the run's liveness is about an endless
  stream and not about one that ends. Units of one to three pieces fit, fill and
  exceed the two buffers, and one piece is empty.
* *Audio.* `MaxSamples` 12 is one buffer and a half. A packet of 3 neither
  divides the buffer nor is a multiple of a chunk, so packets are cut across
  reads, and the buffer is moved to the front in the midst of a packet. In the
  client one frame is cut off at the end of the buffer, one finds no room at all,
  and silence is written beyond the end. Naps are no whole number of samples, so
  that each silent one loses half a sample.
* *Queue.* A ring of 4 wraps around with 0 to 3 messages in it.
* *Connection.* `BufLen` 7 holds two messages of 3 bytes and a part of
  another. `MaxSent` bounds what a TCP client sends and what is recorded of UDP;
  `MaxFlying` bounds datagrams in the network, which may be lost, repeated and
  reordered.
* *Client.* The first picture is always skipped for the window; the fourth is the
  first that makes a pool of 2 evict one. A queue of 2 overflows. Packets are not
  bounded. The watchdog warns after more than 0 and gives up after more than 1 of
  its periods, so both branches lie ahead at any time.

Deadlock is checked in `server_sessions`, where the server must always be able
to go on. Elsewhere the system may stop: the process exits or crashes
(`server_start`, `server_faults`, `video`, `ctrl_queue`, `client`), all that the
bounds allow has been sent, captured or played (`audio`, `stamps`, `ctrl`), or a
lost mutex is the point of the run (`server_mutex`).

`ctrl` assumes `Tidy`: each reception cuts no message but the first in the
buffer, and the handshake arrives alone. Without it the code does not split the
stream correctly (finding `ctrl_cut`; the handshake's case is a hazard in
`PROJECT.json`). So the run tells how far the splitting can be trusted.

The exceptions that properties make are part of what the runs show: each names
a case in which the code does not keep the promise, and the property is violated
without it. They are stated with the properties; the list of hazards repeats
them.

## 5. Fairness

Threads that can take a step eventually do: weak fairness of the session threads
(inside PLAY, while leaving, and for reading what has arrived; never of the
decision of a client to send a request), of the encoder, capture, filter and
control threads, and of the server's input thread. The operating system gives no
more than that, with these additions, stated as such:

* `encoder_lock` and the writer mutex are strongly fair: a thread for which the
  lock is free again and again gets it. Even so, two encoders that overlap their
  read locks can keep the lock from being free at all; glibc's read-write lock
  prefers readers by default, and the code polls with `pthread_rwlock_tryrdlock`.
  `DepartingClientLeaves` therefore speaks of behaviours in which the lock is
  free of readers again and again, as it is in practice because encoders wait
  for their next frames. Without that premise it is violated with two encoders.
* In `ctrl_queue`, the user keeps producing events. Without it a
  message whose signal came before the wait stays in the ring, as in the
  code. `EventsFlow` makes an exception of a ring that filled before the control
  thread waits: no event is accepted any more, none signals, and the thread
  waits for ever.
* `RequestsAnswered` makes an exception of a thread that waits in `select` while
  the rest of what it has to answer is already in its own buffer
  (`WaitsInVain`), and of one whose buffer a packet has overrun.

In `client` the four threads are fair and time passes; packets, responses, the
user and the sound device are not. `QuitEnds` and `StalledClientEnds` have one
exception, `Hangs`: `SDL_Quit` closes the sound device and so waits for a callback
that waits for an audio packet, after the thread that would bring one and the
watchdog were cancelled. TLC refutes both properties without it: a client whose
audio has stalled may stay for ever, although it said that it would terminate.

`VideoFlows` needs no fairness of clients: it speaks of stretches in which the
encoder runs.

## 6. What is proved

All theorems hold for every value of the constants that satisfies the modules'
ASSUMEs; further premises are stated with the theorem.

**Pipeline** (`ServerStartProofs`). `PoolInv` is `TypeOK`, `OnePlace`, `CountsAgree`
and `FatalOnlyWhenAllOwned` together; none of them is inductive alone, since a
step keeps a buffer in one place only if the lists have no repetitions, and an
exit is explained by the place of every buffer. From `PoolInv` follow its parts,
that a pool with at least as many buffers as threads never exits
(`NeverFatalCorrect`, by counting), and that the pool implements `LossyQueue`
(`Refinement`): each method is a step of it or a stutter.

**ServerStart** (`ServerStartProofs`). `PoolInUse`: every step of the program is a
step of the pool or leaves it alone, so that what was proved of the pool alone
holds of the server that uses it. The other theorems quantify over machines (any
screen, pitch and back end), desktops (any windows), configurations and failing
calls, and rest on four parts, each inductive over all the steps of main, of the
threads and of the client:

* `PictureInv`: the rectangle is that of a window that was found, of even size
  and visible (`CropInv`); the pipes exist in the order in which they were set up,
  with the size of the rectangle or of the screen, and a driver is connected where
  one is needed (`PipeInv`); the frame that was taken holds what the back end
  copies of the rectangle (`ShotInv`). With the arithmetic of the back ends (rows
  that are apart, copied line by line or in one block: `ScreenShows`, `CropShows`)
  and of the planes (`EvenPlanes`) it gives `PlanesFit` and what a frame shows
  (`ShowsCorner`), where the calls of the capture have succeeded.
* `MainInv`: of its lists of modules main has done what is before the next
  entry; so at the end of a list everything in it left what the next stage looks
  for. `LaunchInv` and `BegunInv` say the same of the client's threads, and that
  encoders and threads have different names.
* `ServerInv`: a control server only where the controller is enabled. With
  `MainInv` it follows that the replay has its rectangle when a client points.
* `PointInv`: the pointer is as far from the origin of the picture as what was
  pointed at. `ScaledBack` is the arithmetic: scaled to 65536 parts and back, a
  position loses one pixel at most on any screen below 65536 pixels.
  `PointerHitsPixel` follows, since frame and replay count from the same corner.

**ConfigStore in ServerStart** (`ServerStartProofs`). What the files say is defined
without the store: `Flat` puts included files in place, to a depth of as many
files as may be open. The proof reads them as the code does, with a stack of open
files, and goes by three parts:

* `StoreInv`: while files are read, what the store holds is what the lines read so
  far say (`Means`), and those lines followed by what is left of each open file,
  innermost first (`ToRead`), are all lines. `ToRead` needs the depth at which an
  open file stands, since a file that includes itself is cut off there. Afterwards
  the store says what text and URL mean (`Says`), wherever the iterator is.
* `VsoInv`: the options handed to the encoder are those whose keys are before the
  iterator (`Collected`), so in the end all of them; `OptionsAre` says that a
  dictionary of them is the map.
* `CodecInv`: the settings name the first codec of the list that is there, and
  none only where the text names none; an encoder that is open has that codec.

`ConfigMeansText` follows. The attempt to prove it corrected what a port means:
an option that a URL sets loses its map, `server-port` like the other two, but
only where the URL has a port (`FromUrl`); no text of the run had given a map to
`server-port`, and two now do. `NameInv` (a rectangle is that of the window the
text names) gives the rest of `FrameShowsWindow`. `EndInv` says that an end of
the program, of a thread or of an encoder has one of the reasons of `StartsWell`;
its proof shows that some ends cannot come about: a filter never lacks the pipe
of the source, since the lists of main are in order (`PipesThere`, `InitInOrder`),
and what `rtspconf_parse` refuses is lacking in the text (`RefusedLacks`).
`Hidden` was tightened on the way: the border of a window counts in X only.

Assumed of the constants: lines are assignments, entries, includes, malformed or
skipped, and no value is empty, whose number is 0 (`TextAssumption`); no codec
that is there has the name that stands for none (`CodecAssumption`); a machine
has a screen of 1 to 65535 pixels in each direction with lines at least as long,
and one of the back ends and sound devices that the code has
(`MachineAssumption`); a desktop is a finite list of windows
with a size (`DesktopAssumption`); the place of a pointer that was never moved is
no place on the screen (`Nowhere`).

**Lists** (`ListLemmas`). What unlinking the head and linking at the tail do to
the elements of a list without repetitions; sums of lists; flattening a list of
lists; a list without the elements of a set; strings cut in two ways, slices of
buffers, and the least of some numbers. Induction over data has to do
without the library's theorems, whose parameter is an operator: `SetInduction`
and `SeqInduction` take a set in place of a predicate, and each use
separates the set of those numbers or lists of which the claim is true.

**VideoPath** (`VideoPathProofs`). `VideoInv` has the types, that a thread owns a
frame exactly between loading and storing it (`HandInv`), that on the way from
capture to connection every frame is later than those before it, the last one
encoded among them (`OrderInv`, over both queues and the four hands), that there
is a number for the frame being captured (`NumberLeft`), and `CondMapLive`. Order
in the queues alone would not be inductive: what a thread stores must be later than
what is queued, and what the encoder sends later than what it sent. From it
follow `EncodedInOrder` and `PipesAreLossyQueues` for pools of every size;
`PoolNeverExhausted`, for pools of two or more, needs no more than that a thread
which allocates owns one buffer at most.

**UnitAssembly** (`VideoPathProofs`). `UnitInv` says that what is still coming is
the end of the last unit (`EndOfUnit`), that the private buffer holds pieces of
the unit whose stamp it has (`OneUnitEach`), that what was received is what was
handed to the decoder followed by what is buffered (`HandedOver`), and that a unit
which lost nothing so far has its first pieces in the buffer with room for the
rest (`WholeSoFar`, which is what makes `AllWhole` inductive). `UnitsWhole`
follows for units, pieces and buffers of any size.

**Timestamps** (`TimestampsProofs`). `StampInv` adds to the types that the next
audio stamp is a packet after the last one, and that sound waits only while the
encoder reads. From it follows `StampsIncrease` for all rates, packet sizes and
sessions, and for a clock that is set back. `StreamsKeepToClock` needs `ClockInv`:
the clock is armed while neither stream runs (`ArmedInv`); frames are numbered in
order because a turn of the capture thread takes at least an interval
(`SourceInv`); the stamp of a picture stands in a fixed relation to its number
(`VideoInv`); and the stamp of the sample that is read next, together with the
samples that wait, is bounded by the clock (`AudioInv`). The proof corrected the
property: a stamp may be ahead by the buffer and a packet less one sample,
`BufSize + frame_size - 1`, since a packet begins in what was buffered before the
clock was armed; instances with packets of two samples had not told this from
`BufSize + 1`. It also rests on arithmetic about rounding down, in lemmas
(`DivBounds` to `FramesFitTime`).

**AudioPath** (`AudioPathProofs`). `AudioInv` has the types, `HeadBeforeTail`,
that all positions in use hold samples, that the buffer is registered exactly
while the encoder's loop runs, and `StagingFits`. `FillKeeps` and `ReadTakes` say
what a fill and a read do to the buffer; `Steps` reduces every step to one of six
about three sequences (the last packet, the encoder's samples and the buffer's).
From it follow the refinement of `SampleQueue`, and `PacketsInOrder`, whose
invariant says that the concatenation of the three is strictly in the order of
capture and that none of it is newer than the last sample captured.

**SoundCapture** (`AudioPathProofs`). `CaptureInv` accounts for time: no time
passes but in a nap (`NapsFromSilence`); sound is ahead of the clock by no more
than a period less one tick for each beginning of sound (`AheadOfClock`, where
a beginning that falls into a nap is not used up yet), and behind by no more than
what a nap in which sound begins and one in which it ends may lose, and what is
rounded off after each silent nap (`BehindClock`). `SoundKeepsClock` follows for
every period and length of nap.

**SoundPlayer** (`AudioPathProofs`). `SoundInv` says what fits into the decoding
buffer where (`BufferOK`), and that the samples given to the device, those in
the buffer and those in packets and frames that wait are, without silence, all
the samples that came in but those given up (`FlowWhole`). It is inductive over
packets of any number of frames, as long as silence is not written beyond the end
of the buffer; `BufferOK` bounds what is in the buffer when a packet is decoded, so
that this takes a packet for which there is no room besides what the device asks
for. `SoundWhole` is its conclusion.

**RtspServer and AcceptLoop** (`RtspServerProofs`). `ServerInv`: who holds
`encoder_lock` (`LockInv`), which contexts encoder threads can reach (`ReachInv`:
registered ones only, and a registered one has its thread), what a session has
when it plays (`SessionInv`), and when the clock is armed (`ClockInv`). It is
inductive for any number of connections, encoders and threads, with every fault
that the constants allow. `NoDanglingContext`, `PlayingHasSession`,
`ClockArmedBetweenSessions` and `StreamsStable` follow, and hold with the accept
loop (`ConnectionsCorrect`), whose steps are steps of `RtspServer` or stutters.
`ConnectionsServed` needs in addition `ConnInv`: each descriptor in use has one
holder, a session thread or the variable of the loop, and each thread its own.

**Encoder hub** (`RtspServerProofs`). `HubInv` says how slots, threads and
clients go together: outside of `create` and `join` the slots are all filled
when there are clients and all empty when there are none, and inside them up to
the loop's index. It needs `ServerInv`, and that `pthread_create` succeeds:
the path on which it fails is a hazard that the code does not survive. From it
follows, when encoders do not fail either, `EncodersServeClients`, and with `IdInv`
`PoliteClientsAreSafe`: a session that is ready to play has its id, unless a SETUP
has failed. That a client which obeys the protocol can bring the server to
`strcmp(NULL)` in this way is an exception of the property; the first statement
of it had none, since the model gave the null id to other clients only.

**CtrlQueue** (`ControllerProofs`). `QueueInv` has the types, that the unit being
sent is the head of the ring and the ring is not empty (`ReleasesWhatWasSent`),
and that what has been sent is what that unit still holds. The refinement of
`BoundedFifo` is the modular arithmetic of the wrap-around, in lemmas about
`Count` and `At`.

**CtrlConnection** (`ControllerProofs`). Over TCP `StreamInv` says that there is a
list of messages `q`, sent and not replayed yet, whose bytes are those in the
buffer followed by those on the way (`Ahead`). Alone it is not inductive, since
the thread may find half a message at a place where it expects a beginning, or
wait for bytes that it has: before `recv` the buffer holds less than a message
(`LessThanOne`); after it, whole messages or no more than the first
(`WholeOrFirst`). A client that is not accepted yet has its handshake on the way
before its messages (`Greeted`). Over UDP the buffer holds one datagram
(`DatagramInv`). From it follow `ReplayedInOrder`, and that the server goes on to
another client only when the last one has nothing left to replay: the safety part
of `EverythingReplayed`. The theorems assume `Tidy`: what happens without it is
the finding of `ctrl_cut`. Assumed of messages, handshakes and malformed datagrams
is that they say their size or do not, and fit into the buffer
(`ConnectionAssumption`); that part of the module was written down for the proof.

**RemoteInput** (`ControllerProofs`). `InputInv` adds to `ConnInv` that a user
holds what the messages that were sent have pressed and not released (`Downs`), and
that the machine holds what those replayed have, and at most what users held who
have left (`Follows`): their releases never come, since the code releases nothing
when a client goes. A key that is the same to the machine as another one may be
released by that other one. `NoStuckKeys` follows, as at its moment what is sent is replayed.
`UsersAreClients` shows that the module's steps are steps of `CtrlConnection`.
Assumed is that different messages have different bytes (`InputAssumption`).

**RtspRequests** (`RtspServerProofs`). `RequestsInv`: the units sent are a list
that is answered followed by one that is not; the answers are to the request
lines of the first; and the bytes in `rbuffer` and on the way are those of the
second, less the lines read of its first request while the thread is in its
headers (`Unanswered`, `Partly`). That is inductive because a line or packet that
is whole in the buffer is the first of the stream, wherever `read` has cut it
(`LineOfText`, `TakenIsFirst`, `ReadKeepsBytes`). `AnsweredInOrder` follows, for requests with any number of
headers and buffers of any size. Assumed of what a client sends (`RequestsAssumption`): a request has
one empty line, its last, and no header that begins with a dollar; a packet has
the length that it says; and otherwise it is a line that ends the session, of
another protocol or too long.

**ClientPlayer** (`ClientPlayerProofs`). `ClientInv` is: the types; that each
buffer of the pipeline has one place (`PlaceInv`); that there is one window
exactly when its surface is published, that a request for a window is handled only
before that, and that requests to render exist only after it (`WindowInv`); that
every picture in the pipeline has a request to render that is queued or about to
be, unless the event queue overflowed (`RequestInv`, by counting events); and
that the picture shown, the one loaded, those in the pipeline and the one being
decoded are in order (`OrderInv`). From it follow `OneWindow`, and the safety part
of `PicturesShown`, for queues and pipelines of every size.

The type invariants of these modules are not checked by runs of their own:
they are conjuncts of the inductive invariants that are proved.

Only model-checked: all liveness, which this prover does not reach
(`DepartingClientLeaves`, `EncoderStops`, `VideoFlows`, `EventsFlow`,
`RequestsAnswered`, that what is sent is replayed in
`EverythingReplayed`, that pictures come to the screen in `PicturesShown`,
`StalledClientEnds`, `QuitEnds`). Every invariant and every action property of the
passing runs is a theorem, and so are the safety parts of `EverythingReplayed` and `PicturesShown`.

## 7. Findings

| Run | Where | What |
|---|---|---|
| `server_mutex` | `core/rtspserver.cpp:119` | `rtsp_write_bindata` returns with the connection's writer mutex locked when the payload cannot be written |
| `video_fatal` | `module/filter-rgb2yuv/filter-rgb2yuv.cpp:204` | a notification that comes after the frame it announces was taken ends the process, at a place marked "should never be here" |
| `ctrl_cut` | `core/controller.cpp:422` | a message cut by the end of a reception, after another one, is reassembled at the wrong offset |

## 8. Not modelled

| Part | Why |
|---|---|
| Replies of the RTSP server between or inside interleaved packets | a question about the bytes on a connection, which `RtspServer` does not have; listed as a hazard |
| Several video channels, several clients of one audio source | the configurations of the repository use one; the arrays are indexed by a channel that does not change |
| Contents of SDP, RTSP headers and RTCP reports | text without influence on the state that is modelled |
| Encoding, decoding, resampling, conversion of colours | libavcodec and libswscale; steps that may fail |
| Reception of RTP packets, timing of RTCP | live555; `UnitAssembly` assumes what it documents, pieces in order with gaps |
| Layout of the client's window and text, the full table of key codes | keys are represented by those that the tables treat differently |
| Functions that no program of the repository calls: `XcapAlsaReadiQueue`, the server's side of the control queue (`ctrl_server_readnext`), `ga_conf_save` and the readers of multiple values, `deinit` functions of the modules | never executed |
| `core/ffmpeg`, `core/ffmpeg-1.1` | headers of another project: declarations |
| Logging, memory and name-resolution helpers | no state of their own, or calls of the operating system |
