----------------------------- MODULE RtspServer -----------------------------
(***************************************************************************)
(* The streaming half of the server: one session thread per RTSP           *)
(* connection (rtspserver in core/rtspserver.cpp), the shared encoder      *)
(* threads they start and stop (core/encoder-common.cpp, with the loops of *)
(* module/encoder-video and module/encoder-audio), and the locks between   *)
(* them: the read-write lock encoder_lock and one writer mutex per         *)
(* connection.                                                             *)
(*                                                                         *)
(* A context lives on its session thread's stack; encoder threads reach it *)
(* through encoder_clients.  state, threadLaunched and the fmtctx of a     *)
(* context are read by the encoder threads without the lock that the       *)
(* session threads would need to hold.                                     *)
(***************************************************************************)
EXTENDS Naturals, Sequences, FiniteSets, Functions

CONSTANTS Client,       \* connections
          Encoders,     \* the registered encoders: video ones first, then audio
          Tid,          \* thread ids pthread_create can hand out
          SessionId,    \* what the random session id generator can return
          Transports,   \* lower transports the clients ask for
          NoClient, NoThread, NULL,
          Polite,       \* clients send what RTSP allows, and PLAY before leaving
          CreateFails,  \* pthread_create may fail
          EncodeFails,  \* an encoder may fail to start or to encode
          WriteFails    \* a write on an open connection may fail

Channel == Range(Encoders)

Stream == [tr : Transports, sid : SessionId]

ASSUME ServerAssumption ==
    /\ NoClient \notin Client /\ NoThread \notin Tid
    /\ NULL \notin SessionId /\ NULL \notin Transports /\ NULL \notin Stream
    /\ Encoders \in Seq(Channel) /\ Encoders # <<>> /\ IsInjective(Encoders)
    /\ Transports \subseteq {"udp", "tcp"}
    /\ {Polite, CreateFails, EncodeFails, WriteFails} \subseteq BOOLEAN

VARIABLES
    pc,             \* where each session thread is
    state,          \* ctx->state
    session_id,     \* ctx->session_id
    fmtctx,         \* fmtctx[c][e]: the stream set up for channel e, or NULL
    clients,        \* encoder_clients
    threadLaunched,
    sync_reset,
    writer,         \* the session thread that holds encoder_lock for writing
    readers,        \* the encoder threads that hold it for reading
    idx,            \* the loop index of the thread in "create" or "join"
    slot,           \* vethreadId[] and aethreadId: the thread, while not joined
    tpc,            \* where each encoder thread is
    role,           \* the channel a thread encodes
    basePts,        \* whether a thread has synchronised its clock
    tosend,         \* the clients its loop over encoder_clients still has to visit
    cur,            \* the client it is writing to
    wmutex,         \* the owner of each context's rtsp_writer_mutex
    crashed         \* the process has died of undefined behaviour

sessionVars == <<state, session_id, fmtctx>>
hubVars     == <<clients, threadLaunched, sync_reset, writer, idx, slot>>
threadVars  == <<tpc, role, basePts, tosend, cur, readers, wmutex>>
vars == <<pc, sessionVars, hubVars, threadVars, crashed>>

SessionAt == {"absent", "orphan", "serving", "reg", "create", "regfail", "played",
              "close", "unreg", "join", "deinit"}
ThreadAt  == {"none", "start", "loop", "try", "send", "wlock", "header", "body", "done"}

TypeOK ==
    /\ pc \in [Client -> SessionAt]
    /\ state \in [Client -> {"IDLE", "READY", "PLAYING", "PAUSE", "TEARDOWN"}]
    /\ session_id \in [Client -> SessionId \cup {NULL}]
    /\ fmtctx \in [Client -> [Channel -> Stream \cup {NULL}]]
    /\ clients \subseteq Client
    /\ threadLaunched \in BOOLEAN /\ sync_reset \in BOOLEAN
    /\ writer \in Client \cup {NoClient}
    /\ readers \subseteq Tid
    /\ idx \in 1..Len(Encoders) + 1
    /\ slot \in [Channel -> Tid \cup {NoThread}]
    /\ tpc \in [Tid -> ThreadAt]
    /\ role \in [Tid -> Channel]
    /\ basePts \in [Tid -> BOOLEAN]
    /\ tosend \in [Tid -> SUBSET Client]
    /\ cur \in [Tid -> Client \cup {NoClient}]
    /\ wmutex \in [Client -> Tid \cup {NoThread}]
    /\ crashed \in BOOLEAN

Init ==
    /\ pc = [c \in Client |-> "absent"]
    /\ state = [c \in Client |-> "IDLE"]
    /\ session_id = [c \in Client |-> NULL]
    /\ fmtctx = [c \in Client |-> [e \in Channel |-> NULL]]
    /\ clients = {}
    /\ threadLaunched = FALSE
    /\ sync_reset = TRUE
    /\ writer = NoClient
    /\ readers = {}
    /\ idx = 1
    /\ slot = [e \in Channel |-> NoThread]
    /\ tpc = [t \in Tid |-> "none"]
    /\ role \in [Tid -> {Encoders[1]}]
    /\ basePts = [t \in Tid |-> FALSE]
    /\ tosend = [t \in Tid |-> {}]
    /\ cur = [t \in Tid |-> NoClient]
    /\ wmutex = [c \in Client |-> NoThread]
    /\ crashed = FALSE

Goto(c, l)  == pc' = [pc EXCEPT ![c] = l]
TGoto(t, l) == tpc' = [tpc EXCEPT ![t] = l]

(* encoder_lock can be taken for writing.                                  *)
wrlock_over_readers == writer = NoClient                             \* mutant
LockFree            == writer = NoClient /\ readers = {}

-----------------------------------------------------------------------------
(* Session threads: the connection and its commands.  A command that is    *)
(* answered with an error and changes nothing is a stuttering step.        *)

(* When the contexts that describe the streams cannot be made, the thread  *)
(* ends, and leaves the connection open with nobody serving it.            *)
per_client_init(c) == Goto(c, "serving") \/ (EncodeFails /\ Goto(c, "orphan"))

(* rtspserver starts with a fresh context.                                 *)
rtspserver(c) ==
    /\ pc[c] = "absent"
    /\ state' = [state EXCEPT ![c] = "IDLE"]
    /\ session_id' = [session_id EXCEPT ![c] = NULL]
    /\ fmtctx' = [fmtctx EXCEPT ![c] = [e \in Channel |-> NULL]]
    /\ wmutex' = [wmutex EXCEPT ![c] = NoThread]
    /\ per_client_init(c)
    /\ UNCHANGED <<hubVars, tpc, role, basePts, tosend, cur, readers, crashed>>

(* The error exit of SETUP ends the session, whatever streams it has, and  *)
(* frees the stream the request was for; ctx->state stays as it is.        *)
error_setup(c, e) ==
    /\ session_id' = [session_id EXCEPT ![c] = NULL]
    /\ fmtctx' = [fmtctx EXCEPT ![c][e] = NULL]
    /\ UNCHANGED state

(* SETUP is for a session that does not play yet.                          *)
setup_when_paused(c) == state[c] \in {"IDLE", "READY", "PAUSE"}      \* mutant
setup_state(c)       == state[c] \in {"IDLE", "READY"}

(* A transport of the wanted kind among those that the request offers.     *)
find_transport(offered, lower) == IF lower \in offered THEN lower ELSE NULL

supported(offered) ==
    IF find_transport(offered, "udp") # NULL THEN "udp" ELSE find_transport(offered, "tcp")

(* The request fits: right session, a transport, a stream not yet set up.  *)
setup_accepted(c, e, match, tr) == match /\ tr # NULL /\ fmtctx[c][e] = NULL

(* hdr: the session id in the request, NULL when there is none; offered:   *)
(* the transports it offers.                                               *)
rtsp_cmd_setup(c, e, hdr, offered) ==
    /\ pc[c] = "serving"
    /\ setup_state(c)
    /\ Polite => hdr = session_id[c] /\ offered # {} /\ fmtctx[c][e] = NULL
    /\ \E id \in SessionId :
         LET tr    == supported(offered)
             new   == session_id[c] = NULL /\ hdr = NULL
             sid   == IF new THEN id ELSE session_id[c]
             match == sid # NULL /\ (new \/ sid = hdr)
         IN  \/ /\ setup_accepted(c, e, match, tr)
                /\ session_id' = [session_id EXCEPT ![c] = sid]
                /\ fmtctx' = [fmtctx EXCEPT ![c][e] = [tr |-> tr, sid |-> sid]]
                /\ state' = [state EXCEPT ![c] = "READY"]
             \/ /\ ~setup_accepted(c, e, match, tr)
                   \/ EncodeFails                \* rtp_new_av_stream fails
                /\ error_setup(c, e)
    /\ UNCHANGED <<pc, hubVars, threadVars, crashed>>

(* PLAY, PAUSE and TEARDOWN compare the request's session id with the      *)
(* context's through strcmp, which a NULL pointer does not survive.        *)
session_null_matches(c, hdr) == hdr = session_id[c]                  \* mutant
SessionMatches(c, hdr) == session_id[c] # NULL /\ hdr = session_id[c]

(* Clients that obey the protocol send none of them before a SETUP that    *)
(* succeeded.                                                              *)
strcmp_null(c) ==
    /\ pc[c] = "serving"
    /\ Polite => state[c] # "IDLE"
    /\ session_id[c] = NULL
    /\ crashed' = TRUE
    /\ UNCHANGED <<pc, sessionVars, hubVars, threadVars>>

rtsp_cmd_play(c, hdr) ==
    /\ pc[c] = "serving"
    /\ SessionMatches(c, hdr)
    /\ state[c] \in {"READY", "PAUSE"}
    /\ Goto(c, "reg")
    /\ UNCHANGED <<sessionVars, hubVars, threadVars, crashed>>

rtsp_cmd_pause(c, hdr) ==
    /\ pc[c] = "serving"
    /\ SessionMatches(c, hdr)
    /\ state[c] = "PLAYING"
    /\ state' = [state EXCEPT ![c] = "PAUSE"]
    /\ UNCHANGED <<pc, session_id, fmtctx, hubVars, threadVars, crashed>>

(* Label quit, reached by TEARDOWN, a protocol error, or a connection that *)
(* ends: the state changes first, then the socket is closed.               *)
quit(c) ==
    /\ pc[c] = "serving"
    /\ Polite => state[c] \in {"PLAYING", "PAUSE"}
    /\ state' = [state EXCEPT ![c] = "TEARDOWN"]
    /\ Goto(c, "close")
    /\ UNCHANGED <<session_id, fmtctx, hubVars, threadVars, crashed>>

close_fd(c) ==
    /\ pc[c] = "close"
    /\ Goto(c, "unreg")
    /\ UNCHANGED <<sessionVars, hubVars, threadVars, crashed>>

(* The stack frame with the context, its streams and its mutex is gone.    *)
per_client_deinit(c) ==
    /\ pc[c] = "deinit"
    /\ fmtctx' = [fmtctx EXCEPT ![c] = [e \in Channel |-> NULL]]
    /\ session_id' = [session_id EXCEPT ![c] = NULL]
    /\ state' = [state EXCEPT ![c] = "IDLE"]
    /\ Goto(c, "absent")
    /\ UNCHANGED <<hubVars, threadVars, crashed>>

-----------------------------------------------------------------------------
(* Session threads: encoder_register_client and encoder_unregister_client. *)

register_restarts(c) ==         \* mutant: encoder_clients.size() == 0 not tested
    /\ pc[c] = "reg"
    /\ LockFree
    /\ writer' = c
    /\ idx' = 1
    /\ threadLaunched' = TRUE
    /\ Goto(c, "create")
    /\ UNCHANGED <<sessionVars, clients, sync_reset, slot, threadVars, crashed>>

register_lock(c) ==
    /\ pc[c] = "reg"
    /\ LockFree
    /\ writer' = c
    /\ idx' = IF clients = {} THEN 1 ELSE Len(Encoders) + 1
    /\ threadLaunched' = (threadLaunched \/ clients = {})
    /\ Goto(c, "create")
    /\ UNCHANGED <<sessionVars, clients, sync_reset, slot, threadVars, crashed>>

(* Thread ids are opaque, so which free one a new thread gets is no choice  *)
(* of anybody.                                                             *)
register_create(c) ==
    /\ pc[c] = "create" /\ idx <= Len(Encoders)
    /\ \E t \in Tid : tpc[t] = "none"
    /\ LET t == CHOOSE t \in Tid : tpc[t] = "none" IN
         /\ TGoto(t, "start")
         /\ role' = [role EXCEPT ![t] = Encoders[idx]]
         /\ basePts' = [basePts EXCEPT ![t] = FALSE]
         /\ slot' = [slot EXCEPT ![Encoders[idx]] = t]
    /\ idx' = idx + 1
    /\ UNCHANGED <<pc, sessionVars, clients, threadLaunched, sync_reset, writer,
                   tosend, cur, readers, wmutex, crashed>>

(* The lock is given back before threadLaunched is reset.                  *)
register_create_fails(c) ==
    /\ pc[c] = "create" /\ idx <= Len(Encoders)
    /\ CreateFails
    /\ writer' = NoClient
    /\ Goto(c, "regfail")
    /\ UNCHANGED <<sessionVars, clients, threadLaunched, sync_reset, idx, slot,
                   threadVars, crashed>>

register_fails(c) ==
    /\ pc[c] = "regfail"
    /\ threadLaunched' = FALSE
    /\ Goto(c, "serving")
    /\ UNCHANGED <<sessionVars, clients, sync_reset, writer, idx, slot, threadVars, crashed>>

register_done(c) ==
    /\ pc[c] = "create" /\ idx > Len(Encoders)
    /\ clients' = clients \cup {c}
    /\ writer' = NoClient
    /\ Goto(c, "played")
    /\ UNCHANGED <<sessionVars, threadLaunched, sync_reset, idx, slot, threadVars, crashed>>

(* The end of rtsp_cmd_play, after the lock is released.                   *)
play_done(c) ==
    /\ pc[c] = "played"
    /\ state' = [state EXCEPT ![c] = "PLAYING"]
    /\ Goto(c, "serving")
    /\ UNCHANGED <<session_id, fmtctx, hubVars, threadVars, crashed>>

unregister_joins(c) ==          \* mutant: encoder_clients.size() == 0 not tested
    /\ pc[c] = "unreg"
    /\ LockFree
    /\ clients' = clients \ {c}
    /\ threadLaunched' = FALSE
    /\ writer' = c
    /\ idx' = 1
    /\ Goto(c, "join")
    /\ UNCHANGED <<sessionVars, sync_reset, slot, threadVars, crashed>>

unregister_lock(c) ==
    /\ pc[c] = "unreg"
    /\ LockFree
    /\ clients' = clients \ {c}
    /\ IF clients' = {}
       THEN /\ threadLaunched' = FALSE
            /\ writer' = c
            /\ idx' = 1
            /\ Goto(c, "join")
       ELSE /\ Goto(c, "deinit")
            /\ UNCHANGED <<threadLaunched, writer, idx>>
    /\ UNCHANGED <<sessionVars, sync_reset, slot, threadVars, crashed>>

(* Waits, lock in hand, for the thread of the next channel.                *)
pthread_join(c) ==
    /\ pc[c] = "join" /\ idx <= Len(Encoders)
    /\ LET t == slot[Encoders[idx]] IN
         /\ t # NoThread
         /\ tpc[t] = "done"
         /\ TGoto(t, "none")
    /\ slot' = [slot EXCEPT ![Encoders[idx]] = NoThread]
    /\ idx' = idx + 1
    /\ UNCHANGED <<pc, sessionVars, clients, threadLaunched, sync_reset, writer,
                   role, basePts, tosend, cur, readers, wmutex, crashed>>

(* Joining a thread id that was never created or is already joined is      *)
(* undefined: an error code that the code ignores, or a crash.             *)
pthread_join_nothing(c) ==
    /\ pc[c] = "join" /\ idx <= Len(Encoders)
    /\ slot[Encoders[idx]] = NoThread
    /\ \/ idx' = idx + 1 /\ UNCHANGED crashed
       \/ crashed' = TRUE /\ UNCHANGED idx
    /\ UNCHANGED <<pc, sessionVars, clients, threadLaunched, sync_reset, writer, slot,
                   threadVars>>

unregister_unarmed(c) ==        \* mutant: sync_reset = true is missing
    /\ pc[c] = "join" /\ idx > Len(Encoders)
    /\ writer' = NoClient
    /\ Goto(c, "deinit")
    /\ UNCHANGED <<sessionVars, clients, threadLaunched, sync_reset, idx, slot, threadVars, crashed>>

unregister_done(c) ==
    /\ pc[c] = "join" /\ idx > Len(Encoders)
    /\ sync_reset' = TRUE
    /\ writer' = NoClient
    /\ Goto(c, "deinit")
    /\ UNCHANGED <<sessionVars, clients, threadLaunched, idx, slot, threadVars, crashed>>

-----------------------------------------------------------------------------
(* Encoder threads.  Getting a frame and encoding it is module VideoPath's *)
(* business; here a thread has a packet to send or fails.                  *)

encoder_start(t) ==
    /\ tpc[t] = "start"
    /\ TGoto(t, "loop") \/ (EncodeFails /\ TGoto(t, "done"))
    /\ UNCHANGED <<pc, sessionVars, hubVars, role, basePts, tosend, cur, readers, wmutex, crashed>>

(* while(encoder_running()); the first packet also calls encoder_pts_sync. *)
encoder_loop(t) ==
    /\ tpc[t] = "loop"
    /\ \/ /\ threadLaunched
          /\ basePts' = [basePts EXCEPT ![t] = TRUE]
          /\ sync_reset' = (sync_reset /\ basePts[t])
          /\ TGoto(t, "try")
       \/ /\ ~threadLaunched \/ EncodeFails
          /\ TGoto(t, "done")
          /\ UNCHANGED <<basePts, sync_reset>>
    /\ UNCHANGED <<pc, sessionVars, clients, threadLaunched, writer, idx, slot, role,
                   tosend, cur, readers, wmutex, crashed>>

send_packet_all_spins(t) ==     \* mutant: threadLaunched is not tested
    /\ tpc[t] = "try"
    /\ writer = NoClient
    /\ readers' = readers \cup {t}
    /\ tosend' = [tosend EXCEPT ![t] = clients]
    /\ TGoto(t, "send")
    /\ UNCHANGED <<pc, sessionVars, hubVars, role, basePts, cur, wmutex, crashed>>

(* Label again: spins on tryrdlock until it gets the lock or is told to    *)
(* stop.                                                                   *)
encoder_send_packet_all(t) ==
    /\ tpc[t] = "try"
    /\ \/ /\ writer = NoClient
          /\ readers' = readers \cup {t}
          /\ tosend' = [tosend EXCEPT ![t] = clients]
          /\ TGoto(t, "send")
       \/ /\ writer # NoClient
          /\ ~threadLaunched
          /\ TGoto(t, "done")
          /\ UNCHANGED <<readers, tosend>>
    /\ UNCHANGED <<pc, sessionVars, hubVars, role, basePts, cur, wmutex, crashed>>

(* One iteration of the loop over the clients: skipped when the client is  *)
(* not playing, sent by UDP or not at all, or sent over its connection.    *)
encoder_send_packet(t, c) ==
    /\ tpc[t] = "send" /\ c \in tosend[t]
    /\ tosend' = [tosend EXCEPT ![t] = @ \ {c}]
    /\ LET s == fmtctx[c][role[t]] IN
         IF state[c] = "PLAYING" /\ s # NULL /\ s.tr = "tcp"
         THEN TGoto(t, "wlock") /\ cur' = [cur EXCEPT ![t] = c]
         ELSE UNCHANGED <<tpc, cur>>
    /\ UNCHANGED <<pc, sessionVars, hubVars, role, basePts, readers, wmutex, crashed>>

encoder_send_end(t) ==
    /\ tpc[t] = "send" /\ tosend[t] = {}
    /\ readers' = readers \ {t}
    /\ TGoto(t, "loop")
    /\ UNCHANGED <<pc, sessionVars, hubVars, role, basePts, tosend, cur, wmutex, crashed>>

(* rtsp_write_bindata: header and payload under the writer mutex.          *)
write_lock(t) ==
    /\ tpc[t] = "wlock"
    /\ wmutex[cur[t]] = NoThread
    /\ wmutex' = [wmutex EXCEPT ![cur[t]] = t]
    /\ TGoto(t, "header")
    /\ UNCHANGED <<pc, sessionVars, hubVars, role, basePts, tosend, cur, readers, crashed>>

Closed(c) == pc[c] \in {"unreg", "join", "deinit", "absent"}

header_written(t) ==
    /\ tpc[t] = "header"
    /\ TGoto(t, "body")
    /\ UNCHANGED <<pc, sessionVars, hubVars, role, basePts, tosend, cur, readers, wmutex, crashed>>

write_over(t) ==
    /\ cur' = [cur EXCEPT ![t] = NoClient]
    /\ TGoto(t, "send")
    /\ UNCHANGED <<pc, sessionVars, hubVars, role, basePts, tosend, readers, crashed>>

mutex_released(t) == wmutex' = [wmutex EXCEPT ![cur[t]] = NoThread]

header_fails(t) ==
    /\ tpc[t] = "header"
    /\ mutex_released(t)
    /\ write_over(t)

(* A buffer holds one packet or more, each written under the mutex.        *)
next_packet(t) ==
    /\ TGoto(t, "wlock")
    /\ UNCHANGED <<pc, sessionVars, hubVars, role, basePts, tosend, cur, readers, crashed>>

body_written(t) ==
    /\ tpc[t] = "body"
    /\ mutex_released(t)
    /\ write_over(t) \/ next_packet(t)

(* When the payload cannot be written, the function returns without        *)
(* unlocking.                                                              *)
body_fails(t) ==
    /\ tpc[t] = "body"
    /\ UNCHANGED wmutex
    /\ write_over(t)

rtsp_write(t) ==
    /\ tpc[t] \in {"header", "body"}
    /\ \/ ~Closed(cur[t]) /\ (header_written(t) \/ body_written(t))
       \/ (Closed(cur[t]) \/ WriteFails) /\ (header_fails(t) \/ body_fails(t))

-----------------------------------------------------------------------------
Serve(c) ==
    \/ \E e \in Channel, hdr \in SessionId \cup {NULL}, offered \in SUBSET Transports :
         rtsp_cmd_setup(c, e, hdr, offered)
    \/ \E hdr \in SessionId \cup {NULL} : rtsp_cmd_play(c, hdr) \/ rtsp_cmd_pause(c, hdr)
    \/ strcmp_null(c)

Command(c) == rtspserver(c) \/ Serve(c) \/ quit(c)

Register(c) ==
    \/ register_lock(c) \/ register_create(c) \/ register_create_fails(c)
    \/ register_fails(c) \/ register_done(c) \/ play_done(c)

Leave(c) ==
    \/ close_fd(c) \/ unregister_lock(c) \/ pthread_join(c) \/ pthread_join_nothing(c)
    \/ unregister_done(c) \/ per_client_deinit(c)

EncoderThread(t) ==
    \/ encoder_start(t) \/ encoder_loop(t) \/ encoder_send_packet_all(t)
    \/ \E c \in Client : encoder_send_packet(t, c)
    \/ encoder_send_end(t) \/ write_lock(t) \/ rtsp_write(t)

Next ==
    /\ ~crashed
    /\ \/ \E c \in Client : Command(c) \/ Register(c) \/ Leave(c)
       \/ \E t \in Tid : EncoderThread(t)

Spec == Init /\ [][Next]_vars

(***************************************************************************)
(* Threads run: a session thread that has a step to take takes it, and so  *)
(* does an encoder thread.  The lock and the mutex are fair in the sense   *)
(* that a thread for which they are free again and again gets them.        *)
(* Clients are free to send nothing.                                       *)
(***************************************************************************)
Fairness ==
    /\ \A c \in Client : /\ WF_vars(~crashed /\ (Register(c) \/ Leave(c)))
                         /\ SF_vars(~crashed /\ (register_lock(c) \/ unregister_lock(c)))
    /\ \A t \in Tid : /\ WF_vars(~crashed /\ EncoderThread(t))
                      /\ SF_vars(~crashed /\ write_lock(t))

FairSpec == Spec /\ Fairness

-----------------------------------------------------------------------------
(***************************************************************************)
(* An encoder thread reaches a context only while its session thread still *)
(* has it: no context that encoder_clients holds, that a thread's loop is  *)
(* about to visit, or that a thread is writing to, has been torn down      *)
(* (rtspserver.cpp:1071-1086 against encoder-common.cpp:219-225).          *)
(***************************************************************************)
Alive == {c \in Client : pc[c] \notin {"absent", "orphan", "deinit"}}

NoDanglingContext ==
    /\ clients \subseteq Alive
    /\ \A t \in Tid : tosend[t] \subseteq Alive /\ cur[t] \in Alive \cup {NoClient}

(***************************************************************************)
(* However clients come and go, a channel has one encoder, not two, which  *)
(* would share its pipeline and each get half of the frames; and whenever  *)
(* the lock is free and some client is registered it has one, so that the  *)
(* client gets all its streams (encoder_register_client starts threads,    *)
(* encoder_unregister_client ends and awaits them).                        *)
(***************************************************************************)
Encoding(e) == {t \in Tid : role[t] = e /\ tpc[t] \notin {"none", "done"}}

EncodersServeClients ==
    /\ \A t, u \in Tid : (\E e \in Channel : {t, u} \subseteq Encoding(e)) => t = u
    /\ writer = NoClient /\ clients # {} =>
         threadLaunched /\ \A e \in Channel : slot[e] \in Encoding(e)

(***************************************************************************)
(* The streams of a client do not change while encoder threads can use     *)
(* them: encoder_send_packet reads fmtctx[] without a lock that SETUP's    *)
(* error exit, which frees it, would respect.                              *)
(***************************************************************************)
StreamsStable ==
    [][\A c \in clients \cap clients' : fmtctx'[c] = fmtctx[c]]_vars

(***************************************************************************)
(* A connection that is playing has a session and a stream to play: no     *)
(* sequence of good and bad SETUPs, PLAYs and PAUSEs gets around the       *)
(* state checks of the command handlers.                                   *)
(***************************************************************************)
PlayingHasSession ==
    \A c \in Client : state[c] \in {"PLAYING", "PAUSE"} =>
        /\ session_id[c] # NULL
        /\ \E e \in Channel : fmtctx[c][e] # NULL /\ fmtctx[c][e].sid = session_id[c]

(***************************************************************************)
(* With the encoders all gone and nobody starting or stopping them the     *)
(* common clock is armed for the next session (sync_reset): its audio and  *)
(* its video timestamps both start from zero.                              *)
(***************************************************************************)
ClockArmedBetweenSessions ==
    writer = NoClient /\ (\A t \in Tid : tpc[t] = "none") => sync_reset

(***************************************************************************)
(* Clients that play before they leave and obey the protocol never bring   *)
(* the server to join a thread that is not there, nor to compare a missing *)
(* session id but in one case: when a stream of a session cannot be set    *)
(* up, the error exit of SETUP frees the id and leaves the session ready   *)
(* to play (rtspserver.cpp:707-711), and the client, which has had an id   *)
(* from the SETUP before, goes on with PLAY (rtspclient.cpp:762-789),      *)
(* which compares it with NULL (rtspserver.cpp:734).                       *)
(***************************************************************************)
LostSession(c) == state[c] = "READY" /\ session_id[c] = NULL

PoliteClientsAreSafe ==
    Polite /\ crashed => EncodeFails /\ \E c \in Client : LostSession(c)

(***************************************************************************)
(* A session whose client has gone comes to an end: closing, unregistering *)
(* and the wait for the encoder threads, with encoder_lock held, all get   *)
(* done, provided that encoder threads which take the lock in turn leave   *)
(* it free now and then (they prefer themselves to the session thread:     *)
(* pthread_rwlock_tryrdlock succeeds while a writer waits).                *)
(***************************************************************************)
DepartingClientLeaves ==
    []<>(readers = {}) => \A c \in Client : pc[c] = "close" ~> pc[c] = "absent"

(***************************************************************************)
(* rtspserver.h says that rtsp_writer_mutex is there for RTP over RTSP/TCP *)
(* (line 84); a thread that is not in the midst of writing to a connection *)
(* must not own it.                                                        *)
(***************************************************************************)
WriterMutexReleased ==
    \A c \in Client : wmutex[c] # NoThread /\ pc[c] # "absent" =>
        tpc[wmutex[c]] \in {"header", "body"} /\ cur[wmutex[c]] = c
=============================================================================
