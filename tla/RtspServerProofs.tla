-------------------------- MODULE RtspServerProofs --------------------------
(***************************************************************************)
(* Theorems about RtspServer, about AcceptLoop, which gives its threads    *)
(* connections, for any number of connections, encoders and threads, with  *)
(* every fault that the constants allow, and about RtspRequests, which a   *)
(* session thread reads from its connection.                               *)
(*                                                                         *)
(* ServerInv says who may reach a context while.  LockInv is the meaning   *)
(* of encoder_lock; ReachInv says that encoder threads reach only contexts *)
(* that are registered, and that only contexts that are there are; the     *)
(* two others follow a session through its commands, and the clock.        *)
(* HubInv is what encoder_register_client and encoder_unregister_client    *)
(* promise as long as pthread_create succeeds: slots, threads and clients  *)
(* go together.  ConnInv says which thread has which connection.           *)
(* RequestsInv says what of the stream is answered, and what is left.      *)
(***************************************************************************)
EXTENDS AcceptLoop, RtspRequests, ListLemmas, FiniteSetTheorems, TLAPS

Sending == {"send", "wlock", "header", "body"}

LockInv ==
    /\ \A c \in Client : pc[c] \in {"create", "join"} <=> writer = c
    /\ writer # NoClient => readers = {}
    /\ \A t \in Tid : t \in readers <=> tpc[t] \in Sending

ReachInv ==
    /\ \A c \in clients : pc[c] \notin {"absent", "orphan", "join", "deinit"}
    /\ \A t \in readers : tosend[t] \subseteq clients /\ cur[t] \in clients \cup {NoClient}
    /\ \A t \in Tid \ readers : tosend[t] = {} /\ cur[t] = NoClient
    /\ \A t \in Tid : tpc[t] = "send" => cur[t] = NoClient

HasStream(c) == \E e \in Channel : fmtctx[c][e] # NULL /\ fmtctx[c][e].sid = session_id[c]

InPlay == {"reg", "create", "regfail", "played"}

SessionInv ==
    /\ \A c \in Client : session_id[c] # NULL => HasStream(c)
    /\ \A c \in Client :
         state[c] \in {"PLAYING", "PAUSE"} \/ pc[c] \in InPlay => session_id[c] # NULL
    /\ \A c \in clients :
         pc[c] \in {"serving", "reg", "create", "regfail"} => state[c] \in {"PLAYING", "PAUSE"}

(* Only a session that waits for the encoder threads makes them vanish.    *)
ClockInv ==
    sync_reset \/ (\E t \in Tid : tpc[t] # "none") \/ (\E c \in Client : pc[c] = "join")

ServerInv == TypeOK /\ LockInv /\ ReachInv /\ SessionInv /\ ClockInv

-----------------------------------------------------------------------------
(* A context that begins, or fails to, is not registered yet.              *)
LEMMA RtspserverKeeps ==
    ASSUME ServerInv, NEW c \in Client, rtspserver(c)
    PROVE  ServerInv'
<1>1. TypeOK'
  BY ServerAssumption DEF ServerInv, TypeOK, SessionAt, ThreadAt, Stream,
                          rtspserver, per_client_init, Goto, sessionVars, hubVars,
                          threadVars
<1>2. LockInv'
  BY ServerAssumption DEF ServerInv, TypeOK, SessionAt, ThreadAt, Stream, LockInv,
                          Sending, rtspserver, per_client_init, Goto, sessionVars,
                          hubVars, threadVars
<1>3. ReachInv'
  BY DEF ServerInv, TypeOK, SessionAt, ThreadAt, Stream, LockInv, Sending,
         ReachInv, rtspserver, per_client_init, Goto, sessionVars, hubVars,
         threadVars
<1>4. SessionInv'
  BY ServerAssumption DEF ServerInv, TypeOK, SessionAt, ThreadAt, Stream, LockInv,
                          Sending, ReachInv, SessionInv, HasStream, InPlay,
                          rtspserver, per_client_init, Goto, sessionVars, hubVars,
                          threadVars
<1>5. ClockInv'
  BY DEF ServerInv, TypeOK, SessionAt, ThreadAt, Stream, LockInv, Sending,
         ClockInv, rtspserver, per_client_init, Goto, sessionVars, hubVars,
         threadVars
<1> QED
  BY <1>1, <1>2, <1>3, <1>4, <1>5 DEF ServerInv

(* An accepted SETUP gives its session a stream; any other leaves none.    *)
LEMMA RtspCmdSetupKeeps ==
    ASSUME ServerInv, NEW c \in Client, NEW e \in Channel,
           NEW hdr, NEW offered \in SUBSET Transports,
           rtsp_cmd_setup(c, e, hdr, offered)
    PROVE  ServerInv'
<1> USE DEF ServerInv
<1>1. /\ pc[c] = "serving" /\ setup_state(c)
      /\ UNCHANGED <<pc, hubVars, threadVars, crashed>>
  BY DEF rtsp_cmd_setup
<1>2. c \notin clients /\ state[c] \in {"IDLE", "READY"}
  BY <1>1 DEF SessionInv, setup_state
<1>3. \/ \E s \in Stream : /\ session_id' = [session_id EXCEPT ![c] = s.sid]
                            /\ fmtctx' = [fmtctx EXCEPT ![c][e] = s]
                            /\ state' = [state EXCEPT ![c] = "READY"]
      \/ error_setup(c, e)
  <2>1. PICK id \in SessionId :
          LET tr    == supported(offered)
              new   == session_id[c] = NULL /\ hdr = NULL
              sid   == IF new THEN id ELSE session_id[c]
              match == sid # NULL /\ (new \/ sid = hdr)
          IN  \/ /\ setup_accepted(c, e, match, tr)
                 /\ session_id' = [session_id EXCEPT ![c] = sid]
                 /\ fmtctx' = [fmtctx EXCEPT ![c][e] = [tr |-> tr, sid |-> sid]]
                 /\ state' = [state EXCEPT ![c] = "READY"]
              \/ error_setup(c, e)
    BY DEF rtsp_cmd_setup
  <2> DEFINE tr  == supported(offered)
             new == session_id[c] = NULL /\ hdr = NULL
             sid == IF new THEN id ELSE session_id[c]
  <2> SUFFICES ASSUME ~error_setup(c, e)
               PROVE  \E s \in Stream : /\ session_id' = [session_id EXCEPT ![c] = s.sid]
                                        /\ fmtctx' = [fmtctx EXCEPT ![c][e] = s]
                                        /\ state' = [state EXCEPT ![c] = "READY"]
    OBVIOUS
  <2>2. /\ tr # NULL /\ sid # NULL
        /\ session_id' = [session_id EXCEPT ![c] = sid]
        /\ fmtctx' = [fmtctx EXCEPT ![c][e] = [tr |-> tr, sid |-> sid]]
        /\ state' = [state EXCEPT ![c] = "READY"]
    BY <2>1 DEF setup_accepted
  <2>3. sid \in SessionId
    BY <2>2 DEF TypeOK
  <2> HIDE DEF tr, new, sid
  <2>4. [tr |-> tr, sid |-> sid] \in Stream
    BY <2>2, <2>3, ServerAssumption DEF tr, supported, find_transport, Stream
  <2> QED
    BY <2>2, <2>4
<1>4. TypeOK'
  <2>1. fmtctx' \in [Client -> [Channel -> Stream \cup {NULL}]]
    <3>1. PICK s \in Stream \cup {NULL} : fmtctx' = [fmtctx EXCEPT ![c][e] = s]
      BY <1>3 DEF error_setup
    <3>2. fmtctx \in [Client -> [Channel -> Stream \cup {NULL}]]
      BY DEF TypeOK
    <3> QED
      BY <3>1, <3>2
  <2>2. session_id' \in [Client -> SessionId \cup {NULL}]
    BY <1>3 DEF TypeOK, error_setup, Stream
  <2>3. state' \in [Client -> {"IDLE", "READY", "PLAYING", "PAUSE", "TEARDOWN"}]
    BY <1>3 DEF TypeOK, error_setup
  <2> QED
    BY <1>1, <2>1, <2>2, <2>3 DEF TypeOK, hubVars, threadVars
<1>5. LockInv' /\ ReachInv' /\ ClockInv'
  BY <1>1 DEF LockInv, ReachInv, ClockInv, hubVars, threadVars
<1>6. SessionInv'
  <2>1. \A d \in Client \ {c} : /\ session_id'[d] = session_id[d]
                               /\ fmtctx'[d] = fmtctx[d]
                               /\ state'[d] = state[d]
    BY <1>3 DEF TypeOK, error_setup
  <2>2. state'[c] \in {"IDLE", "READY"}
    BY <1>2, <1>3 DEF TypeOK, error_setup
  <2>3. session_id'[c] # NULL => HasStream(c)'
    <3>1. ASSUME NEW s \in Stream,
                 session_id' = [session_id EXCEPT ![c] = s.sid],
                 fmtctx' = [fmtctx EXCEPT ![c][e] = s]
          PROVE  HasStream(c)'
      <4>1. fmtctx'[c][e] = s /\ session_id'[c] = s.sid
        BY <3>1 DEF TypeOK
      <4> QED
        BY <4>1, <3>1, ServerAssumption DEF HasStream
    <3>2. CASE error_setup(c, e)
      BY <3>2 DEF error_setup, TypeOK
    <3> QED
      BY <1>3, <3>1, <3>2
  <2>4. \A d \in Client \ {c} : session_id'[d] # NULL => HasStream(d)'
    BY <2>1 DEF SessionInv, HasStream
  <2>5. pc' = pc /\ clients' = clients /\ clients \subseteq Client
    BY <1>1 DEF hubVars, TypeOK
  <2>6. pc[c] \notin InPlay
    BY <1>1 DEF InPlay
  <2>7. \A d \in Client : session_id'[d] # NULL => HasStream(d)'
    BY <2>3, <2>4
  <2>8. \A d \in Client :
          state'[d] \in {"PLAYING", "PAUSE"} \/ pc'[d] \in InPlay => session_id'[d] # NULL
    BY <2>1, <2>2, <2>5, <2>6 DEF SessionInv
  <2>9. \A d \in clients' :
          pc'[d] \in {"serving", "reg", "create", "regfail"} => state'[d] \in {"PLAYING", "PAUSE"}
    BY <1>2, <2>1, <2>5 DEF SessionInv
  <2> QED
    BY <2>7, <2>8, <2>9 DEF SessionInv, InPlay
<1> QED
  BY <1>4, <1>5, <1>6

(* The crash in strcmp changes nothing else.                               *)
LEMMA StrcmpNullKeeps ==
    ASSUME ServerInv, NEW c \in Client, strcmp_null(c)
    PROVE  ServerInv'
<1>1. TypeOK'
  BY ServerAssumption DEF ServerInv, TypeOK, SessionAt, ThreadAt, Stream,
                          strcmp_null, Goto, sessionVars, hubVars, threadVars
<1>2. LockInv'
  BY ServerAssumption DEF ServerInv, TypeOK, SessionAt, ThreadAt, Stream, LockInv,
                          Sending, strcmp_null, Goto, sessionVars, hubVars,
                          threadVars
<1>3. ReachInv'
  BY DEF ServerInv, TypeOK, SessionAt, ThreadAt, Stream, LockInv, Sending,
         ReachInv, strcmp_null, Goto, sessionVars, hubVars, threadVars
<1>4. SessionInv'
  BY ServerAssumption DEF ServerInv, TypeOK, SessionAt, ThreadAt, Stream, LockInv,
                          Sending, ReachInv, SessionInv, HasStream, InPlay,
                          strcmp_null, Goto, sessionVars, hubVars, threadVars
<1>5. ClockInv'
  BY DEF ServerInv, TypeOK, SessionAt, ThreadAt, Stream, LockInv, Sending,
         ClockInv, strcmp_null, Goto, sessionVars, hubVars, threadVars
<1> QED
  BY <1>1, <1>2, <1>3, <1>4, <1>5 DEF ServerInv

(* PLAY needs the Session of the context, so there is one in play.         *)
LEMMA RtspCmdPlayKeeps ==
    ASSUME ServerInv, NEW c \in Client, NEW hdr, rtsp_cmd_play(c, hdr)
    PROVE  ServerInv'
<1>1. TypeOK'
  BY ServerAssumption DEF ServerInv, TypeOK, SessionAt, ThreadAt, Stream,
                          rtsp_cmd_play, SessionMatches, Goto, sessionVars,
                          hubVars, threadVars
<1>2. LockInv'
  BY ServerAssumption DEF ServerInv, TypeOK, SessionAt, ThreadAt, Stream, LockInv,
                          Sending, rtsp_cmd_play, SessionMatches, Goto,
                          sessionVars, hubVars, threadVars
<1>3. ReachInv'
  BY DEF ServerInv, TypeOK, SessionAt, ThreadAt, Stream, LockInv, Sending,
         ReachInv, rtsp_cmd_play, SessionMatches, Goto, sessionVars, hubVars,
         threadVars
<1>4. SessionInv'
  BY ServerAssumption DEF ServerInv, TypeOK, SessionAt, ThreadAt, Stream, LockInv,
                          Sending, ReachInv, SessionInv, HasStream, InPlay,
                          rtsp_cmd_play, SessionMatches, Goto, sessionVars,
                          hubVars, threadVars
<1>5. ClockInv'
  BY DEF ServerInv, TypeOK, SessionAt, ThreadAt, Stream, LockInv, Sending,
         ClockInv, rtsp_cmd_play, SessionMatches, Goto, sessionVars, hubVars,
         threadVars
<1> QED
  BY <1>1, <1>2, <1>3, <1>4, <1>5 DEF ServerInv

(* PAUSE keeps the session and the registration.                           *)
LEMMA RtspCmdPauseKeeps ==
    ASSUME ServerInv, NEW c \in Client, NEW hdr, rtsp_cmd_pause(c, hdr)
    PROVE  ServerInv'
<1>1. TypeOK'
  BY ServerAssumption DEF ServerInv, TypeOK, SessionAt, ThreadAt, Stream,
                          rtsp_cmd_pause, SessionMatches, Goto, sessionVars,
                          hubVars, threadVars
<1>2. LockInv'
  BY ServerAssumption DEF ServerInv, TypeOK, SessionAt, ThreadAt, Stream, LockInv,
                          Sending, rtsp_cmd_pause, SessionMatches, Goto,
                          sessionVars, hubVars, threadVars
<1>3. ReachInv'
  BY DEF ServerInv, TypeOK, SessionAt, ThreadAt, Stream, LockInv, Sending,
         ReachInv, rtsp_cmd_pause, SessionMatches, Goto, sessionVars, hubVars,
         threadVars
<1>4. SessionInv'
  BY ServerAssumption DEF ServerInv, TypeOK, SessionAt, ThreadAt, Stream, LockInv,
                          Sending, ReachInv, SessionInv, HasStream, InPlay,
                          rtsp_cmd_pause, SessionMatches, Goto, sessionVars,
                          hubVars, threadVars
<1>5. ClockInv'
  BY DEF ServerInv, TypeOK, SessionAt, ThreadAt, Stream, LockInv, Sending,
         ClockInv, rtsp_cmd_pause, SessionMatches, Goto, sessionVars, hubVars,
         threadVars
<1> QED
  BY <1>1, <1>2, <1>3, <1>4, <1>5 DEF ServerInv

(* A context that leaves its loop keeps its registration and session.      *)
LEMMA QuitKeeps ==
    ASSUME ServerInv, NEW c \in Client, quit(c)
    PROVE  ServerInv'
<1>1. TypeOK'
  BY ServerAssumption DEF ServerInv, TypeOK, SessionAt, ThreadAt, Stream, quit,
                          Goto, sessionVars, hubVars, threadVars
<1>2. LockInv'
  BY ServerAssumption DEF ServerInv, TypeOK, SessionAt, ThreadAt, Stream, LockInv,
                          Sending, quit, Goto, sessionVars, hubVars, threadVars
<1>3. ReachInv'
  BY DEF ServerInv, TypeOK, SessionAt, ThreadAt, Stream, LockInv, Sending,
         ReachInv, quit, Goto, sessionVars, hubVars, threadVars
<1>4. SessionInv'
  BY ServerAssumption DEF ServerInv, TypeOK, SessionAt, ThreadAt, Stream, LockInv,
                          Sending, ReachInv, SessionInv, HasStream, InPlay, quit,
                          Goto, sessionVars, hubVars, threadVars
<1>5. ClockInv'
  BY DEF ServerInv, TypeOK, SessionAt, ThreadAt, Stream, LockInv, Sending,
         ClockInv, quit, Goto, sessionVars, hubVars, threadVars
<1> QED
  BY <1>1, <1>2, <1>3, <1>4, <1>5 DEF ServerInv

(* Closing the socket does not touch what encoder threads reach.           *)
LEMMA CloseFdKeeps ==
    ASSUME ServerInv, NEW c \in Client, close_fd(c)
    PROVE  ServerInv'
<1>1. TypeOK'
  BY ServerAssumption DEF ServerInv, TypeOK, SessionAt, ThreadAt, Stream,
                          close_fd, Goto, sessionVars, hubVars, threadVars
<1>2. LockInv'
  BY ServerAssumption DEF ServerInv, TypeOK, SessionAt, ThreadAt, Stream, LockInv,
                          Sending, close_fd, Goto, sessionVars, hubVars,
                          threadVars
<1>3. ReachInv'
  BY DEF ServerInv, TypeOK, SessionAt, ThreadAt, Stream, LockInv, Sending,
         ReachInv, close_fd, Goto, sessionVars, hubVars, threadVars
<1>4. SessionInv'
  BY ServerAssumption DEF ServerInv, TypeOK, SessionAt, ThreadAt, Stream, LockInv,
                          Sending, ReachInv, SessionInv, HasStream, InPlay,
                          close_fd, Goto, sessionVars, hubVars, threadVars
<1>5. ClockInv'
  BY DEF ServerInv, TypeOK, SessionAt, ThreadAt, Stream, LockInv, Sending,
         ClockInv, close_fd, Goto, sessionVars, hubVars, threadVars
<1> QED
  BY <1>1, <1>2, <1>3, <1>4, <1>5 DEF ServerInv

(* A context is taken down after it has been unregistered.                 *)
LEMMA PerClientDeinitKeeps ==
    ASSUME ServerInv, NEW c \in Client, per_client_deinit(c)
    PROVE  ServerInv'
<1>1. TypeOK'
  BY ServerAssumption DEF ServerInv, TypeOK, SessionAt, ThreadAt, Stream,
                          per_client_deinit, Goto, sessionVars, hubVars,
                          threadVars
<1>2. LockInv'
  BY ServerAssumption DEF ServerInv, TypeOK, SessionAt, ThreadAt, Stream, LockInv,
                          Sending, per_client_deinit, Goto, sessionVars, hubVars,
                          threadVars
<1>3. ReachInv'
  BY DEF ServerInv, TypeOK, SessionAt, ThreadAt, Stream, LockInv, Sending,
         ReachInv, per_client_deinit, Goto, sessionVars, hubVars, threadVars
<1>4. SessionInv'
  BY ServerAssumption DEF ServerInv, TypeOK, SessionAt, ThreadAt, Stream, LockInv,
                          Sending, ReachInv, SessionInv, HasStream, InPlay,
                          per_client_deinit, Goto, sessionVars, hubVars,
                          threadVars
<1>5. ClockInv'
  BY DEF ServerInv, TypeOK, SessionAt, ThreadAt, Stream, LockInv, Sending,
         ClockInv, per_client_deinit, Goto, sessionVars, hubVars, threadVars
<1> QED
  BY <1>1, <1>2, <1>3, <1>4, <1>5 DEF ServerInv

(* The lock is free of readers when a context is registered under it.      *)
LEMMA RegisterLockKeeps ==
    ASSUME ServerInv, NEW c \in Client, register_lock(c)
    PROVE  ServerInv'
<1>1. TypeOK'
  BY ServerAssumption DEF ServerInv, TypeOK, SessionAt, ThreadAt, Stream,
                          register_lock, LockFree, Goto, sessionVars, hubVars,
                          threadVars
<1>2. LockInv'
  BY ServerAssumption DEF ServerInv, TypeOK, SessionAt, ThreadAt, Stream, LockInv,
                          Sending, register_lock, LockFree, Goto, sessionVars,
                          hubVars, threadVars
<1>3. ReachInv'
  BY DEF ServerInv, TypeOK, SessionAt, ThreadAt, Stream, LockInv, Sending,
         ReachInv, register_lock, LockFree, Goto, sessionVars, hubVars, threadVars
<1>4. SessionInv'
  BY ServerAssumption DEF ServerInv, TypeOK, SessionAt, ThreadAt, Stream, LockInv,
                          Sending, ReachInv, SessionInv, HasStream, InPlay,
                          register_lock, LockFree, Goto, sessionVars, hubVars,
                          threadVars
<1>5. ClockInv'
  BY DEF ServerInv, TypeOK, SessionAt, ThreadAt, Stream, LockInv, Sending,
         ClockInv, register_lock, LockFree, Goto, sessionVars, hubVars, threadVars
<1> QED
  BY <1>1, <1>2, <1>3, <1>4, <1>5 DEF ServerInv

(* An encoder thread that is created reaches no context yet.               *)
LEMMA RegisterCreateKeeps ==
    ASSUME ServerInv, NEW c \in Client, register_create(c)
    PROVE  ServerInv'
<1>1. TypeOK'
  BY ServerAssumption DEF ServerInv, TypeOK, SessionAt, ThreadAt, Stream,
                          register_create, Goto, TGoto, sessionVars, hubVars,
                          threadVars
<1>2. LockInv'
  BY ServerAssumption DEF ServerInv, TypeOK, SessionAt, ThreadAt, Stream, LockInv,
                          Sending, register_create, Goto, TGoto, sessionVars,
                          hubVars, threadVars
<1>3. ReachInv'
  BY DEF ServerInv, TypeOK, SessionAt, ThreadAt, Stream, LockInv, Sending,
         ReachInv, register_create, Goto, TGoto, sessionVars, hubVars, threadVars
<1>4. SessionInv'
  BY ServerAssumption DEF ServerInv, TypeOK, SessionAt, ThreadAt, Stream, LockInv,
                          Sending, ReachInv, SessionInv, HasStream, InPlay,
                          register_create, Goto, TGoto, sessionVars, hubVars,
                          threadVars
<1>5. ClockInv'
  BY DEF ServerInv, TypeOK, SessionAt, ThreadAt, Stream, LockInv, Sending,
         ClockInv, register_create, Goto, TGoto, sessionVars, hubVars, threadVars
<1> QED
  BY <1>1, <1>2, <1>3, <1>4, <1>5 DEF ServerInv

(* An encoder thread that cannot be created gives up the lock.             *)
LEMMA RegisterCreateFailsKeeps ==
    ASSUME ServerInv, NEW c \in Client, register_create_fails(c)
    PROVE  ServerInv'
<1>1. TypeOK'
  BY ServerAssumption DEF ServerInv, TypeOK, SessionAt, ThreadAt, Stream,
                          register_create_fails, Goto, sessionVars, hubVars,
                          threadVars
<1>2. LockInv'
  BY ServerAssumption DEF ServerInv, TypeOK, SessionAt, ThreadAt, Stream, LockInv,
                          Sending, register_create_fails, Goto, sessionVars,
                          hubVars, threadVars
<1>3. ReachInv'
  BY DEF ServerInv, TypeOK, SessionAt, ThreadAt, Stream, LockInv, Sending,
         ReachInv, register_create_fails, Goto, sessionVars, hubVars, threadVars
<1>4. SessionInv'
  BY ServerAssumption DEF ServerInv, TypeOK, SessionAt, ThreadAt, Stream, LockInv,
                          Sending, ReachInv, SessionInv, HasStream, InPlay,
                          register_create_fails, Goto, sessionVars, hubVars,
                          threadVars
<1>5. ClockInv'
  BY DEF ServerInv, TypeOK, SessionAt, ThreadAt, Stream, LockInv, Sending,
         ClockInv, register_create_fails, Goto, sessionVars, hubVars, threadVars
<1> QED
  BY <1>1, <1>2, <1>3, <1>4, <1>5 DEF ServerInv

(* A client that could not be registered goes on as if it were.            *)
LEMMA RegisterFailsKeeps ==
    ASSUME ServerInv, NEW c \in Client, register_fails(c)
    PROVE  ServerInv'
<1>1. TypeOK'
  BY ServerAssumption DEF ServerInv, TypeOK, SessionAt, ThreadAt, Stream,
                          register_fails, Goto, sessionVars, hubVars, threadVars
<1>2. LockInv'
  BY ServerAssumption DEF ServerInv, TypeOK, SessionAt, ThreadAt, Stream, LockInv,
                          Sending, register_fails, Goto, sessionVars, hubVars,
                          threadVars
<1>3. ReachInv'
  BY DEF ServerInv, TypeOK, SessionAt, ThreadAt, Stream, LockInv, Sending,
         ReachInv, register_fails, Goto, sessionVars, hubVars, threadVars
<1>4. SessionInv'
  BY ServerAssumption DEF ServerInv, TypeOK, SessionAt, ThreadAt, Stream, LockInv,
                          Sending, ReachInv, SessionInv, HasStream, InPlay,
                          register_fails, Goto, sessionVars, hubVars, threadVars
<1>5. ClockInv'
  BY DEF ServerInv, TypeOK, SessionAt, ThreadAt, Stream, LockInv, Sending,
         ClockInv, register_fails, Goto, sessionVars, hubVars, threadVars
<1> QED
  BY <1>1, <1>2, <1>3, <1>4, <1>5 DEF ServerInv

(* Registering ends with a client that plays and holds no lock.            *)
LEMMA RegisterDoneKeeps ==
    ASSUME ServerInv, NEW c \in Client, register_done(c)
    PROVE  ServerInv'
<1>1. TypeOK'
  BY ServerAssumption DEF ServerInv, TypeOK, SessionAt, ThreadAt, Stream,
                          register_done, Goto, sessionVars, hubVars, threadVars
<1>2. LockInv'
  BY ServerAssumption DEF ServerInv, TypeOK, SessionAt, ThreadAt, Stream, LockInv,
                          Sending, register_done, Goto, sessionVars, hubVars,
                          threadVars
<1>3. ReachInv'
  BY DEF ServerInv, TypeOK, SessionAt, ThreadAt, Stream, LockInv, Sending,
         ReachInv, register_done, Goto, sessionVars, hubVars, threadVars
<1>4. SessionInv'
  BY ServerAssumption DEF ServerInv, TypeOK, SessionAt, ThreadAt, Stream, LockInv,
                          Sending, ReachInv, SessionInv, HasStream, InPlay,
                          register_done, Goto, sessionVars, hubVars, threadVars
<1>5. ClockInv'
  BY DEF ServerInv, TypeOK, SessionAt, ThreadAt, Stream, LockInv, Sending,
         ClockInv, register_done, Goto, sessionVars, hubVars, threadVars
<1> QED
  BY <1>1, <1>2, <1>3, <1>4, <1>5 DEF ServerInv

(* The client that plays goes back to its loop.                            *)
LEMMA PlayDoneKeeps ==
    ASSUME ServerInv, NEW c \in Client, play_done(c)
    PROVE  ServerInv'
<1>1. TypeOK'
  BY ServerAssumption DEF ServerInv, TypeOK, SessionAt, ThreadAt, Stream,
                          play_done, Goto, sessionVars, hubVars, threadVars
<1>2. LockInv'
  BY ServerAssumption DEF ServerInv, TypeOK, SessionAt, ThreadAt, Stream, LockInv,
                          Sending, play_done, Goto, sessionVars, hubVars,
                          threadVars
<1>3. ReachInv'
  BY DEF ServerInv, TypeOK, SessionAt, ThreadAt, Stream, LockInv, Sending,
         ReachInv, play_done, Goto, sessionVars, hubVars, threadVars
<1>4. SessionInv'
  BY ServerAssumption DEF ServerInv, TypeOK, SessionAt, ThreadAt, Stream, LockInv,
                          Sending, ReachInv, SessionInv, HasStream, InPlay,
                          play_done, Goto, sessionVars, hubVars, threadVars
<1>5. ClockInv'
  BY DEF ServerInv, TypeOK, SessionAt, ThreadAt, Stream, LockInv, Sending,
         ClockInv, play_done, Goto, sessionVars, hubVars, threadVars
<1> QED
  BY <1>1, <1>2, <1>3, <1>4, <1>5 DEF ServerInv

(* A context is taken out while no encoder thread is reading.              *)
LEMMA UnregisterLockKeeps ==
    ASSUME ServerInv, NEW c \in Client, unregister_lock(c)
    PROVE  ServerInv'
<1>1. TypeOK'
  <2>1. clients' \subseteq Client /\ threadLaunched' \in BOOLEAN
    BY DEF ServerInv, TypeOK, unregister_lock
  <2>2. writer' \in Client \cup {NoClient}
    BY DEF ServerInv, TypeOK, unregister_lock
  <2>3. 1 \in 1..Len(Encoders) + 1
    BY ServerAssumption
  <2>4. idx' \in 1..Len(Encoders) + 1
    BY <2>3 DEF ServerInv, TypeOK, unregister_lock
  <2>5. pc' \in [Client -> SessionAt]
    BY ZenonT(40) DEF ServerInv, TypeOK, SessionAt, unregister_lock, Goto
  <2> QED
    BY <2>1, <2>2, <2>4, <2>5
    DEF ServerInv, TypeOK, unregister_lock, sessionVars, threadVars
<1>2. LockInv'
  BY ServerAssumption DEF ServerInv, TypeOK, SessionAt, ThreadAt, Stream, LockInv,
                          Sending, unregister_lock, LockFree, Goto, sessionVars,
                          hubVars, threadVars
<1>3. ReachInv'
  BY DEF ServerInv, TypeOK, SessionAt, ThreadAt, Stream, LockInv, Sending,
         ReachInv, unregister_lock, LockFree, Goto, sessionVars, hubVars,
         threadVars
<1>4. SessionInv'
  BY ServerAssumption DEF ServerInv, TypeOK, SessionAt, ThreadAt, Stream, LockInv,
                          Sending, ReachInv, SessionInv, HasStream, InPlay,
                          unregister_lock, LockFree, Goto, sessionVars, hubVars,
                          threadVars
<1>5. ClockInv'
  BY DEF ServerInv, TypeOK, SessionAt, ThreadAt, Stream, LockInv, Sending,
         ClockInv, unregister_lock, LockFree, Goto, sessionVars, hubVars,
         threadVars
<1> QED
  BY <1>1, <1>2, <1>3, <1>4, <1>5 DEF ServerInv

(* A joined encoder thread had left the lock for reading.                  *)
LEMMA PthreadJoinKeeps ==
    ASSUME ServerInv, NEW c \in Client, pthread_join(c)
    PROVE  ServerInv'
<1>1. TypeOK'
  BY ServerAssumption DEF ServerInv, TypeOK, SessionAt, ThreadAt, Stream,
                          pthread_join, Goto, TGoto, sessionVars, hubVars,
                          threadVars
<1>2. LockInv'
  BY ServerAssumption DEF ServerInv, TypeOK, SessionAt, ThreadAt, Stream, LockInv,
                          Sending, pthread_join, Goto, TGoto, sessionVars,
                          hubVars, threadVars
<1>3. ReachInv'
  BY DEF ServerInv, TypeOK, SessionAt, ThreadAt, Stream, LockInv, Sending,
         ReachInv, pthread_join, Goto, TGoto, sessionVars, hubVars, threadVars
<1>4. SessionInv'
  BY ServerAssumption DEF ServerInv, TypeOK, SessionAt, ThreadAt, Stream, LockInv,
                          Sending, ReachInv, SessionInv, HasStream, InPlay,
                          pthread_join, Goto, TGoto, sessionVars, hubVars,
                          threadVars
<1>5. ClockInv'
  BY DEF ServerInv, TypeOK, SessionAt, ThreadAt, Stream, LockInv, Sending,
         ClockInv, pthread_join, Goto, TGoto, sessionVars, hubVars, threadVars
<1> QED
  BY <1>1, <1>2, <1>3, <1>4, <1>5 DEF ServerInv

(* A join of a thread that was never created changes no thread.            *)
LEMMA PthreadJoinNothingKeeps ==
    ASSUME ServerInv, NEW c \in Client, pthread_join_nothing(c)
    PROVE  ServerInv'
<1>1. TypeOK'
  <2>1. idx' \in 1..Len(Encoders) + 1
    BY ServerAssumption DEF ServerInv, TypeOK, pthread_join_nothing
  <2>2. crashed' \in BOOLEAN
    BY DEF ServerInv, TypeOK, pthread_join_nothing
  <2> QED
    BY <2>1, <2>2 DEF ServerInv, TypeOK, pthread_join_nothing, sessionVars,
                      threadVars
<1>2. LockInv'
  BY ServerAssumption DEF ServerInv, TypeOK, SessionAt, ThreadAt, Stream, LockInv,
                          Sending, pthread_join_nothing, Goto, sessionVars,
                          hubVars, threadVars
<1>3. ReachInv'
  BY DEF ServerInv, TypeOK, SessionAt, ThreadAt, Stream, LockInv, Sending,
         ReachInv, pthread_join_nothing, Goto, sessionVars, hubVars, threadVars
<1>4. SessionInv'
  BY ServerAssumption DEF ServerInv, TypeOK, SessionAt, ThreadAt, Stream, LockInv,
                          Sending, ReachInv, SessionInv, HasStream, InPlay,
                          pthread_join_nothing, Goto, sessionVars, hubVars,
                          threadVars
<1>5. ClockInv'
  BY DEF ServerInv, TypeOK, SessionAt, ThreadAt, Stream, LockInv, Sending,
         ClockInv, pthread_join_nothing, Goto, sessionVars, hubVars, threadVars
<1> QED
  BY <1>1, <1>2, <1>3, <1>4, <1>5 DEF ServerInv

(* The last client that leaves arms the clock, then frees the lock.        *)
LEMMA UnregisterDoneKeeps ==
    ASSUME ServerInv, NEW c \in Client, unregister_done(c)
    PROVE  ServerInv'
<1>1. TypeOK'
  BY ServerAssumption DEF ServerInv, TypeOK, SessionAt, ThreadAt, Stream,
                          unregister_done, Goto, sessionVars, hubVars, threadVars
<1>2. LockInv'
  BY ServerAssumption DEF ServerInv, TypeOK, SessionAt, ThreadAt, Stream, LockInv,
                          Sending, unregister_done, Goto, sessionVars, hubVars,
                          threadVars
<1>3. ReachInv'
  BY DEF ServerInv, TypeOK, SessionAt, ThreadAt, Stream, LockInv, Sending,
         ReachInv, unregister_done, Goto, sessionVars, hubVars, threadVars
<1>4. SessionInv'
  BY ServerAssumption DEF ServerInv, TypeOK, SessionAt, ThreadAt, Stream, LockInv,
                          Sending, ReachInv, SessionInv, HasStream, InPlay,
                          unregister_done, Goto, sessionVars, hubVars, threadVars
<1>5. ClockInv'
  BY DEF ServerInv, TypeOK, SessionAt, ThreadAt, Stream, LockInv, Sending,
         ClockInv, unregister_done, Goto, sessionVars, hubVars, threadVars
<1> QED
  BY <1>1, <1>2, <1>3, <1>4, <1>5 DEF ServerInv

(* An encoder thread begins with no context in its hands.                  *)
LEMMA EncoderStartKeeps ==
    ASSUME ServerInv, NEW t \in Tid, encoder_start(t)
    PROVE  ServerInv'
<1>1. TypeOK'
  BY ServerAssumption, ZenonT(30) DEF ServerInv, TypeOK, SessionAt, ThreadAt, Stream,
                          encoder_start, TGoto, sessionVars, hubVars, threadVars
<1>2. LockInv'
  BY ZenonT(40) DEF ServerInv, TypeOK, SessionAt, ThreadAt, Stream, LockInv, Sending,
         encoder_start, TGoto, sessionVars, hubVars, threadVars
<1>3. ReachInv'
  BY DEF ServerInv, TypeOK, SessionAt, ThreadAt, Stream, LockInv, Sending,
         ReachInv, encoder_start, TGoto, sessionVars, hubVars, threadVars
<1>4. SessionInv'
  BY ServerAssumption DEF ServerInv, TypeOK, SessionAt, ThreadAt, Stream, LockInv,
                          Sending, ReachInv, SessionInv, HasStream, InPlay,
                          encoder_start, TGoto, sessionVars, hubVars, threadVars
<1>5. ClockInv'
  BY DEF ServerInv, TypeOK, SessionAt, ThreadAt, Stream, LockInv, Sending,
         ClockInv, encoder_start, TGoto, sessionVars, hubVars, threadVars
<1> QED
  BY <1>1, <1>2, <1>3, <1>4, <1>5 DEF ServerInv

(* An encoder thread that leaves its loop holds no context.                *)
LEMMA EncoderLoopKeeps ==
    ASSUME ServerInv, NEW t \in Tid, encoder_loop(t)
    PROVE  ServerInv'
<1>1. TypeOK'
  BY ZenonT(40), ServerAssumption DEF ServerInv, TypeOK, SessionAt, ThreadAt, Stream,
                          encoder_loop, TGoto, sessionVars, hubVars, threadVars
<1>2. LockInv'
  BY ZenonT(40) DEF ServerInv, TypeOK, SessionAt, ThreadAt, Stream, LockInv, Sending,
         encoder_loop, TGoto, sessionVars, hubVars, threadVars
<1>3. ReachInv'
  BY DEF ServerInv, TypeOK, SessionAt, ThreadAt, Stream, LockInv, Sending,
         ReachInv, encoder_loop, TGoto, sessionVars, hubVars, threadVars
<1>4. SessionInv'
  BY ServerAssumption DEF ServerInv, TypeOK, SessionAt, ThreadAt, Stream, LockInv,
                          Sending, ReachInv, SessionInv, HasStream, InPlay,
                          encoder_loop, TGoto, sessionVars, hubVars, threadVars
<1>5. ClockInv'
  BY DEF ServerInv, TypeOK, SessionAt, ThreadAt, Stream, LockInv, Sending,
         ClockInv, encoder_loop, TGoto, sessionVars, hubVars, threadVars
<1> QED
  BY <1>1, <1>2, <1>3, <1>4, <1>5 DEF ServerInv

(* A reader takes the contexts that are registered as it locks.            *)
LEMMA EncoderSendPacketAllKeeps ==
    ASSUME ServerInv, NEW t \in Tid, encoder_send_packet_all(t)
    PROVE  ServerInv'
<1>1. TypeOK'
  <2>1. tosend' \in [Tid -> SUBSET Client]
    BY DEF ServerInv, TypeOK, encoder_send_packet_all
  <2>2. readers' \subseteq Tid
    BY DEF ServerInv, TypeOK, encoder_send_packet_all
  <2>3. tpc' \in [Tid -> ThreadAt]
    BY SMTT(30) DEF ServerInv, TypeOK, ThreadAt, encoder_send_packet_all, TGoto
  <2> QED
    BY <2>1, <2>2, <2>3
    DEF ServerInv, TypeOK, encoder_send_packet_all, sessionVars, hubVars
<1>2. LockInv'
  BY DEF ServerInv, TypeOK, SessionAt, ThreadAt, Stream, LockInv, Sending,
         encoder_send_packet_all, TGoto, sessionVars, hubVars, threadVars
<1>3. ReachInv'
  BY DEF ServerInv, TypeOK, SessionAt, ThreadAt, Stream, LockInv, Sending,
         ReachInv, encoder_send_packet_all, TGoto, sessionVars, hubVars,
         threadVars
<1>4. SessionInv'
  BY ServerAssumption DEF ServerInv, TypeOK, SessionAt, ThreadAt, Stream, LockInv,
                          Sending, ReachInv, SessionInv, HasStream, InPlay,
                          encoder_send_packet_all, TGoto, sessionVars, hubVars,
                          threadVars
<1>5. ClockInv'
  BY DEF ServerInv, TypeOK, SessionAt, ThreadAt, Stream, LockInv, Sending,
         ClockInv, encoder_send_packet_all, TGoto, sessionVars, hubVars,
         threadVars
<1> QED
  BY <1>1, <1>2, <1>3, <1>4, <1>5 DEF ServerInv

(* A reader turns to a context it took, which is still registered.         *)
LEMMA EncoderSendPacketKeeps ==
    ASSUME ServerInv, NEW t \in Tid, NEW c \in Client, encoder_send_packet(t, c)
    PROVE  ServerInv'
<1>1. TypeOK'
  <2>1. tosend' \in [Tid -> SUBSET Client]
    BY DEF ServerInv, TypeOK, encoder_send_packet
  <2>2. tpc' \in [Tid -> ThreadAt] /\ cur' \in [Tid -> Client \cup {NoClient}]
    BY ZenonT(30) DEF ServerInv, TypeOK, ThreadAt, encoder_send_packet, TGoto
  <2> QED
    BY <2>1, <2>2
    DEF ServerInv, TypeOK, encoder_send_packet, sessionVars, hubVars
<1>2. LockInv'
  BY SMTT(30) DEF ServerInv, TypeOK, SessionAt, ThreadAt, Stream, LockInv, Sending,
         encoder_send_packet, TGoto, sessionVars, hubVars, threadVars
<1>3. ReachInv'
  BY SMTT(30) DEF ServerInv, TypeOK, SessionAt, ThreadAt, Stream, LockInv, Sending,
         ReachInv, encoder_send_packet, TGoto, sessionVars, hubVars, threadVars
<1>4. SessionInv'
  BY ServerAssumption DEF ServerInv, TypeOK, SessionAt, ThreadAt, Stream, LockInv,
                          Sending, ReachInv, SessionInv, HasStream, InPlay,
                          encoder_send_packet, TGoto, sessionVars, hubVars,
                          threadVars
<1>5. ClockInv'
  BY DEF ServerInv, TypeOK, SessionAt, ThreadAt, Stream, LockInv, Sending,
         ClockInv, encoder_send_packet, TGoto, sessionVars, hubVars, threadVars
<1> QED
  BY <1>1, <1>2, <1>3, <1>4, <1>5 DEF ServerInv

(* A reader that releases the lock has no context left.                    *)
LEMMA EncoderSendEndKeeps ==
    ASSUME ServerInv, NEW t \in Tid, encoder_send_end(t)
    PROVE  ServerInv'
<1>1. TypeOK'
  BY ServerAssumption DEF ServerInv, TypeOK, SessionAt, ThreadAt, Stream,
                          encoder_send_end, TGoto, sessionVars, hubVars,
                          threadVars
<1>2. LockInv'
  BY DEF ServerInv, TypeOK, SessionAt, ThreadAt, Stream, LockInv, Sending,
         encoder_send_end, TGoto, sessionVars, hubVars, threadVars
<1>3. ReachInv'
  BY DEF ServerInv, TypeOK, SessionAt, ThreadAt, Stream, LockInv, Sending,
         ReachInv, encoder_send_end, TGoto, sessionVars, hubVars, threadVars
<1>4. SessionInv'
  BY ServerAssumption DEF ServerInv, TypeOK, SessionAt, ThreadAt, Stream, LockInv,
                          Sending, ReachInv, SessionInv, HasStream, InPlay,
                          encoder_send_end, TGoto, sessionVars, hubVars,
                          threadVars
<1>5. ClockInv'
  BY DEF ServerInv, TypeOK, SessionAt, ThreadAt, Stream, LockInv, Sending,
         ClockInv, encoder_send_end, TGoto, sessionVars, hubVars, threadVars
<1> QED
  BY <1>1, <1>2, <1>3, <1>4, <1>5 DEF ServerInv

(* The writer mutex of a context is taken while it is registered.          *)
LEMMA WriteLockKeeps ==
    ASSUME ServerInv, NEW t \in Tid, write_lock(t)
    PROVE  ServerInv'
<1>1. TypeOK'
  BY ServerAssumption DEF ServerInv, TypeOK, SessionAt, ThreadAt, Stream,
                          write_lock, TGoto, sessionVars, hubVars, threadVars
<1>2. LockInv'
  BY DEF ServerInv, TypeOK, SessionAt, ThreadAt, Stream, LockInv, Sending,
         write_lock, TGoto, sessionVars, hubVars, threadVars
<1>3. ReachInv'
  BY DEF ServerInv, TypeOK, SessionAt, ThreadAt, Stream, LockInv, Sending,
         ReachInv, write_lock, TGoto, sessionVars, hubVars, threadVars
<1>4. SessionInv'
  BY ServerAssumption DEF ServerInv, TypeOK, SessionAt, ThreadAt, Stream, LockInv,
                          Sending, ReachInv, SessionInv, HasStream, InPlay,
                          write_lock, TGoto, sessionVars, hubVars, threadVars
<1>5. ClockInv'
  BY DEF ServerInv, TypeOK, SessionAt, ThreadAt, Stream, LockInv, Sending,
         ClockInv, write_lock, TGoto, sessionVars, hubVars, threadVars
<1> QED
  BY <1>1, <1>2, <1>3, <1>4, <1>5 DEF ServerInv

(* A written header leaves the reader with its context.                    *)
LEMMA HeaderWrittenKeeps ==
    ASSUME ServerInv, NEW t \in Tid, header_written(t)
    PROVE  ServerInv'
<1>1. TypeOK'
  BY ServerAssumption DEF ServerInv, TypeOK, SessionAt, ThreadAt, Stream,
                          header_written, TGoto, sessionVars, hubVars, threadVars
<1>2. LockInv'
  BY DEF ServerInv, TypeOK, SessionAt, ThreadAt, Stream, LockInv, Sending,
         header_written, TGoto, sessionVars, hubVars, threadVars
<1>3. ReachInv'
  BY DEF ServerInv, TypeOK, SessionAt, ThreadAt, Stream, LockInv, Sending,
         ReachInv, header_written, TGoto, sessionVars, hubVars, threadVars
<1>4. SessionInv'
  BY ServerAssumption DEF ServerInv, TypeOK, SessionAt, ThreadAt, Stream, LockInv,
                          Sending, ReachInv, SessionInv, HasStream, InPlay,
                          header_written, TGoto, sessionVars, hubVars, threadVars
<1>5. ClockInv'
  BY DEF ServerInv, TypeOK, SessionAt, ThreadAt, Stream, LockInv, Sending,
         ClockInv, header_written, TGoto, sessionVars, hubVars, threadVars
<1> QED
  BY <1>1, <1>2, <1>3, <1>4, <1>5 DEF ServerInv

(* A header that cannot be written ends the write.                         *)
LEMMA HeaderFailsKeeps ==
    ASSUME ServerInv, NEW t \in Tid, header_fails(t)
    PROVE  ServerInv'
<1>1. TypeOK'
  BY ServerAssumption DEF ServerInv, TypeOK, SessionAt, ThreadAt, Stream,
                          header_fails, mutex_released, write_over, TGoto,
                          sessionVars, hubVars, threadVars
<1>2. LockInv'
  BY DEF ServerInv, TypeOK, SessionAt, ThreadAt, Stream, LockInv, Sending,
         header_fails, mutex_released, write_over, TGoto, sessionVars, hubVars,
         threadVars
<1>3. ReachInv'
  BY DEF ServerInv, TypeOK, SessionAt, ThreadAt, Stream, LockInv, Sending,
         ReachInv, header_fails, mutex_released, write_over, TGoto, sessionVars,
         hubVars, threadVars
<1>4. SessionInv'
  BY ServerAssumption DEF ServerInv, TypeOK, SessionAt, ThreadAt, Stream, LockInv,
                          Sending, ReachInv, SessionInv, HasStream, InPlay,
                          header_fails, mutex_released, write_over, TGoto,
                          sessionVars, hubVars, threadVars
<1>5. ClockInv'
  BY DEF ServerInv, TypeOK, SessionAt, ThreadAt, Stream, LockInv, Sending,
         ClockInv, header_fails, mutex_released, write_over, TGoto, sessionVars,
         hubVars, threadVars
<1> QED
  BY <1>1, <1>2, <1>3, <1>4, <1>5 DEF ServerInv

(* A written body ends the write, or goes on with the next packet.         *)
LEMMA BodyWrittenKeeps ==
    ASSUME ServerInv, NEW t \in Tid, body_written(t)
    PROVE  ServerInv'
<1>1. /\ tpc[t] = "body" /\ tpc' \in {[tpc EXCEPT ![t] = "send"], [tpc EXCEPT ![t] = "wlock"]}
      /\ cur' \in {cur, [cur EXCEPT ![t] = NoClient]}
      /\ tpc'[t] = "send" => cur'[t] = NoClient
      /\ wmutex' = [wmutex EXCEPT ![cur[t]] = NoThread]
      /\ UNCHANGED <<pc, sessionVars, hubVars, role, basePts, tosend, readers, crashed>>
  BY DEF ServerInv, TypeOK, body_written, next_packet, mutex_released, write_over, TGoto
<1>2. tpc'[t] \in Sending /\ tpc[t] \in Sending /\ \A u \in Tid \ {t} : tpc'[u] = tpc[u]
  BY <1>1 DEF ServerInv, TypeOK, Sending
<1>3. TypeOK'
  <2>1. tpc' \in [Tid -> ThreadAt] /\ cur' \in [Tid -> Client \cup {NoClient}]
    BY <1>1 DEF ServerInv, TypeOK, ThreadAt
  <2>2. wmutex' \in [Client -> Tid \cup {NoThread}]
    BY <1>1 DEF ServerInv, TypeOK
  <2> QED
    BY <1>1, <2>1, <2>2 DEF ServerInv, TypeOK, sessionVars, hubVars
<1>4. LockInv'
  BY <1>1, <1>2 DEF ServerInv, LockInv, hubVars
<1>5. ReachInv'
  <2>1. \A u \in Tid : cur'[u] = cur[u] \/ (u = t /\ cur'[u] = NoClient)
    BY <1>1 DEF ServerInv, TypeOK
  <2>2. t \in readers
    BY <1>2 DEF ServerInv, LockInv
  <2>3. \A u \in Tid : tpc'[u] = "send" => cur'[u] = NoClient
    BY <1>1, <1>2, <2>1 DEF ServerInv, ReachInv
  <2> QED
    BY <1>1, <2>1, <2>2, <2>3 DEF ServerInv, TypeOK, ReachInv, hubVars
<1>6. SessionInv'
  BY <1>1 DEF ServerInv, SessionInv, HasStream, InPlay, sessionVars, hubVars
<1>7. ClockInv'
  BY <1>1, <1>2 DEF ServerInv, ClockInv, Sending, hubVars
<1> QED
  BY <1>3, <1>4, <1>5, <1>6, <1>7 DEF ServerInv

(* A body that cannot be written ends the write, the mutex kept.           *)
LEMMA BodyFailsKeeps ==
    ASSUME ServerInv, NEW t \in Tid, body_fails(t)
    PROVE  ServerInv'
<1>1. TypeOK'
  BY ServerAssumption DEF ServerInv, TypeOK, SessionAt, ThreadAt, Stream,
                          body_fails, write_over, TGoto, sessionVars, hubVars,
                          threadVars
<1>2. LockInv'
  BY DEF ServerInv, TypeOK, SessionAt, ThreadAt, Stream, LockInv, Sending,
         body_fails, write_over, TGoto, sessionVars, hubVars, threadVars
<1>3. ReachInv'
  BY DEF ServerInv, TypeOK, SessionAt, ThreadAt, Stream, LockInv, Sending,
         ReachInv, body_fails, write_over, TGoto, sessionVars, hubVars, threadVars
<1>4. SessionInv'
  BY ServerAssumption DEF ServerInv, TypeOK, SessionAt, ThreadAt, Stream, LockInv,
                          Sending, ReachInv, SessionInv, HasStream, InPlay,
                          body_fails, write_over, TGoto, sessionVars, hubVars,
                          threadVars
<1>5. ClockInv'
  BY DEF ServerInv, TypeOK, SessionAt, ThreadAt, Stream, LockInv, Sending,
         ClockInv, body_fails, write_over, TGoto, sessionVars, hubVars, threadVars
<1> QED
  BY <1>1, <1>2, <1>3, <1>4, <1>5 DEF ServerInv

-----------------------------------------------------------------------------
(* The threads' steps together.                                            *)

(* The program begins without contexts and threads.                        *)
LEMMA InitHolds ==
    Init => ServerInv
<1> SUFFICES ASSUME Init PROVE ServerInv
  OBVIOUS
<1>1. Encoders[1] \in Channel /\ 1 \in 1..Len(Encoders) + 1
  <2>1. Len(Encoders) >= 1 /\ DOMAIN Encoders = 1..Len(Encoders)
    BY ServerAssumption
  <2> QED
    BY <2>1 DEF Channel, Range
<1>2. TypeOK
  BY <1>1, ServerAssumption DEF Init, TypeOK, SessionAt, ThreadAt
<1>3. LockInv
  BY ServerAssumption DEF Init, LockInv, Sending
<1>4. ReachInv /\ SessionInv /\ ClockInv
  BY DEF Init, ReachInv, SessionInv, InPlay, ClockInv
<1> QED
  BY <1>2, <1>3, <1>4 DEF ServerInv

(* What the server does not do keeps ServerInv.                            *)
LEMMA StutterKeeps ==
    ASSUME ServerInv, UNCHANGED vars
    PROVE  ServerInv'
BY DEF ServerInv, vars, sessionVars, hubVars, threadVars, TypeOK, LockInv, ReachInv,
       SessionInv, HasStream, ClockInv

(* Every command of a session keeps ServerInv.                             *)
LEMMA ServeKeeps ==
    ASSUME ServerInv, NEW c \in Client, Serve(c)
    PROVE  ServerInv'
BY RtspCmdSetupKeeps, RtspCmdPlayKeeps, RtspCmdPauseKeeps, StrcmpNullKeeps DEF Serve

(* Every step of encoder_register_client keeps ServerInv.                  *)
LEMMA RegisterKeeps ==
    ASSUME ServerInv, NEW c \in Client, Register(c)
    PROVE  ServerInv'
BY RegisterLockKeeps, RegisterCreateKeeps, RegisterCreateFailsKeeps,
   RegisterFailsKeeps,
   RegisterDoneKeeps, PlayDoneKeeps DEF Register

(* Every step of a leaving client keeps ServerInv.                         *)
LEMMA LeaveKeeps ==
    ASSUME ServerInv, NEW c \in Client, Leave(c)
    PROVE  ServerInv'
BY CloseFdKeeps, UnregisterLockKeeps, PthreadJoinKeeps, PthreadJoinNothingKeeps,
   UnregisterDoneKeeps, PerClientDeinitKeeps DEF Leave

(* Every step of an encoder thread keeps ServerInv.                        *)
LEMMA EncoderThreadKeeps ==
    ASSUME ServerInv, NEW t \in Tid, EncoderThread(t)
    PROVE  ServerInv'
<1>1. CASE rtsp_write(t)
  BY <1>1, HeaderWrittenKeeps, HeaderFailsKeeps, BodyWrittenKeeps, BodyFailsKeeps
  DEF rtsp_write
<1>2. CASE ~rtsp_write(t)
  BY <1>2, EncoderStartKeeps, EncoderLoopKeeps, EncoderSendPacketAllKeeps,
     EncoderSendPacketKeeps, EncoderSendEndKeeps, WriteLockKeeps DEF EncoderThread
<1> QED
  BY <1>1, <1>2

(* Every step of the server keeps ServerInv.                               *)
LEMMA StepKeeps ==
    ASSUME ServerInv, [Next]_vars
    PROVE  ServerInv'
<1>1. ASSUME NEW c \in Client, Command(c) \/ Register(c) \/ Leave(c)
      PROVE  ServerInv'
  BY <1>1, RtspserverKeeps, ServeKeeps, QuitKeeps, RegisterKeeps, LeaveKeeps
  DEF Command
<1> QED
  BY <1>1, EncoderThreadKeeps, StutterKeeps DEF Next

(* What AcceptLoop adds does not concern ServerInv: a thread that writes   *)
(* to a stranger's connection still reaches a context that is there.       *)
LEMMA AcceptStepKeeps ==
    ASSUME ServerInv, [AcceptNext]_acceptvars
    PROVE  ServerInv'
<1>1. ASSUME UNCHANGED vars PROVE ServerInv'
  BY <1>1, StutterKeeps
<1>2. ASSUME NEW c \in Client, thread_begins(c) \/ serve(c) \/ close_connection(c) \/ end_thread(c)
      PROVE  ServerInv'
  BY <1>2, RtspserverKeeps, ServeKeeps, QuitKeeps, CloseFdKeeps,
     PerClientDeinitKeeps
  DEF thread_begins, serve, close_connection, end_thread
<1>3. ASSUME NEW t \in Tid, write_to_stranger(t) PROVE ServerInv'
  BY <1>3, HeaderWrittenKeeps, BodyWrittenKeeps DEF write_to_stranger
<1>4. ASSUME other_steps PROVE ServerInv'
  BY <1>4, RegisterKeeps, LeaveKeeps, EncoderThreadKeeps DEF other_steps
<1>5. CASE AcceptNext
  <2>1. CASE \/ listen \/ accept_fails \/ create_thread_fails
             \/ \E f \in Fd : accept_connection(f)
             \/ \E c \in Client : create_thread(c)
    BY <2>1, <1>1
    DEF listen, accept_fails, create_thread_fails, accept_connection, create_thread
  <2> QED
    BY <1>5, <2>1, <1>2, <1>3, <1>4 DEF AcceptNext
<1> QED
  BY <1>1, <1>5 DEF acceptvars

-----------------------------------------------------------------------------
(* Streams change in a step of the context's own thread only, and at a     *)
(* time at which it is not registered.                                     *)

Stable == \A c \in clients \cap clients' : fmtctx'[c] = fmtctx[c]

(* Only SETUP changes a stream, of a context that does not play yet.       *)
LEMMA ServeStable ==
    ASSUME ServerInv, NEW c \in Client, Serve(c)
    PROVE  Stable
<1>1. ASSUME NEW e \in Channel, NEW hdr, NEW offered, rtsp_cmd_setup(c, e, hdr, offered)
      PROVE  Stable
  <2>1. c \notin clients
    BY <1>1 DEF ServerInv, SessionInv, rtsp_cmd_setup, setup_state
  <2>2. \E s : fmtctx' = [fmtctx EXCEPT ![c][e] = s]
    BY <1>1 DEF rtsp_cmd_setup, error_setup
  <2>3. \A d \in Client \ {c} : fmtctx'[d] = fmtctx[d]
    BY <2>2 DEF ServerInv, TypeOK
  <2> QED
    BY <2>1, <2>3 DEF Stable, ServerInv, TypeOK
<1>2. ASSUME UNCHANGED fmtctx PROVE Stable
  BY <1>2 DEF Stable
<1> QED
  BY <1>1, <1>2
  DEF Serve, rtsp_cmd_play, rtsp_cmd_pause, strcmp_null, sessionVars

(* Threads that begin and end have contexts that are not registered.       *)
LEMMA ContextStable ==
    ASSUME ServerInv, NEW c \in Client, rtspserver(c) \/ per_client_deinit(c)
    PROVE  Stable
<1>1. c \notin clients
  BY DEF ServerInv, ReachInv, rtspserver, per_client_deinit
<1>2. fmtctx' = [fmtctx EXCEPT ![c] = [e \in Channel |-> NULL]]
  BY DEF rtspserver, per_client_deinit
<1>3. \A d \in Client \ {c} : fmtctx'[d] = fmtctx[d]
  BY <1>2 DEF ServerInv, TypeOK
<1> QED
  BY <1>1, <1>3 DEF Stable, ServerInv, TypeOK

(* Registering changes no stream.                                          *)
LEMMA RegisterStable ==
    ASSUME NEW c \in Client, Register(c)
    PROVE  Stable
<1>1. UNCHANGED fmtctx
  BY DEF Register, register_lock, register_create, register_create_fails,
         register_fails,
         register_done, play_done, sessionVars
<1> QED
  BY <1>1 DEF Stable

(* A leaving client drops its streams when it is not registered.           *)
LEMMA LeaveStable ==
    ASSUME ServerInv, NEW c \in Client, Leave(c)
    PROVE  Stable
<1>1. CASE per_client_deinit(c)
  BY <1>1, ContextStable
<1>2. CASE ~per_client_deinit(c)
  <2>1. UNCHANGED fmtctx
    BY <1>2 DEF Leave, close_fd, unregister_lock, pthread_join,
                pthread_join_nothing,
                unregister_done, sessionVars
  <2> QED
    BY <2>1 DEF Stable
<1> QED
  BY <1>1, <1>2

(* Encoder threads only read the streams.                                  *)
LEMMA EncoderThreadStable ==
    ASSUME NEW t \in Tid, EncoderThread(t)
    PROVE  Stable
<1>1. UNCHANGED fmtctx
  BY DEF EncoderThread, encoder_start, encoder_loop, encoder_send_packet_all,
         encoder_send_packet, encoder_send_end, write_lock, rtsp_write, header_written,
         header_fails, body_written, next_packet, body_fails, write_over, sessionVars
<1> QED
  BY <1>1 DEF Stable

(* No step of the server changes a registered client's streams.            *)
LEMMA StepStable ==
    ASSUME ServerInv, [Next]_vars
    PROVE  Stable
<1>1. ASSUME NEW c \in Client, Command(c) \/ Register(c) \/ Leave(c)
      PROVE  Stable
  <2>1. CASE quit(c)
    BY <2>1 DEF quit, Stable
  <2> QED
    BY <1>1, <2>1, ContextStable, ServeStable, RegisterStable, LeaveStable
    DEF Command
<1>2. CASE UNCHANGED vars
  BY <1>2 DEF vars, sessionVars, Stable
<1> QED
  BY <1>1, <1>2, EncoderThreadStable DEF Next

(* Nor does any step of the accept loop.                                   *)
LEMMA AcceptStepStable ==
    ASSUME ServerInv, [AcceptNext]_acceptvars
    PROVE  Stable
<1>1. ASSUME UNCHANGED vars PROVE Stable
  BY <1>1 DEF vars, sessionVars, Stable
<1>2. ASSUME NEW c \in Client, thread_begins(c) \/ serve(c) \/ close_connection(c) \/ end_thread(c)
      PROVE  Stable
  BY <1>2, ContextStable, ServeStable
  DEF thread_begins, serve, close_connection, end_thread, quit, close_fd, sessionVars, Stable
<1>3. ASSUME NEW t \in Tid, write_to_stranger(t) PROVE Stable
  BY <1>3 DEF write_to_stranger, header_written, body_written, next_packet, write_over,
              sessionVars, Stable
<1>4. ASSUME other_steps PROVE Stable
  BY <1>4, RegisterStable, LeaveStable, EncoderThreadStable DEF other_steps
<1>5. CASE AcceptNext
  <2>1. CASE \/ listen \/ accept_fails \/ create_thread_fails
             \/ \E f \in Fd : accept_connection(f)
             \/ \E c \in Client : create_thread(c)
    BY <2>1, <1>1
    DEF listen, accept_fails, create_thread_fails, accept_connection, create_thread
  <2> QED
    BY <1>5, <2>1, <1>2, <1>3, <1>4 DEF AcceptNext
<1> QED
  BY <1>1, <1>5 DEF acceptvars

-----------------------------------------------------------------------------
(* What ServerInv says of the properties.                                  *)

(* The contexts that readers reach are registered, so they are there.      *)
LEMMA NoneDangles ==
    ServerInv => NoDanglingContext
BY DEF ServerInv, TypeOK, ReachInv, NoDanglingContext, Alive

(* Who plays has a session with a stream.                                  *)
LEMMA PlayersHaveSessions ==
    ServerInv => PlayingHasSession
BY DEF ServerInv, TypeOK, SessionInv, HasStream, PlayingHasSession

(* No encoder thread and nobody at the lock: the clock is armed.           *)
LEMMA ClockIsArmed ==
    ServerInv => ClockArmedBetweenSessions
BY ServerAssumption DEF ServerInv, TypeOK, LockInv, ClockInv,
                        ClockArmedBetweenSessions

(***************************************************************************)
(* The inductive invariant holds: the meaning of the locks, who reaches    *)
(* which context, and what a session has.                                  *)
(***************************************************************************)
THEOREM ServerCorrect ==
    Spec => []ServerInv
<1>1. Init => ServerInv
  BY InitHolds
<1>2. ServerInv /\ [Next]_vars => ServerInv'
  BY StepKeeps
<1> QED
  BY <1>1, <1>2, PTL DEF Spec

(***************************************************************************)
(* However many connections come and go, encoder threads never reach a     *)
(* context that is gone (rtspserver.cpp:1071-1086).                        *)
(***************************************************************************)
THEOREM NoDanglingCorrect ==
    Spec => []NoDanglingContext
BY ServerCorrect, NoneDangles, PTL

(***************************************************************************)
(* Whatever a client sends, it plays only with a session and a stream of   *)
(* that session (rtsp_cmd_setup, rtsp_cmd_play and rtsp_cmd_pause).        *)
(***************************************************************************)
THEOREM PlayingHasSessionCorrect ==
    Spec => []PlayingHasSession
BY ServerCorrect, PlayersHaveSessions, PTL

(***************************************************************************)
(* With all encoder threads joined and nobody starting or stopping them    *)
(* the shared clock is armed (encoder_unregister_client), whatever clients *)
(* and pthread_create do.                                                  *)
(***************************************************************************)
THEOREM ClockArmedCorrect ==
    Spec => []ClockArmedBetweenSessions
BY ServerCorrect, ClockIsArmed, PTL

(***************************************************************************)
(* The streams of a registered client do not change (encoder_send_packet   *)
(* reads them without a lock).                                             *)
(***************************************************************************)
THEOREM StreamsStableCorrect ==
    Spec => StreamsStable
<1>1. ServerInv /\ [Next]_vars => [Stable]_vars
  BY StepStable
<1> QED
  BY <1>1, ServerCorrect, PTL DEF Spec, StreamsStable, Stable

(***************************************************************************)
(* The same with the accept loop, which hands out descriptors of closed    *)
(* connections again while encoder threads still write to them             *)
(* (core/server.cpp:96, rtspserver.cpp:1069).                              *)
(***************************************************************************)
THEOREM ConnectionsCorrect ==
    AcceptSpec => [](NoDanglingContext /\ PlayingHasSession) /\ StreamsStable
<1>1. AcceptInit => ServerInv
  BY InitHolds DEF AcceptInit
<1>2. ServerInv /\ [AcceptNext]_acceptvars => ServerInv'
  BY AcceptStepKeeps
<1>3. ServerInv /\ [AcceptNext]_acceptvars => [Stable]_vars
  BY AcceptStepStable
<1>4. ServerInv => NoDanglingContext /\ PlayingHasSession
  BY NoneDangles, PlayersHaveSessions
<1> QED
  BY <1>1, <1>2, <1>3, <1>4, PTL DEF AcceptSpec, StreamsStable, Stable

-----------------------------------------------------------------------------
(***************************************************************************)
(* What encoder_register_client and encoder_unregister_client promise as   *)
(* long as pthread_create succeeds, for any number of connections and of   *)
(* encoders: who plays is served, by one encoder for each channel, and     *)
(* nobody joins a thread that is not there.                                *)
(***************************************************************************)
AllStarted  == \A e \in Channel : slot[e] # NoThread
NoneStarted == \A e \in Channel : slot[e] = NoThread

(* A thread that was created and not joined is in the slot of its channel. *)
SlotInv ==
    /\ \A t \in Tid : tpc[t] # "none" => slot[role[t]] = t
    /\ \A e \in Channel : slot[e] # NoThread => role[slot[e]] = e /\ tpc[slot[e]] # "none"

(* The slots go with the clients, except while a thread that has the lock  *)
(* fills or empties them, one after the other.                             *)
PhaseInv ==
    /\ \A c \in Client : pc[c] # "regfail"
    /\ writer = NoClient =>
         IF clients = {} THEN NoneStarted ELSE threadLaunched /\ AllStarted
    /\ \A c \in Client : pc[c] = "create" =>
         /\ threadLaunched
         /\ \A i \in 1..Len(Encoders) : slot[Encoders[i]] = NoThread <=> i >= idx
    /\ \A c \in Client : pc[c] = "join" =>
         /\ clients = {} /\ ~threadLaunched
         /\ \A i \in 1..Len(Encoders) : i < idx => slot[Encoders[i]] = NoThread

DoneInv == ~EncodeFails => \A t \in Tid : tpc[t] = "done" => ~threadLaunched

(* Who leaves politely has played, and is registered until it has the lock. *)
PoliteInv ==
    Polite =>
        /\ \A c \in Client :
             \/ pc[c] \in {"played", "close", "unreg"}
             \/ pc[c] \in {"serving", "reg", "create"} /\ state[c] \in {"PLAYING", "PAUSE"}
             => c \in clients
        /\ \A c \in Client : pc[c] = "join" =>
             \A i \in 1..Len(Encoders) : i >= idx => slot[Encoders[i]] # NoThread

(* While streams can be set up, a session that is ready to play has an id; *)
(* the process dies only of one that has not.  No session serves on that   *)
(* is over.                                                                *)
Over(c) == pc[c] \in InPlay \cup {"serving"} /\ state[c] = "TEARDOWN"

IdInv ==
    Polite =>
        /\ crashed => EncodeFails /\ \E c \in Client : LostSession(c)
        /\ \A c \in Client : ~EncodeFails => ~LostSession(c)
        /\ \A c \in Client : ~Over(c)

HubInv == SlotInv /\ PhaseInv /\ DoneInv /\ PoliteInv

-----------------------------------------------------------------------------
(* Channels are the encoders, each by its number.                          *)
LEMMA ChannelNumbers ==
    /\ \A i \in 1..Len(Encoders) : Encoders[i] \in Channel
    /\ \A e \in Channel : \E i \in 1..Len(Encoders) : Encoders[i] = e
    /\ \A i, j \in 1..Len(Encoders) : Encoders[i] = Encoders[j] => i = j
    /\ Len(Encoders) \in Nat \ {0}
<1>1. DOMAIN Encoders = 1..Len(Encoders) /\ Len(Encoders) \in Nat \ {0}
  BY ServerAssumption
<1> QED
  BY <1>1, ServerAssumption DEF Channel, Range, IsInjective

(* The hub begins without clients and threads.                             *)
LEMMA HubInit ==
    Init => HubInv
BY DEF Init, HubInv, SlotInv, PhaseInv, NoneStarted, DoneInv, PoliteInv

(* A session thread between the calls of the hub.                          *)
LEMMA CommandKeepsHub ==
    ASSUME ServerInv, HubInv, NEW c \in Client,
           Command(c) \/ play_done(c) \/ close_fd(c) \/ per_client_deinit(c)
    PROVE  HubInv'
<1>1. UNCHANGED <<hubVars, tpc, role>>
  BY DEF Command, rtspserver, Serve, rtsp_cmd_setup, error_setup, rtsp_cmd_play,
         rtsp_cmd_pause, strcmp_null, quit, play_done, close_fd, per_client_deinit,
         threadVars
<1>2. \A d \in Client \ {c} : pc'[d] = pc[d] /\ state'[d] = state[d]
  BY DEF ServerInv, TypeOK, Command, rtspserver, per_client_init, Goto, Serve,
         rtsp_cmd_setup, error_setup, rtsp_cmd_play, rtsp_cmd_pause, strcmp_null, quit,
         play_done, close_fd, per_client_deinit, threadVars, sessionVars
<1>3. pc'[c] \notin {"regfail", "create", "join"} \/ pc'[c] = pc[c]
  BY DEF ServerInv, TypeOK, Command, rtspserver, per_client_init, Goto, Serve,
         rtsp_cmd_setup, error_setup, rtsp_cmd_play, rtsp_cmd_pause, strcmp_null, quit,
         play_done, close_fd, per_client_deinit, threadVars, sessionVars
<1>4. SlotInv' /\ DoneInv'
  BY <1>1 DEF HubInv, SlotInv, DoneInv, hubVars
<1>5. PhaseInv'
  BY <1>1, <1>2, <1>3 DEF HubInv, PhaseInv, AllStarted, NoneStarted, hubVars
<1>6. PoliteInv'
  <2> SUFFICES ASSUME Polite PROVE PoliteInv'
    BY DEF PoliteInv
  <2>1. \/ pc'[c] \in {"played", "close", "unreg"}
        \/ pc'[c] \in {"serving", "reg", "create"} /\ state'[c] \in {"PLAYING", "PAUSE"}
        => c \in clients
    BY DEF HubInv, PoliteInv, ServerInv, TypeOK, Command, rtspserver, per_client_init,
           Goto, Serve, rtsp_cmd_setup, error_setup, rtsp_cmd_play, rtsp_cmd_pause,
           strcmp_null, quit, play_done, close_fd, per_client_deinit, sessionVars
  <2> QED
    BY <1>1, <1>2, <1>3, <2>1 DEF HubInv, PoliteInv, hubVars
<1> QED
  BY <1>4, <1>5, <1>6 DEF HubInv

(* The first client starts the encoders; the others find them there.       *)
LEMMA RegisterKeepsHub ==
    ASSUME ServerInv, HubInv, ~CreateFails, NEW c \in Client,
           register_lock(c) \/ register_create(c) \/ register_create_fails(c)
           \/ register_fails(c) \/ register_done(c)
    PROVE  HubInv'
<1>1. CASE register_lock(c)
  <2>1. /\ writer = NoClient /\ clients' = clients /\ slot' = slot /\ tpc' = tpc
        /\ role' = role /\ state' = state /\ crashed' = crashed
        /\ writer' = c /\ pc' = [pc EXCEPT ![c] = "create"]
        /\ pc \in [Client -> SessionAt] /\ c # NoClient /\ pc[c] = "reg"
    BY <1>1, ServerAssumption
    DEF register_lock, LockFree, Goto, sessionVars, threadVars, ServerInv, TypeOK
  <2>2. \A d \in Client \ {c} : pc'[d] \notin {"create", "join"} /\ pc'[d] = pc[d]
    BY <2>1, ServerAssumption DEF ServerInv, LockInv
  <2>3. /\ threadLaunched'
        /\ idx' = IF clients = {} THEN 1 ELSE Len(Encoders) + 1
    BY <1>1, <2>1 DEF register_lock, HubInv, PhaseInv
  <2>4. \A i \in 1..Len(Encoders) : slot[Encoders[i]] = NoThread <=> clients = {}
    BY <2>1, ChannelNumbers DEF HubInv, PhaseInv, NoneStarted, AllStarted
  <2>5. \A i \in 1..Len(Encoders) : i >= idx' <=> clients = {}
    BY <2>3, ChannelNumbers
  <2>6. SlotInv'
    BY <2>1 DEF HubInv, SlotInv
  <2>7. PhaseInv'
    BY <2>1, <2>2, <2>3, <2>4, <2>5 DEF HubInv, PhaseInv
  <2>8. DoneInv'
    <3> SUFFICES ASSUME ~EncodeFails, NEW t \in Tid, tpc[t] = "done" PROVE FALSE
      BY <2>1 DEF DoneInv
    <3>1. slot[role[t]] = t /\ role[t] \in Channel /\ t # NoThread
      BY ServerAssumption DEF HubInv, SlotInv, ServerInv, TypeOK
    <3>2. clients # {} /\ threadLaunched
      BY <2>1, <3>1 DEF HubInv, PhaseInv, NoneStarted
    <3> QED
      BY <3>2 DEF HubInv, DoneInv
  <2>9. PoliteInv'
    BY <2>1, <2>2 DEF HubInv, PoliteInv
  <2> QED
    BY <2>6, <2>7, <2>8, <2>9 DEF HubInv
<1>2. CASE register_create(c)
  <2>1. PICK t \in Tid :
          /\ tpc[t] = "none"
          /\ tpc' = [tpc EXCEPT ![t] = "start"]
          /\ role' = [role EXCEPT ![t] = Encoders[idx]]
          /\ slot' = [slot EXCEPT ![Encoders[idx]] = t]
    BY <1>2 DEF register_create, TGoto
  <2>2. /\ pc[c] = "create" /\ idx \in 1..Len(Encoders) /\ idx' = idx + 1
        /\ pc' = pc /\ state' = state /\ clients' = clients /\ writer' = writer
        /\ threadLaunched' = threadLaunched /\ crashed' = crashed
    BY <1>2, ChannelNumbers DEF register_create, sessionVars, ServerInv, TypeOK
  <2>3. /\ Encoders[idx] \in Channel /\ t # NoThread /\ writer = c /\ c # NoClient
        /\ tpc \in [Tid -> ThreadAt] /\ role \in [Tid -> Channel]
        /\ slot \in [Channel -> Tid \cup {NoThread}]
    <3>1. Encoders[idx] \in Channel /\ t # NoThread /\ c # NoClient
      BY <2>2, ChannelNumbers, ServerAssumption
    <3>2. /\ writer = c /\ tpc \in [Tid -> ThreadAt] /\ role \in [Tid -> Channel]
          /\ slot \in [Channel -> Tid \cup {NoThread}]
      BY <2>2 DEF ServerInv, TypeOK, LockInv
    <3> QED
      BY <3>1, <3>2
  <2>4. slot[Encoders[idx]] = NoThread
    BY <2>2 DEF HubInv, PhaseInv
  <2>5. \A d \in Client : pc[d] \in {"create", "join"} => d = c
    BY <2>3 DEF ServerInv, LockInv
  <2>6. SlotInv'
    BY <2>1, <2>3, <2>4, ServerAssumption DEF HubInv, SlotInv
  <2>7. PhaseInv'
    <3>1. \A i \in 1..Len(Encoders) : slot'[Encoders[i]] = NoThread <=> i >= idx'
      <4> SUFFICES ASSUME NEW i \in 1..Len(Encoders)
                   PROVE  slot'[Encoders[i]] = NoThread <=> i >= idx'
        OBVIOUS
      <4>1. CASE i = idx
        BY <4>1, <2>1, <2>2, <2>3
      <4>2. CASE i # idx
        <5>1. slot'[Encoders[i]] = slot[Encoders[i]]
          BY <4>2, <2>1, <2>2, <2>3, ChannelNumbers
        <5>2. slot[Encoders[i]] = NoThread <=> i >= idx
          BY <2>2 DEF HubInv, PhaseInv
        <5> QED
          BY <5>1, <5>2, <4>2, <2>2
      <4> QED
        BY <4>1, <4>2
    <3> QED
      BY <3>1, <2>2, <2>3, <2>5 DEF HubInv, PhaseInv
  <2>8. DoneInv'
    BY <2>1, <2>2, <2>3 DEF HubInv, DoneInv
  <2>9. PoliteInv'
    BY <2>2, <2>5 DEF HubInv, PoliteInv
  <2> QED
    BY <2>6, <2>7, <2>8, <2>9 DEF HubInv
<1>3. CASE register_done(c)
  <2>1. /\ pc[c] = "create" /\ idx > Len(Encoders) /\ clients' = clients \cup {c}
        /\ writer' = NoClient /\ pc' = [pc EXCEPT ![c] = "played"]
        /\ UNCHANGED <<state, threadLaunched, slot, tpc, role, crashed, idx>>
        /\ pc \in [Client -> SessionAt] /\ idx \in Nat
    BY <1>3, ChannelNumbers DEF register_done, Goto, sessionVars, threadVars, ServerInv, TypeOK
  <2>2. \A d \in Client \ {c} : pc'[d] \notin {"create", "join"} /\ pc'[d] = pc[d]
    BY <2>1 DEF ServerInv, LockInv
  <2>3. AllStarted /\ threadLaunched
    <3>1. \A i \in 1..Len(Encoders) : ~(i >= idx)
      BY <2>1, ChannelNumbers
    <3> QED
      BY <2>1, <3>1, ChannelNumbers DEF HubInv, PhaseInv, AllStarted
  <2>4. SlotInv' /\ DoneInv'
    BY <2>1 DEF HubInv, SlotInv, DoneInv
  <2>5. PhaseInv'
    BY <2>1, <2>2, <2>3 DEF HubInv, PhaseInv, AllStarted
  <2>6. PoliteInv'
    BY <2>1, <2>2 DEF HubInv, PoliteInv
  <2> QED
    BY <2>4, <2>5, <2>6 DEF HubInv
<1>4. CASE register_create_fails(c) \/ register_fails(c)
  BY <1>4 DEF register_create_fails, register_fails, HubInv, PhaseInv
<1> QED
  BY <1>1, <1>2, <1>3, <1>4

(* The last client to leave ends the encoders; another leaves them alone.  *)
LEMMA LeaveKeepsHub ==
    ASSUME ServerInv, HubInv, NEW c \in Client,
           unregister_lock(c) \/ pthread_join(c) \/ pthread_join_nothing(c)
           \/ unregister_done(c)
    PROVE  HubInv'
<1>1. CASE unregister_lock(c)
  <2>1. /\ writer = NoClient /\ clients' = clients \ {c} /\ slot' = slot /\ tpc' = tpc
        /\ role' = role /\ state' = state /\ crashed' = crashed
        /\ pc \in [Client -> SessionAt] /\ c # NoClient /\ pc[c] = "unreg"
    BY <1>1, ServerAssumption
    DEF unregister_lock, LockFree, sessionVars, threadVars, ServerInv, TypeOK
  <2>2. \/ /\ clients' = {} /\ ~threadLaunched' /\ writer' = c /\ idx' = 1
           /\ pc' = [pc EXCEPT ![c] = "join"]
        \/ /\ clients' # {} /\ threadLaunched' = threadLaunched /\ writer' = NoClient
           /\ pc' = [pc EXCEPT ![c] = "deinit"]
    BY <1>1, <2>1 DEF unregister_lock, Goto
  <2>3. /\ \A d \in Client \ {c} : pc'[d] \notin {"create", "join"} /\ pc'[d] = pc[d]
        /\ (pc'[c] = "join" /\ writer' = c) \/ (pc'[c] = "deinit" /\ writer' = NoClient)
    BY <2>1, <2>2, ServerAssumption DEF ServerInv, LockInv
  <2>4. SlotInv'
    BY <2>1 DEF HubInv, SlotInv
  <2>5. PhaseInv'
    BY <2>1, <2>2, <2>3, ChannelNumbers DEF HubInv, PhaseInv, AllStarted
  <2>6. DoneInv'
    BY <2>1, <2>2 DEF HubInv, DoneInv
  <2>7. PoliteInv'
    <3> SUFFICES ASSUME Polite PROVE PoliteInv'
      BY DEF PoliteInv
    <3>1. c \in clients
      BY <2>1 DEF HubInv, PoliteInv
    <3>2. \A i \in 1..Len(Encoders) : slot[Encoders[i]] # NoThread
      BY <2>1, <3>1, ChannelNumbers DEF HubInv, PhaseInv, AllStarted
    <3> QED
      BY <2>1, <2>3, <3>2 DEF HubInv, PoliteInv
  <2> QED
    BY <2>4, <2>5, <2>6, <2>7 DEF HubInv
<1>2. CASE pthread_join(c)
  <2>0. /\ idx \in 1..Len(Encoders) /\ Encoders[idx] \in Channel
        /\ slot \in [Channel -> Tid \cup {NoThread}]
    BY <1>2, ChannelNumbers DEF pthread_join, ServerInv, TypeOK
  <2> DEFINE t == slot[Encoders[idx]]
  <2>1. t \in Tid /\ tpc' = [tpc EXCEPT ![t] = "none"]
    BY <1>2, <2>0 DEF pthread_join, TGoto
  <2> HIDE DEF t
  <2>2. /\ pc[c] = "join" /\ idx \in 1..Len(Encoders) /\ idx' = idx + 1
        /\ slot' = [slot EXCEPT ![Encoders[idx]] = NoThread]
        /\ pc' = pc /\ state' = state /\ clients' = clients /\ writer' = writer
        /\ threadLaunched' = threadLaunched /\ crashed' = crashed /\ role' = role
    BY <1>2, ChannelNumbers DEF pthread_join, sessionVars, ServerInv, TypeOK
  <2>3. /\ Encoders[idx] \in Channel /\ t # NoThread /\ writer = c /\ c # NoClient
        /\ tpc \in [Tid -> ThreadAt] /\ role \in [Tid -> Channel]
        /\ slot \in [Channel -> Tid \cup {NoThread}]
    BY <2>0, <2>1, <2>2, ServerAssumption DEF ServerInv, TypeOK, LockInv
  <2>4. role[t] = Encoders[idx]
    BY <2>3 DEF HubInv, SlotInv, t
  <2>5. \A d \in Client : pc[d] \in {"create", "join"} => d = c
    BY <2>3 DEF ServerInv, LockInv
  <2>6. \A i \in 1..Len(Encoders) :
          i # idx => slot'[Encoders[i]] = slot[Encoders[i]]
    BY <2>2, <2>3, ChannelNumbers
  <2>7. SlotInv'
    <3>1. ASSUME NEW u \in Tid, tpc'[u] # "none" PROVE slot'[role'[u]] = u
      <4>1. u # t /\ tpc[u] # "none"
        BY <2>1, <2>3, <3>1
      <4>2. slot[role[u]] = u /\ role[u] \in Channel
        BY <2>3, <4>1 DEF HubInv, SlotInv
      <4>3. role[u] # Encoders[idx]
        BY <4>1, <4>2 DEF t
      <4> QED
        BY <2>2, <2>3, <4>2, <4>3
    <3>2. ASSUME NEW e \in Channel, slot'[e] # NoThread
          PROVE  role'[slot'[e]] = e /\ tpc'[slot'[e]] # "none"
      <4>1. e # Encoders[idx] /\ slot'[e] = slot[e]
        BY <2>2, <2>3, <3>2
      <4>2. role[slot[e]] = e /\ tpc[slot[e]] # "none" /\ slot[e] \in Tid
        BY <2>3, <3>2, <4>1 DEF HubInv, SlotInv
      <4>3. slot[e] # t
        BY <2>4, <4>1, <4>2
      <4> QED
        BY <2>1, <2>2, <2>3, <4>1, <4>2, <4>3
    <3> QED
      BY <3>1, <3>2 DEF SlotInv
  <2>8. PhaseInv'
    <3>1. \A i \in 1..Len(Encoders) : i < idx' => slot'[Encoders[i]] = NoThread
      <4> SUFFICES ASSUME NEW i \in 1..Len(Encoders), i < idx'
                   PROVE  slot'[Encoders[i]] = NoThread
        OBVIOUS
      <4>1. CASE i = idx
        BY <4>1, <2>2, <2>3
      <4>2. CASE i # idx
        <5>1. i < idx
          BY <4>2, <2>2
        <5> QED
          BY <5>1, <4>2, <2>2, <2>6 DEF HubInv, PhaseInv
      <4> QED
        BY <4>1, <4>2
    <3> QED
      BY <3>1, <2>2, <2>3, <2>5 DEF HubInv, PhaseInv
  <2>9. DoneInv'
    BY <2>1, <2>2, <2>3 DEF HubInv, DoneInv
  <2>10. PoliteInv'
    <3>1. Polite => \A i \in 1..Len(Encoders) : i >= idx' => slot'[Encoders[i]] # NoThread
      BY <2>2, <2>6 DEF HubInv, PoliteInv
    <3> QED
      BY <2>2, <2>5, <3>1 DEF HubInv, PoliteInv
  <2> QED
    BY <2>7, <2>8, <2>9, <2>10 DEF HubInv
<1>3. CASE pthread_join_nothing(c)
  <2>1. /\ pc[c] = "join" /\ idx \in 1..Len(Encoders) /\ slot[Encoders[idx]] = NoThread
        /\ writer = c /\ c # NoClient
        /\ idx' = idx + 1 \/ idx' = idx
        /\ UNCHANGED <<pc, state, clients, writer, threadLaunched, slot, tpc, role>>
    BY <1>3, ChannelNumbers, ServerAssumption, SMTT(30)
    DEF pthread_join_nothing, sessionVars, threadVars, ServerInv, TypeOK, LockInv
  <2>2. \A d \in Client : pc[d] \in {"create", "join"} => d = c
    BY <2>1 DEF ServerInv, LockInv
  <2>3. ~Polite
    BY <2>1 DEF HubInv, PoliteInv
  <2>4. \A i \in 1..Len(Encoders) : i < idx' => slot[Encoders[i]] = NoThread
    <3> SUFFICES ASSUME NEW i \in 1..Len(Encoders), i < idx'
                 PROVE  slot[Encoders[i]] = NoThread
      OBVIOUS
    <3>1. i < idx \/ i = idx
      BY <2>1
    <3> QED
      BY <2>1, <3>1 DEF HubInv, PhaseInv
  <2>5. PhaseInv'
    BY <2>1, <2>2, <2>4 DEF HubInv, PhaseInv
  <2> QED
    BY <2>1, <2>3, <2>5 DEF HubInv, SlotInv, DoneInv, PoliteInv
<1>4. CASE unregister_done(c)
  <2>1. /\ pc[c] = "join" /\ idx > Len(Encoders) /\ idx \in Nat
        /\ writer' = NoClient /\ pc' = [pc EXCEPT ![c] = "deinit"]
        /\ UNCHANGED <<state, clients, threadLaunched, slot, tpc, role, crashed, idx>>
        /\ pc \in [Client -> SessionAt] /\ writer = c /\ c # NoClient
    BY <1>4, ChannelNumbers, ServerAssumption
    DEF unregister_done, Goto, sessionVars, threadVars, ServerInv, TypeOK, LockInv
  <2>2. /\ \A d \in Client \ {c} : pc'[d] \notin {"create", "join"} /\ pc'[d] = pc[d]
        /\ pc'[c] = "deinit"
    BY <2>1 DEF ServerInv, LockInv
  <2>3. clients = {} /\ NoneStarted
    <3>1. \A i \in 1..Len(Encoders) : i < idx
      BY <2>1, ChannelNumbers
    <3> QED
      BY <2>1, <3>1, ChannelNumbers DEF HubInv, PhaseInv, NoneStarted
  <2>4. PhaseInv'
    BY <2>1, <2>2, <2>3 DEF HubInv, PhaseInv, NoneStarted
  <2> QED
    BY <2>1, <2>2, <2>4 DEF HubInv, SlotInv, DoneInv, PoliteInv
<1> QED
  BY <1>1, <1>2, <1>3, <1>4

(* An encoder thread that is not told to stop does not stop.               *)
LEMMA EncoderThreadKeepsHub ==
    ASSUME ServerInv, HubInv, NEW t \in Tid, EncoderThread(t)
    PROVE  HubInv'
<1>1. /\ UNCHANGED <<pc, state, clients, threadLaunched, writer, idx, slot, role, crashed>>
      /\ tpc[t] # "none" /\ tpc'[t] # "none" /\ tpc \in [Tid -> ThreadAt]
      /\ \A u \in Tid \ {t} : tpc'[u] = tpc[u]
  BY DEF EncoderThread, encoder_start, encoder_loop, encoder_send_packet_all,
         encoder_send_packet, encoder_send_end, write_lock, rtsp_write, header_written,
         header_fails, body_written, next_packet, body_fails, write_over, mutex_released, TGoto,
         sessionVars, hubVars, ServerInv, TypeOK
<1>2. tpc'[t] = "done" => EncodeFails \/ ~threadLaunched
  BY DEF EncoderThread, encoder_start, encoder_loop, encoder_send_packet_all,
         encoder_send_packet, encoder_send_end, write_lock, rtsp_write, header_written,
         header_fails, body_written, next_packet, body_fails, write_over, mutex_released, TGoto,
         ServerInv, TypeOK
<1>3. SlotInv'
  <2>1. \A u \in Tid : tpc'[u] # "none" <=> tpc[u] # "none"
    BY <1>1
  <2>2. \A e \in Channel : slot[e] # NoThread => slot[e] \in Tid
    BY DEF ServerInv, TypeOK
  <2> QED
    BY <1>1, <2>1, <2>2 DEF HubInv, SlotInv
<1>4. PhaseInv' /\ PoliteInv'
  BY <1>1 DEF HubInv, PhaseInv, PoliteInv, AllStarted, NoneStarted
<1>5. DoneInv'
  BY <1>1, <1>2 DEF HubInv, DoneInv
<1> QED
  BY <1>3, <1>4, <1>5 DEF HubInv

(* Every step keeps the invariant.                                         *)
LEMMA StepKeepsHub ==
    ASSUME ~CreateFails, ServerInv, HubInv, [Next]_vars
    PROVE  HubInv'
<1>1. CASE UNCHANGED vars
  BY <1>1 DEF vars, sessionVars, hubVars, threadVars, HubInv, SlotInv, PhaseInv, DoneInv,
              PoliteInv, AllStarted, NoneStarted
<1>2. ASSUME NEW c \in Client, Command(c) \/ Register(c) \/ Leave(c) PROVE HubInv'
  BY <1>2, CommandKeepsHub, RegisterKeepsHub, LeaveKeepsHub DEF Register, Leave
<1>3. ASSUME NEW t \in Tid, EncoderThread(t) PROVE HubInv'
  BY <1>3, EncoderThreadKeepsHub
<1> QED
  BY <1>1, <1>2, <1>3 DEF Next

-----------------------------------------------------------------------------
(* A polite SETUP is refused only when the stream cannot be made.          *)
LEMMA PoliteSetupKeepsId ==
    ASSUME ServerInv, Polite, ~EncodeFails, NEW c \in Client, NEW e \in Channel,
           NEW hdr, NEW offered \in SUBSET Transports,
           rtsp_cmd_setup(c, e, hdr, offered)
    PROVE  /\ session_id'[c] # NULL
           /\ \A d \in Client \ {c} : session_id'[d] = session_id[d] /\ state'[d] = state[d]
<1> DEFINE tr      == supported(offered)
           new     == session_id[c] = NULL /\ hdr = NULL
           Sid(id) == IF new THEN id ELSE session_id[c]
           Match(id) == Sid(id) # NULL /\ (new \/ Sid(id) = hdr)
<1>1. PICK id \in SessionId :
         \/ /\ setup_accepted(c, e, Match(id), tr)
            /\ session_id' = [session_id EXCEPT ![c] = Sid(id)]
            /\ state' = [state EXCEPT ![c] = "READY"]
         \/ ~setup_accepted(c, e, Match(id), tr)
  BY DEF rtsp_cmd_setup
<1>2. hdr = session_id[c] /\ offered # {} /\ fmtctx[c][e] = NULL
  BY DEF rtsp_cmd_setup
<1>3. id # NULL
  BY ServerAssumption
<1>4. Match(id)
  BY <1>2, <1>3
<1>5. tr # NULL
  BY <1>2, ServerAssumption DEF supported, find_transport
<1>6. setup_accepted(c, e, Match(id), tr)
  BY <1>2, <1>4, <1>5 DEF setup_accepted
<1>7. session_id \in [Client -> SessionId \cup {NULL}] /\ DOMAIN state = Client
  BY DEF ServerInv, TypeOK
<1>8. QED
  BY <1>1, <1>4, <1>6, <1>7

(* A command keeps the ids of the sessions, unless a stream cannot be made *)
(* or the process dies of it.                                              *)
LEMMA CommandKeepsIds ==
    ASSUME ServerInv, IdInv, ~crashed, NEW c \in Client, Command(c)
    PROVE  IdInv'
<1> SUFFICES ASSUME Polite PROVE IdInv'
  BY DEF IdInv
<1>1. CASE strcmp_null(c)
  <2>1. /\ pc[c] = "serving" /\ state[c] # "IDLE" /\ session_id[c] = NULL
        /\ UNCHANGED <<pc, state, session_id>>
    BY <1>1 DEF strcmp_null, sessionVars
  <2>2. state[c] \notin {"PLAYING", "PAUSE", "TEARDOWN"}
    BY <2>1 DEF ServerInv, SessionInv, IdInv, Over
  <2>3. LostSession(c)
    BY <2>1, <2>2 DEF LostSession, ServerInv, TypeOK
  <2>4. QED
    BY <1>1, <2>1, <2>3 DEF IdInv, LostSession, Over
<1>2. ASSUME NEW e \in Channel, NEW hdr, NEW offered \in SUBSET Transports,
             rtsp_cmd_setup(c, e, hdr, offered)
      PROVE  IdInv'
  <2>1. ~crashed' /\ \A d \in Client : Over(d)' => Over(d)
    BY <1>2 DEF rtsp_cmd_setup, error_setup, Over, ServerInv, TypeOK
  <2>2. CASE EncodeFails
    BY <2>1, <2>2 DEF IdInv
  <2>3. CASE ~EncodeFails
    BY <1>2, <2>1, <2>3, PoliteSetupKeepsId DEF IdInv, LostSession
  <2>4. QED
    BY <2>2, <2>3
<1>3. ASSUME \/ rtspserver(c) \/ quit(c)
             \/ \E hdr : rtsp_cmd_play(c, hdr) \/ rtsp_cmd_pause(c, hdr)
      PROVE  IdInv'
  <2>1. /\ ~crashed'
        /\ \A d \in Client : (LostSession(d)' => LostSession(d)) /\ (Over(d)' => Over(d))
    BY <1>3 DEF rtspserver, per_client_init, Goto, quit, rtsp_cmd_play, rtsp_cmd_pause,
                LostSession, Over, InPlay, sessionVars, ServerInv, TypeOK
  <2>2. QED
    BY <2>1 DEF IdInv
<1>4. QED
  BY <1>1, <1>2, <1>3 DEF Command, Serve

(* Every step keeps what the ids are good for.                             *)
LEMMA StepKeepsIds ==
    ASSUME ServerInv, HubInv, IdInv, [Next]_vars
    PROVE  IdInv'
<1>1. CASE UNCHANGED vars
  BY <1>1 DEF vars, sessionVars, IdInv, LostSession, Over
<1>2. ASSUME NEW c \in Client, Command(c), ~crashed PROVE IdInv'
  BY <1>2, CommandKeepsIds
<1>3. ASSUME NEW c \in Client, Register(c) \/ Leave(c), ~crashed PROVE IdInv'
  <2> SUFFICES ASSUME Polite PROVE IdInv'
    BY DEF IdInv
  <2>1. ~pthread_join_nothing(c)
    <3> SUFFICES ASSUME pthread_join_nothing(c) PROVE FALSE
      OBVIOUS
    <3>1. pc[c] = "join" /\ idx \in 1..Len(Encoders) /\ slot[Encoders[idx]] = NoThread /\ idx >= idx
      BY ChannelNumbers DEF pthread_join_nothing, ServerInv, TypeOK
    <3>2. QED
      BY <3>1 DEF HubInv, PoliteInv
  <2>2. ~crashed'
    BY <1>3, <2>1
    DEF Register, Leave, register_lock, register_create, register_create_fails,
        register_fails, register_done, play_done, close_fd, unregister_lock, pthread_join,
        unregister_done, per_client_deinit, sessionVars, ServerInv, TypeOK
  <2>3. \A d \in Client : (LostSession(d)' => LostSession(d)) /\ (Over(d)' => Over(d))
    BY <1>3, <2>1
    DEF Register, Leave, register_lock, register_create, register_create_fails,
        register_fails, register_done, play_done, close_fd, unregister_lock, pthread_join,
        unregister_done, per_client_deinit, sessionVars, ServerInv, TypeOK, Goto,
        LostSession, Over, InPlay
  <2>4. QED
    BY <2>2, <2>3 DEF IdInv
<1>4. ASSUME NEW t \in Tid, EncoderThread(t) PROVE IdInv'
  <2>1. UNCHANGED <<pc, state, session_id, crashed>>
    BY <1>4
    DEF EncoderThread, encoder_start, encoder_loop, encoder_send_packet_all,
        encoder_send_packet, encoder_send_end, write_lock, rtsp_write, header_written,
        header_fails, body_written, next_packet, body_fails, write_over, sessionVars
  <2>2. QED
    BY <2>1 DEF IdInv, LostSession, Over
<1>5. QED
  BY <1>1, <1>2, <1>3, <1>4 DEF Next

-----------------------------------------------------------------------------
(* Two threads of one channel would both be in its slot.                   *)
LEMMA HubServesClients ==
    ASSUME ServerInv, HubInv, ~EncodeFails
    PROVE  EncodersServeClients
<1>1. ASSUME NEW t \in Tid, NEW u \in Tid, NEW e \in Channel, {t, u} \subseteq Encoding(e)
      PROVE  t = u
  <2>1. role[t] = e /\ tpc[t] # "none" /\ role[u] = e /\ tpc[u] # "none"
    BY <1>1 DEF Encoding
  <2> QED
    BY <2>1 DEF HubInv, SlotInv
<1>2. ASSUME writer = NoClient, clients # {}, NEW e \in Channel
      PROVE  threadLaunched /\ slot[e] \in Encoding(e)
  <2>1. threadLaunched /\ slot[e] # NoThread
    BY <1>2 DEF HubInv, PhaseInv, AllStarted
  <2>2. slot[e] \in Tid /\ role[slot[e]] = e /\ tpc[slot[e]] # "none"
    BY <2>1 DEF HubInv, SlotInv, ServerInv, TypeOK
  <2>3. tpc[slot[e]] # "done"
    BY <2>1, <2>2 DEF HubInv, DoneInv
  <2> QED
    BY <2>1, <2>2, <2>3 DEF Encoding
<1>3. Channel # {}
  BY ChannelNumbers
<1> QED
  BY <1>1, <1>2, <1>3 DEF EncodersServeClients

(***************************************************************************)
(* The slots, the threads and the clients go together as HubInv says, in   *)
(* every behaviour in which threads can be created                         *)
(* (encoder-common.cpp:88-163).                                            *)
(***************************************************************************)
THEOREM HubCorrect ==
    ASSUME ~CreateFails
    PROVE  Spec => [](ServerInv /\ HubInv)
<1>1. Init => HubInv
  BY HubInit
<1>2. ServerInv /\ HubInv /\ [Next]_vars => HubInv'
  BY StepKeepsHub
<1> QED
  BY <1>1, <1>2, ServerCorrect, PTL DEF Spec

(***************************************************************************)
(* A registered client has an encoder for each channel, and one only,      *)
(* whoever came and went before, as long as encoders do not fail           *)
(* (encoder_register_client, encoder_unregister_client).                   *)
(***************************************************************************)
THEOREM EncodersServeClientsCorrect ==
    ASSUME ~CreateFails, ~EncodeFails
    PROVE  Spec => []EncodersServeClients
<1>1. ServerInv /\ HubInv => EncodersServeClients
  BY HubServesClients
<1> QED
  BY <1>1, HubCorrect, PTL

(***************************************************************************)
(* Clients that obey the protocol and play before they leave never make    *)
(* the server join a thread that is not there, even when encoders fail     *)
(* (pthread_join in encoder_unregister_client), and they make it compare a *)
(* missing session id only after a SETUP that failed and took the id of a  *)
(* session that was ready to play (rtspserver.cpp:707-711).                *)
(***************************************************************************)
THEOREM PoliteClientsAreSafeCorrect ==
    ASSUME ~CreateFails
    PROVE  Spec => []PoliteClientsAreSafe
<1>1. Init => IdInv
  BY DEF Init, IdInv, LostSession, Over, InPlay
<1>2. ServerInv /\ HubInv /\ IdInv /\ [Next]_vars => IdInv'
  BY StepKeepsIds
<1>3. IdInv => PoliteClientsAreSafe
  BY DEF IdInv, PoliteClientsAreSafe
<1> QED
  BY <1>1, <1>2, <1>3, HubCorrect, PTL DEF Spec

-----------------------------------------------------------------------------
(***************************************************************************)
(* Descriptors and the threads that have them.                             *)
(***************************************************************************)

(* The connection accepted last has no thread yet that has read cs.        *)
Awaited == lpc = "create" \/ starting # {}

ConnInv ==
    /\ open \subseteq Fd /\ starting \subseteq Client
    /\ cs \in Fd \cup {NoFd} /\ fd \in [Client -> Fd \cup {NoFd}]
    /\ \A c \in starting : pc[c] = "absent"
    /\ ~hurried =>
         /\ \A c, d \in starting : c = d
         /\ lpc = "create" => starting = {}
         /\ Awaited => cs \in open /\ \A c \in Client : Holds(c) => fd[c] # cs
         /\ \A c \in Client : Holds(c) => fd[c] \in open
         /\ \A c, d \in Client : Holds(c) /\ Holds(d) /\ fd[c] = fd[d] => c = d
         /\ \A f \in open : (f = cs /\ Awaited) \/ \E c \in Client : Holds(c) /\ fd[c] = f

(* Nobody begins and no connection is closed.                              *)
SameHolders ==
    \A d \in Client : (Holds(d)' <=> Holds(d)) /\ (pc[d] = "absent" => pc'[d] = "absent")

(* Commands are served by threads that hold their connection and keep it.  *)
LEMMA ServeSameHolders ==
    ASSUME TypeOK, NEW c \in Client, Serve(c) \/ quit(c)
    PROVE  SameHolders
<1>1. CASE UNCHANGED pc
  BY <1>1 DEF SameHolders, Holds
<1>2. ASSUME NEW hdr \in SessionId \cup {NULL}, rtsp_cmd_play(c, hdr) PROVE SameHolders
  BY <1>2 DEF SameHolders, Holds, TypeOK, rtsp_cmd_play, Goto
<1>3. CASE quit(c)
  BY <1>3 DEF SameHolders, Holds, TypeOK, quit, Goto
<1>4. CASE Serve(c)
  BY <1>1, <1>2, <1>4 DEF Serve, rtsp_cmd_setup, rtsp_cmd_pause, strcmp_null
<1>5. QED
  BY <1>3, <1>4

(* So do they while they register, and those that leave have closed theirs. *)
LEMMA HubSameHolders ==
    ASSUME TypeOK, NEW c \in Client, Register(c) \/ (Leave(c) /\ pc[c] \notin {"close", "deinit"})
    PROVE  SameHolders
<1>1. CASE UNCHANGED pc
  BY <1>1 DEF SameHolders, Holds
<1>2. CASE register_lock(c) \/ register_create_fails(c) \/ register_fails(c) \/ register_done(c)
           \/ play_done(c)
  BY <1>2 DEF SameHolders, Holds, TypeOK, register_lock, register_create_fails, register_fails,
              register_done, play_done, Goto
<1>3. CASE unregister_lock(c) \/ unregister_done(c)
  BY <1>3 DEF SameHolders, Holds, TypeOK, unregister_lock, unregister_done, Goto
<1>4. CASE Register(c)
  BY <1>1, <1>2, <1>4 DEF Register, register_create
<1>5. CASE Leave(c) /\ pc[c] \notin {"close", "deinit"}
  BY <1>1, <1>3, <1>5 DEF Leave, close_fd, per_client_deinit, pthread_join, pthread_join_nothing
<1>6. QED
  BY <1>4, <1>5

(* Encoder threads move no session thread.                                 *)
LEMMA EncoderSameHolders ==
    ASSUME NEW t \in Tid, EncoderThread(t)
    PROVE  SameHolders
<1>1. UNCHANGED pc
  BY DEF EncoderThread, encoder_start, encoder_loop, encoder_send_packet_all,
         encoder_send_packet, encoder_send_end, write_lock, rtsp_write, header_written,
         header_fails, body_written, next_packet, body_fails, write_over
<1>2. QED
  BY <1>1 DEF SameHolders, Holds

(* With the holders the invariant stays.                                   *)
LEMMA HoldersKeep ==
    ASSUME ConnInv, SameHolders, UNCHANGED connectionVars
    PROVE  ConnInv'
BY DEF ConnInv, SameHolders, Awaited, connectionVars

(* A connection that comes is awaited.                                     *)
LEMMA AcceptKeepsConn ==
    ASSUME ConnInv, NEW f \in Fd, accept_connection(f)
    PROVE  ConnInv'
<1>1. /\ lpc = "accept" /\ f \notin open /\ open' = open \cup {f} /\ cs' = f
      /\ hurried' = (hurried \/ starting # {}) /\ lpc' = "create"
      /\ UNCHANGED <<pc, starting, fd>>
  BY DEF accept_connection, vars
<1>2. \A c \in Client : Holds(c)' <=> Holds(c)
  BY <1>1 DEF Holds
<1>3. ASSUME ~hurried' 
      PROVE  ~hurried /\ starting = {} /\ ~Awaited /\ Awaited'
  BY <1>1, <1>3 DEF Awaited
<1>4. ASSUME ~hurried'
      PROVE  \A g \in open' : (g = cs' /\ Awaited') \/ \E c \in Client : Holds(c)' /\ fd'[c] = g
  BY <1>1, <1>2, <1>3, <1>4 DEF ConnInv
<1>5. QED
  BY <1>1, <1>2, <1>3, <1>4 DEF ConnInv

(* A thread is created for the connection that is awaited.                 *)
LEMMA CreateKeepsConn ==
    ASSUME ConnInv, NEW c \in Client, create_thread(c)
    PROVE  ConnInv'
<1>1. /\ lpc = "create" /\ pc[c] = "absent" /\ c \notin starting
      /\ starting' = starting \cup {c} /\ lpc' = "accept"
      /\ UNCHANGED <<pc, cs, open, fd, hurried>>
  BY DEF create_thread, vars
<1>2. \A d \in Client : Holds(d)' <=> Holds(d)
  BY <1>1 DEF Holds
<1>3. Awaited /\ Awaited'
  BY <1>1 DEF Awaited
<1>4. QED
  BY <1>1, <1>2, <1>3 DEF ConnInv

(* When there is none, the connection is closed.                           *)
LEMMA CreateFailsKeepsConn ==
    ASSUME ConnInv, create_thread_fails
    PROVE  ConnInv'
<1>1. /\ lpc = "create" /\ open' = open \ {cs} /\ lpc' = "accept"
      /\ UNCHANGED <<pc, cs, starting, fd, hurried>>
  BY DEF create_thread_fails, vars
<1>2. \A d \in Client : Holds(d)' <=> Holds(d)
  BY <1>1 DEF Holds
<1>3. Awaited /\ (~hurried => starting = {} /\ ~Awaited')
  BY <1>1 DEF Awaited, ConnInv
<1>4. QED
  BY <1>1, <1>2, <1>3 DEF ConnInv

(* The thread that begins reads the descriptor that is awaited.            *)
LEMMA BeginKeepsConn ==
    ASSUME TypeOK, ConnInv, NEW c \in Client, thread_begins(c)
    PROVE  ConnInv'
<1>1. /\ c \in starting /\ starting' = starting \ {c} /\ fd' = [fd EXCEPT ![c] = cs]
      /\ UNCHANGED <<lpc, cs, open, hurried>>
      /\ \A d \in Client \ {c} : pc'[d] = pc[d]
      /\ pc[c] = "absent" /\ pc'[c] \in {"serving", "orphan"}
  BY DEF thread_begins, rtspserver, per_client_init, Goto, TypeOK
<1>2. /\ \A d \in Client \ {c} : (Holds(d)' <=> Holds(d)) /\ fd'[d] = fd[d]
      /\ Holds(c)' /\ ~Holds(c) /\ fd'[c] = cs
  BY <1>1 DEF Holds, ConnInv
<1>3. Awaited /\ (~hurried => starting' = {} /\ lpc # "create" /\ ~Awaited' /\ cs \in open)
  <2>1. Awaited
    BY <1>1 DEF Awaited
  <2>2. ASSUME ~hurried PROVE starting' = {} /\ lpc # "create" /\ cs \in open
    BY <1>1, <2>1, <2>2 DEF ConnInv
  <2>3. QED
    BY <1>1, <2>1, <2>2 DEF Awaited
<1>4. starting' \subseteq Client /\ open' \subseteq Fd /\ \A d \in starting' : pc'[d] = "absent"
  BY <1>1 DEF ConnInv
<1>5. fd' \in [Client -> Fd \cup {NoFd}] /\ cs' \in Fd \cup {NoFd}
  BY <1>1 DEF ConnInv
<1>6. QED
  BY <1>1, <1>2, <1>3, <1>4, <1>5 DEF ConnInv
(* The thread that holds a connection closes its own.                      *)
LEMMA CloseKeepsConn ==
    ASSUME TypeOK, ConnInv, NEW c \in Client, close_connection(c)
    PROVE  ConnInv'
<1>1. /\ open' = open \ {fd[c]} /\ UNCHANGED <<lpc, cs, starting, fd, hurried>>
      /\ \A d \in Client \ {c} : pc'[d] = pc[d]
      /\ pc[c] = "close" /\ pc'[c] = "unreg"
  BY DEF close_connection, close_fd, Goto, TypeOK
<1>2. /\ \A d \in Client \ {c} : Holds(d)' <=> Holds(d)
      /\ Holds(c) /\ ~Holds(c)' /\ c \notin starting
  BY <1>1 DEF Holds, ConnInv
<1>3. ASSUME ~hurried, NEW f \in open, f # fd[c]
      PROVE  (f = cs /\ Awaited) \/ \E d \in Client \ {c} : Holds(d) /\ fd[d] = f
  BY <1>3 DEF ConnInv
<1>4. Awaited' <=> Awaited
  BY <1>1 DEF Awaited
<1>5. QED
  BY <1>1, <1>2, <1>3, <1>4 DEF ConnInv

(* A thread that ends holds no connection any more.                        *)
LEMMA EndKeepsConn ==
    ASSUME TypeOK, ConnInv, NEW c \in Client, end_thread(c)
    PROVE  ConnInv'
<1>1. /\ fd' = [fd EXCEPT ![c] = NoFd] /\ UNCHANGED <<lpc, cs, starting, open, hurried>>
      /\ \A d \in Client \ {c} : pc'[d] = pc[d]
      /\ pc[c] = "deinit" /\ pc'[c] = "absent"
  BY DEF end_thread, per_client_deinit, Goto, TypeOK
<1>2. /\ \A d \in Client \ {c} : (Holds(d)' <=> Holds(d)) /\ fd'[d] = fd[d]
      /\ ~Holds(c) /\ ~Holds(c)' /\ c \notin starting
  BY <1>1 DEF Holds, ConnInv
<1>3. Awaited' <=> Awaited
  BY <1>1 DEF Awaited
<1>4. fd' \in [Client -> Fd \cup {NoFd}]
  BY <1>1 DEF ConnInv
<1>5. QED
  BY <1>1, <1>2, <1>3, <1>4 DEF ConnInv

(* The loop that starts to listen or ends awaits what it awaited.          *)
LEMMA ListenKeepsConn ==
    ASSUME ConnInv, listen \/ accept_fails
    PROVE  ConnInv'
<1>1. /\ lpc # "create" /\ lpc' # "create"
      /\ UNCHANGED <<pc, cs, open, starting, fd, hurried>>
  BY DEF listen, accept_fails, vars
<1>2. /\ \A d \in Client : Holds(d)' <=> Holds(d)
      /\ Awaited' <=> Awaited
  BY <1>1 DEF Holds, Awaited
<1>3. QED
  BY <1>1, <1>2 DEF ConnInv

(* Every step of the server with its accept loop keeps the invariant.      *)
LEMMA AcceptStepKeepsConn ==
    ASSUME TypeOK, ConnInv, [AcceptNext]_acceptvars
    PROVE  ConnInv'
<1>1. CASE UNCHANGED acceptvars
  <2>1. SameHolders /\ UNCHANGED connectionVars
    BY <1>1 DEF acceptvars, vars, SameHolders, Holds
  <2>2. QED
    BY <2>1, HoldersKeep
<1>2. CASE listen \/ accept_fails \/ create_thread_fails
  BY <1>2, ListenKeepsConn, CreateFailsKeepsConn
<1>3. ASSUME NEW f \in Fd, accept_connection(f) PROVE ConnInv'
  BY <1>3, AcceptKeepsConn
<1>4. ASSUME NEW c \in Client,
             create_thread(c) \/ thread_begins(c) \/ close_connection(c) \/ end_thread(c)
      PROVE  ConnInv'
  BY <1>4, CreateKeepsConn, BeginKeepsConn, CloseKeepsConn, EndKeepsConn
<1>5. ASSUME NEW c \in Client, serve(c) PROVE ConnInv'
  BY <1>5, ServeSameHolders, HoldersKeep DEF serve
<1>6. ASSUME NEW t \in Tid, write_to_stranger(t) PROVE ConnInv'
  <2>1. UNCHANGED pc /\ UNCHANGED connectionVars
    BY <1>6 DEF write_to_stranger, header_written, body_written, next_packet, write_over
  <2>2. SameHolders
    BY <2>1 DEF SameHolders, Holds
  <2>3. QED
    BY <2>1, <2>2, HoldersKeep
<1>7. CASE other_steps
  BY <1>7, HubSameHolders, EncoderSameHolders, HoldersKeep DEF other_steps
<1>8. QED
  BY <1>1, <1>2, <1>3, <1>4, <1>5, <1>6, <1>7 DEF AcceptNext

(* One holder for each connection is what the invariant says.              *)
LEMMA ConnectionsAreServed ==
    ConnInv => ConnectionsServed
<1>1. SUFFICES ASSUME ConnInv, ~hurried PROVE ConnectionsServed
  BY DEF ConnectionsServed
<1>2. ASSUME NEW f \in open
      PROVE  Cardinality({c \in Client : Holds(c) /\ fd[c] = f})
             = IF f = cs /\ (lpc = "create" \/ starting # {}) THEN 0 ELSE 1
  <2>1. CASE f = cs /\ Awaited
    <3>1. {c \in Client : Holds(c) /\ fd[c] = f} = {}
      BY <1>1, <2>1 DEF ConnInv
    <3>2. QED
      BY <2>1, <3>1, FS_EmptySet DEF Awaited
  <2>2. CASE ~(f = cs /\ Awaited)
    <3>1. PICK c \in Client : Holds(c) /\ fd[c] = f
      BY <1>1, <2>2 DEF ConnInv
    <3>2. {d \in Client : Holds(d) /\ fd[d] = f} = {c}
      BY <1>1, <3>1 DEF ConnInv
    <3>3. QED
      BY <2>2, <3>2, FS_Singleton DEF Awaited
  <2>3. QED
    BY <2>1, <2>2
<1>3. \A c \in Client : Holds(c) => fd[c] \in open
  BY <1>1 DEF ConnInv
<1>4. QED
  BY <1>2, <1>3 DEF ConnectionsServed

(***************************************************************************)
(* Unless connections come faster than threads begin, every connection     *)
(* has exactly one session thread, or gets one, and no thread serves a     *)
(* connection that is closed (core/server.cpp:80-105), with any number of  *)
(* clients and descriptors and however often these are used again.         *)
(***************************************************************************)
THEOREM ConnectionsServedCorrect ==
    AcceptSpec => []ConnectionsServed
<1>1. AcceptInit => ServerInv
  BY InitHolds DEF AcceptInit
<1>2. ServerInv /\ [AcceptNext]_acceptvars => ServerInv'
  BY AcceptStepKeeps
<1>3. AcceptInit => ConnInv
  BY DEF AcceptInit, Init, ConnInv, Awaited, Holds
<1>4. ServerInv /\ ConnInv /\ [AcceptNext]_acceptvars => ConnInv'
  BY AcceptStepKeepsConn DEF ServerInv
<1>5. QED
  BY <1>1, <1>2, <1>3, <1>4, ConnectionsAreServed, PTL DEF AcceptSpec

-----------------------------------------------------------------------------
(***************************************************************************)
(* What a session thread answers (RtspRequests): the bytes in the buffer   *)
(* and on the way are what was sent and is not answered yet, less the      *)
(* lines that the thread has read of the request it is reading.            *)
(***************************************************************************)
Octet == 0..255

Status == {"OK", "SERVICE", "METHOD", "VERSION"} \cup Refusals

(* Of a request, p is read already, up to the end of a line, and r is not. *)
Partly(u, p, r) ==
    /\ IsRequest(u) /\ u = p \o r
    /\ Len(p) > 0 /\ Len(r) > 0 /\ p[Len(p)] = NewLine

InRbuf == Slice(rbuffer, rbufhead, Buffered)

(* What is in the buffer and on the way is q, or what is left of it.       *)
Unanswered(q) ==
    /\ rpc \in {"select", "request"} => InRbuf \o input = FlattenSeq(q)
    /\ rpc = "headers" =>
         /\ q # <<>> /\ request = Head(q)[1]
         /\ \E p, r \in Seq(Octet) :
               Partly(Head(q), p, r) /\ InRbuf \o input = r \o FlattenSeq(Tail(q))

(* The requests of done are answered, those of q are not yet.              *)
Answers(done, q) ==
    /\ asked = done \o q
    /\ Answered = Firsts(Requests(done))
    /\ Unanswered(q)

RequestTypes ==
    /\ input \in Seq(Octet)
    /\ rbuffer \in [0..RbufSize - 1 -> Octet]
    /\ rbufhead \in 0..RbufSize /\ rbuftail \in rbufhead..RbufSize
    /\ rpc \in {"select", "request", "headers", "quit", "overrun"}
    /\ answers \in Seq([to : Octet, status : Status])

RequestsInv ==
    /\ RequestTypes
    /\ \E done, q \in Seq(Unit) : Answers(done, q)

-----------------------------------------------------------------------------
(* What a client sends is a string of octets, and not empty.               *)
LEMMA UnitShape ==
    ASSUME NEW u \in Unit
    PROVE  /\ u \in Seq(Octet) /\ Len(u) \in Nat /\ Len(u) >= 1 /\ u[1] \in Octet
           /\ IsRequest(u) \/ IsPacket(u) \/ EndsSession(u)
<1>1. u \in Seq(Octet) /\ Len(u) >= 1 /\ (IsRequest(u) \/ IsPacket(u) \/ EndsSession(u))
  BY RequestsAssumption DEF Octet
<1>2. Len(u) \in Nat
  BY <1>1, LenProperties
<1>3. u[1] \in Octet
  <2>1. 1 \in 1..Len(u)
    BY <1>1, <1>2
  <2>2. QED
    BY <1>1, <2>1, ElementOfSeq
<1>4. QED
  BY <1>1, <1>2, <1>3

(* What is sent is a stream of octets,                                     *)
LEMMA UnitStream ==
    ASSUME NEW q \in Seq(Unit)
    PROVE  q \in Seq(Seq(Octet)) /\ FlattenSeq(q) \in Seq(Octet)
<1>1. Unit \subseteq Seq(Octet)
  BY UnitShape
<1>2. q \in Seq(Seq(Octet))
  BY <1>1, SeqMonotonic
<1>3. QED
  BY <1>2, FlattenType

(* which begins with the first unit and goes on with the others.           *)
LEMMA FirstUnit ==
    ASSUME NEW q \in Seq(Unit), q # <<>>
    PROVE  /\ Head(q) \in Unit /\ Tail(q) \in Seq(Unit)
           /\ FlattenSeq(Tail(q)) \in Seq(Octet)
           /\ FlattenSeq(q) = Head(q) \o FlattenSeq(Tail(q))
<1>1. Head(q) \in Unit /\ Tail(q) \in Seq(Unit)
  BY HeadTailProperties
<1>2. FlattenSeq(q) = Head(q) \o FlattenSeq(Tail(q))
  BY UnitStream, FlattenHead
<1>3. QED
  BY <1>1, <1>2, UnitStream

(* Answering the first unit moves it from one list to the other.           *)
LEMMA NextUnit ==
    ASSUME NEW done \in Seq(Unit), NEW q \in Seq(Unit), q # <<>>
    PROVE  /\ Append(done, Head(q)) \in Seq(Unit)
           /\ done \o q = Append(done, Head(q)) \o Tail(q)
<1>1. Head(q) \in Unit /\ Tail(q) \in Seq(Unit) /\ q = <<Head(q)>> \o Tail(q)
  BY HeadTailProperties, ConcatProperties, SeqEqual
<1>2. Append(done, Head(q)) \in Seq(Unit) /\ Append(done, Head(q)) = done \o <<Head(q)>>
  BY <1>1, AppendProperties, AppendIsConcat
<1>3. Joined(done, <<Head(q)>>, Tail(q))
  <2>1. <<Head(q)>> \in Seq(Unit)
    BY <1>1
  <2>2. QED
    BY <1>1, <2>1, AllJoined
<1>4. QED
  BY <1>1, <1>2, <1>3, Zenon DEF Joined

(* The first line of a request that is answered comes last; a packet of    *)
(* RTCP is none.                                                           *)
LEMMA FirstsAppend ==
    ASSUME NEW done \in Seq(Unit), NEW u \in Unit
    PROVE  /\ u[1] = Dollar => Firsts(Requests(Append(done, u))) = Firsts(Requests(done))
           /\ u[1] # Dollar => Firsts(Requests(Append(done, u)))
                                 = Append(Firsts(Requests(done)), u[1])
<1> DEFINE X == {v \in Unit : v[1] = Dollar}
<1>1. /\ Requests(done) \in Seq(Unit)
      /\ Requests(Append(done, u)) = Requests(done) \o (IF u \in X THEN <<>> ELSE <<u>>)
  <2>1. Requests(done) = Without(X, done) /\ Requests(Append(done, u)) = Without(X, Append(done, u))
    BY DEF Requests
  <2> HIDE DEF X
  <2>2. Without(X, done) \in Seq(Unit)
    BY WithoutType
  <2>3. Without(X, Append(done, u)) = Without(X, done) \o (IF u \in X THEN <<>> ELSE <<u>>)
    BY WithoutAppend
  <2>4. QED
    BY <2>1, <2>2, <2>3
<1>2. CASE u[1] = Dollar
  <2>1. Requests(Append(done, u)) = Requests(done)
    BY <1>1, <1>2, ConcatEmptySeq
  <2>2. QED
    BY <1>2, <2>1
<1>3. CASE u[1] # Dollar
  <2> DEFINE s == Requests(done)
  <2>1. Requests(Append(done, u)) = s \o <<u>>
    BY <1>1, <1>3
  <2>2. s \in Seq(Unit)
    BY <1>1
  <2> HIDE DEF s
  <2>3. s \o <<u>> = Append(s, u)
    BY <2>2, AppendIsConcat
  <2>4. /\ Append(s, u) \in Seq(Unit) /\ Len(Append(s, u)) = Len(s) + 1 /\ Len(s) \in Nat
        /\ \A i \in 1..Len(s) : Append(s, u)[i] = s[i]
        /\ Append(s, u)[Len(s) + 1] = u
    BY <2>2, AppendProperties, LenProperties
  <2>5. Firsts(Append(s, u)) = Append(Firsts(s), u[1])
    <3>1. Firsts(Append(s, u)) = [i \in 1..Len(s) + 1 |-> IF i = Len(s) + 1 THEN u[1] ELSE s[i][1]]
      BY <2>4 DEF Firsts
    <3>2. Append([i \in 1..Len(s) |-> s[i][1]], u[1])
            = [i \in 1..Len(s) + 1 |-> IF i = Len(s) + 1 THEN u[1] ELSE s[i][1]]
      BY <2>4
    <3>3. QED
      BY <3>1, <3>2 DEF Firsts
  <2>6. QED
    BY <1>3, <2>1, <2>3, <2>5 DEF s
<1>4. QED
  BY <1>2, <1>3

(* An answer comes last, too.                                              *)
LEMMA AnswerAppends ==
    ASSUME RequestTypes, NEW line \in Octet, NEW status \in Status, rtsp_reply(line, status)
    PROVE  Answered' = Append(Answered, line)
           /\ answers' \in Seq([to : Octet, status : Status])
<1> DEFINE e == [to |-> line, status |-> status]
           R == [to : Octet, status : Status]
<1>1. answers \in Seq(R) /\ answers' = Append(answers, e) /\ e \in R /\ e.to = line
  BY DEF RequestTypes, rtsp_reply
<1> HIDE DEF e, R
<1>2. /\ answers' \in Seq(R) /\ Len(answers') = Len(answers) + 1 /\ Len(answers) \in Nat
      /\ \A i \in 1..Len(answers) : answers'[i] = answers[i]
      /\ answers'[Len(answers) + 1] = e
  BY <1>1, AppendProperties, LenProperties
<1>3. Answered' = [i \in 1..Len(answers) + 1 |->
                     IF i = Len(answers) + 1 THEN line ELSE answers[i].to]
  BY <1>1, <1>2 DEF Answered
<1>4. Append([i \in 1..Len(answers) |-> answers[i].to], line)
        = [i \in 1..Len(answers) + 1 |->
             IF i = Len(answers) + 1 THEN line ELSE answers[i].to]
  BY <1>2
<1>5. QED
  BY <1>2, <1>3, <1>4 DEF Answered, R


-----------------------------------------------------------------------------
(* The bytes in the buffer are as many as head and tail say.               *)
LEMMA RbufBytes ==
    ASSUME RequestTypes
    PROVE  /\ rbufhead \in Nat /\ rbuftail \in Nat /\ RbufSize \in Nat /\ Buffered \in Nat
           /\ rbufhead + Buffered = rbuftail /\ rbuftail <= RbufSize
           /\ InRbuf \in Seq(Octet) /\ Len(InRbuf) = Buffered
           /\ \A i \in 1..Buffered : InRbuf[i] = rbuffer[rbufhead + i - 1]
<1>1. /\ rbufhead \in Nat /\ rbuftail \in Nat /\ RbufSize \in Nat /\ Buffered \in Nat
      /\ rbufhead + Buffered = rbuftail /\ rbuftail <= RbufSize
      /\ rbuffer \in [0..RbufSize - 1 -> Octet]
  BY RequestsAssumption DEF RequestTypes, Buffered
<1>2. \A i \in 1..Buffered : rbuffer[rbufhead + i - 1] \in Octet
  <2> TAKE i \in 1..Buffered
  <2>1. rbufhead + i - 1 \in 0..RbufSize - 1
    BY <1>1
  <2>2. QED
    BY <1>1, <2>1
<1>3. QED
  BY <1>1, <1>2 DEF InRbuf, Slice

(* A slice of the buffer is the string with which it agrees everywhere.    *)
LEMMA RbufIs ==
    ASSUME NEW b \in [0..RbufSize - 1 -> Octet], NEW h \in Nat, NEW n \in Nat,
           h + n <= RbufSize, NEW t \in Seq(Octet), Len(t) = n,
           \A i \in 1..n : b[h + i - 1] = t[i]
    PROVE  Slice(b, h, n) = t
<1>1. \A i \in 1..n : b[h + i - 1] \in Octet
  <2> TAKE i \in 1..n
  <2>1. h + i - 1 \in 0..RbufSize - 1
    BY RequestsAssumption
  <2>2. QED
    BY <2>1
<1>2. /\ Slice(b, h, n) \in Seq(Octet) /\ Len(Slice(b, h, n)) = n
      /\ \A i \in 1..n : Slice(b, h, n)[i] = t[i]
  BY <1>1 DEF Slice
<1>3. QED
  BY <1>2, SeqEqual

(* Reading moves bytes from the way to the buffer, behind those that are   *)
(* there; no byte is lost.                                                 *)
LEMMA ReadKeepsBytes ==
    ASSUME RequestTypes, NEW k \in 1..RbufSize, rtsp_read_internal(k)
    PROVE  /\ RequestTypes' /\ InRbuf' \o input' = InRbuf \o input
<1> DEFINE got  == SubSeq(input, 1, k)
           left == SubSeq(input, k + 1, Len(input))
<1>1. /\ k \in 1..Len(input) /\ k <= RbufSize - Buffered
      /\ rbufhead' = 0 /\ rbuftail' = Buffered + k /\ input' = left
      /\ UNCHANGED <<asked, hungup, rpc, request, answers>>
      /\ rbuffer' = [i \in 0..RbufSize - 1 |->
                       IF i \in Buffered..Buffered + k - 1 THEN input[i - Buffered + 1]
                                                           ELSE Moved[i]]
  BY DEF rtsp_read_internal
<1>2. /\ rbufhead \in Nat /\ rbuftail \in Nat /\ RbufSize \in Nat /\ Buffered \in Nat
      /\ rbufhead + Buffered = rbuftail /\ rbuftail <= RbufSize
      /\ InRbuf \in Seq(Octet) /\ Len(InRbuf) = Buffered
      /\ \A i \in 1..Buffered : InRbuf[i] = rbuffer[rbufhead + i - 1]
  BY RbufBytes
<1>3. /\ input \in Seq(Octet) /\ got \in Seq(Octet) /\ Len(got) = k
      /\ \A i \in 1..k : got[i] = input[i]
      /\ left \in Seq(Octet) /\ input = got \o left
  BY <1>1, CutAt DEF RequestTypes
<1> HIDE DEF got, left
<1>4. \A i \in 0..RbufSize - 1 :
        /\ i < Buffered => Moved[i] = InRbuf[i + 1]
        /\ Moved[i] \in Octet
  <2> SUFFICES ASSUME NEW i \in 0..RbufSize - 1
               PROVE  /\ i < Buffered => Moved[i] = InRbuf[i + 1]
                      /\ Moved[i] \in Octet
    OBVIOUS
  <2>1. CASE i < Buffered
    <3>1. Moved[i] = rbuffer[rbufhead + i] /\ i + 1 \in 1..Buffered
          /\ rbufhead + (i + 1) - 1 = rbufhead + i
      BY <1>2, <2>1 DEF Moved, Byte
    <3>2. InRbuf[i + 1] = rbuffer[rbufhead + i]
      BY <1>2, <3>1
    <3>3. InRbuf[i + 1] \in Octet
      BY <1>2, <3>1, ElementOfSeq
    <3>4. QED
      BY <3>1, <3>2, <3>3
  <2>2. CASE ~(i < Buffered)
    BY <2>2 DEF Moved, RequestTypes
  <2>3. QED
    BY <2>1, <2>2
<1>5. rbuffer' \in [0..RbufSize - 1 -> Octet]
  <2>1. \A i \in 0..RbufSize - 1 : i \in Buffered..Buffered + k - 1
                                     => input[i - Buffered + 1] \in Octet
    <3> SUFFICES ASSUME NEW i \in 0..RbufSize - 1, i \in Buffered..Buffered + k - 1
                 PROVE  input[i - Buffered + 1] \in Octet
      OBVIOUS
    <3>1. i - Buffered + 1 \in 1..Len(input)
      BY <1>1, <1>2, <1>3
    <3>2. QED
      BY <1>3, <3>1, ElementOfSeq
  <2>2. QED
    BY <1>1, <1>4, <2>1
<1>6. Slice(rbuffer', 0, Buffered + k) = InRbuf \o got
  <2> DEFINE t == InRbuf \o got
  <2>1. /\ t \in Seq(Octet) /\ Len(t) = Buffered + k
        /\ \A i \in 1..Buffered + k : t[i] = IF i <= Buffered THEN InRbuf[i]
                                                              ELSE got[i - Buffered]
    <3>1. /\ t \in Seq(Octet) /\ Len(t) = Len(InRbuf) + Len(got)
          /\ \A i \in 1..(Len(InRbuf) + Len(got)) :
                t[i] = IF i <= Len(InRbuf) THEN InRbuf[i] ELSE got[i - Len(InRbuf)]
      BY <1>2, <1>3, ConcatProperties, ZenonT(30)
    <3> HIDE DEF t
    <3>2. QED
      BY <1>2, <1>3, <3>1
  <2> HIDE DEF t
  <2>2. \A i \in 1..Buffered + k : rbuffer'[0 + i - 1] = t[i]
    <3> SUFFICES ASSUME NEW i \in 1..Buffered + k PROVE rbuffer'[0 + i - 1] = t[i]
      OBVIOUS
    <3>1. 0 + i - 1 = i - 1 /\ i - 1 \in 0..RbufSize - 1
      BY <1>1, <1>2
    <3>2. CASE i <= Buffered
      <4>1. ~(i - 1 \in Buffered..Buffered + k - 1) /\ i - 1 < Buffered /\ (i - 1) + 1 = i
        BY <1>2, <3>2
      <4>2. rbuffer'[i - 1] = Moved[i - 1]
        BY <1>1, <3>1, <4>1
      <4>3. QED
        BY <1>4, <2>1, <3>1, <3>2, <4>1, <4>2
    <3>3. CASE i > Buffered
      <4>1. i - 1 \in Buffered..Buffered + k - 1 /\ (i - 1) - Buffered + 1 = i - Buffered
            /\ i - Buffered \in 1..k /\ ~(i <= Buffered)
        BY <1>2, <3>3
      <4>2. rbuffer'[i - 1] = input[(i - 1) - Buffered + 1]
        BY <1>1, <3>1, <4>1
      <4>3. QED
        BY <1>3, <2>1, <3>1, <4>1, <4>2
    <3>4. i <= Buffered \/ i > Buffered
      BY <1>2
    <3>5. QED
      BY <3>2, <3>3, <3>4, Zenon
  <2>3. 0 + (Buffered + k) <= RbufSize /\ Buffered + k \in Nat
    BY <1>1, <1>2
  <2>4. \A b \in [0..RbufSize - 1 -> Octet] :
          (\A i \in 1..Buffered + k : b[0 + i - 1] = t[i]) => Slice(b, 0, Buffered + k) = t
    BY <2>1, <2>3, RbufIs, ZenonT(30)
  <2>5. QED
    BY <1>5, <2>2, <2>4 DEF t
<1>7. InRbuf' = InRbuf \o got
  <2>1. Buffered' = Buffered + k /\ rbufhead' = 0
    BY <1>1, <1>2 DEF Buffered
  <2>2. InRbuf' = Slice(rbuffer', 0, Buffered + k)
    BY <2>1 DEF InRbuf
  <2>3. QED
    BY <1>6, <2>2
<1>8. InRbuf' \o input' = InRbuf \o input
  <2>1. Joined(InRbuf, got, left)
    BY <1>2, <1>3, AllJoined
  <2>2. QED
    BY <1>1, <1>3, <1>7, <2>1, Zenon DEF Joined
<1>9. RequestTypes'
  <2>1. rbuftail' \in rbufhead'..RbufSize /\ rbufhead' \in 0..RbufSize
    BY <1>1, <1>2, SMTT(30)
  <2>2. QED
    BY <1>1, <1>3, <1>5, <2>1 DEF RequestTypes
<1>10. QED
  BY <1>8, <1>9

(* What is taken is the first part of what is in the buffer and on the way. *)
LEMMA TakenIsFirst ==
    ASSUME RequestTypes, NEW m \in Seq(Octet), NEW r \in Seq(Octet),
           InRbuf \o input = m \o r, Len(m) \in 1..Buffered, taken(Len(m)), UNCHANGED input
    PROVE  /\ InRbuf' \o input' = r /\ UNCHANGED rbuffer
           /\ rbufhead' \in 0..RbufSize /\ rbuftail' \in rbufhead'..RbufSize
<1>1. /\ rbufhead \in Nat /\ rbuftail \in Nat /\ RbufSize \in Nat /\ Buffered \in Nat
      /\ rbufhead + Buffered = rbuftail /\ rbuftail <= RbufSize
      /\ InRbuf \in Seq(Octet) /\ Len(InRbuf) = Buffered
      /\ \A i \in 1..Buffered : InRbuf[i] = rbuffer[rbufhead + i - 1]
      /\ input \in Seq(Octet) /\ rbuffer \in [0..RbufSize - 1 -> Octet]
  BY RbufBytes DEF RequestTypes
<1>2. /\ rbufhead' = IF rbufhead + Len(m) = rbuftail THEN 0 ELSE rbufhead + Len(m)
      /\ rbuftail' = IF rbufhead + Len(m) = rbuftail THEN 0 ELSE rbuftail
      /\ UNCHANGED rbuffer
  BY DEF taken
<1> DEFINE n == Len(m)
<1>3. n \in Nat /\ n >= 1 /\ n <= Buffered
  BY <1>1
<1>4. PICK t \in Seq(Octet) : InRbuf = m \o t /\ t \o input = r
  <2>1. BeginsWith(InRbuf, input, m, r, Octet)
    BY <1>1, SplitFirst
  <2>2. QED
    BY <1>1, <1>3, <2>1 DEF BeginsWith
<1>5. /\ Len(t) = Buffered - n /\ Len(t) \in Nat
      /\ \A i \in 1..Len(t) : rbuffer[(rbufhead + n) + i - 1] = t[i]
  <2>1. /\ Len(m \o t) = n + Len(t) /\ Len(t) \in Nat
        /\ \A i \in 1..n + Len(t) : (m \o t)[i] = IF i <= n THEN m[i] ELSE t[i - n]
    BY <1>4, ConcatProperties, LenProperties
  <2>2. Len(t) = Buffered - n
    BY <1>1, <1>3, <1>4, <2>1
  <2>3. ASSUME NEW i \in 1..Len(t) PROVE rbuffer[(rbufhead + n) + i - 1] = t[i]
    <3>1. /\ n + i \in 1..Buffered /\ n + i \in 1..n + Len(t)
          /\ (n + i) - n = i /\ ~(n + i <= n)
          /\ rbufhead + (n + i) - 1 = (rbufhead + n) + i - 1
      BY <1>1, <1>3, <2>1, <2>2, SMTT(30)
    <3>2. InRbuf[n + i] = t[i]
      BY <1>4, <2>1, <3>1
    <3>3. InRbuf[n + i] = rbuffer[rbufhead + (n + i) - 1]
      BY <1>1, <3>1
    <3>4. QED
      BY <3>1, <3>2, <3>3
  <2>4. QED
    BY <2>1, <2>2, <2>3
<1>6. InRbuf' = t
  <2>1. CASE rbufhead + n = rbuftail
    <3>1. Len(t) = 0 /\ Buffered' = 0
      BY <1>1, <1>2, <1>5, <2>1, SMTT(30) DEF Buffered
    <3>2. t = <<>>
      BY <3>1, EmptySeq
    <3>3. QED
      BY <3>1, <3>2 DEF InRbuf, Slice
  <2>2. CASE rbufhead + n # rbuftail
    <3>1. Buffered' = Len(t) /\ rbufhead' = rbufhead + n
      BY <1>1, <1>2, <1>3, <1>5, <2>2 DEF Buffered
    <3>2. (rbufhead + n) + Len(t) <= RbufSize /\ rbufhead + n \in Nat
      BY <1>1, <1>3, <1>5, SMTT(30)
    <3>3. Slice(rbuffer, rbufhead + n, Len(t)) = t
      BY <1>1, <1>5, <3>2, RbufIs, ZenonT(30)
    <3>4. QED
      BY <1>2, <3>1, <3>3 DEF InRbuf
  <2>3. QED
    BY <2>1, <2>2
<1>7. rbufhead' \in 0..RbufSize /\ rbuftail' \in rbufhead'..RbufSize
  BY <1>1, <1>2, <1>3, SMTT(30)
<1>8. QED
  BY <1>2, <1>4, <1>6, <1>7

-----------------------------------------------------------------------------
(* A line that is whole ends with the first new line of the buffer.        *)
LEMMA LineInRbuf ==
    ASSUME RequestTypes, WholeLength > 0, ~IsBinary
    PROVE  /\ WholeLength = text_length /\ text_length \in 1..Buffered
           /\ InRbuf[text_length] = NewLine
           /\ \A i \in 1..Buffered : InRbuf[i] = NewLine => text_length <= i
<1>1. /\ Buffered \in Nat
      /\ \A i \in 1..Buffered : InRbuf[i] = rbuffer[rbufhead + i - 1]
      /\ rbufhead \in Nat
  BY RbufBytes
<1>2. WholeLength = text_length /\ Buffered # 0
  BY DEF WholeLength
<1>3. LineEnds \in SUBSET Nat /\ LineEnds # {}
  BY <1>1, <1>2 DEF LineEnds, text_length
<1>4. PICK n \in LineEnds : \A m \in LineEnds : n <= m
  BY <1>3, LeastNumber
<1> DEFINE c == CHOOSE i \in LineEnds : \A j \in LineEnds : i <= j
<1>5. c \in LineEnds /\ (\A j \in LineEnds : c <= j) /\ text_length = 1 + c
  BY <1>3, <1>4 DEF text_length
<1> HIDE DEF c
<1>6. \A i \in 0..Buffered - 1 : InRbuf[i + 1] = rbuffer[rbufhead + i]
  <2> TAKE i \in 0..Buffered - 1
  <2>1. i + 1 \in 1..Buffered /\ rbufhead + (i + 1) - 1 = rbufhead + i
    BY <1>1
  <2>2. InRbuf[i + 1] = rbuffer[rbufhead + (i + 1) - 1]
    BY <1>1, <2>1
  <2>3. QED
    BY <2>1, <2>2
<1>7. LineEnds = {i \in 0..Buffered - 1 : InRbuf[i + 1] = NewLine}
  BY <1>6 DEF LineEnds, Byte
<1>8. c \in 0..Buffered - 1 /\ InRbuf[c + 1] = NewLine /\ c + 1 = text_length
      /\ text_length \in 1..Buffered
  BY <1>1, <1>5, <1>7
<1>9. ASSUME NEW i \in 1..Buffered, InRbuf[i] = NewLine PROVE text_length <= i
  <2>1. i - 1 \in 0..Buffered - 1 /\ (i - 1) + 1 = i
    BY <1>1
  <2>2. i - 1 \in LineEnds
    BY <1>7, <1>9, <2>1
  <2>3. c <= i - 1
    BY <1>5, <2>2
  <2>4. QED
    BY <1>1, <1>8, <2>3
<1>10. QED
  BY <1>2, <1>8, <1>9

(* The buffer begins with the bytes of the unit that is to be answered     *)
(* next, as far as it has come in.                                         *)
LEMMA RbufStarts ==
    ASSUME RequestTypes, NEW w \in Seq(Octet), NEW v \in Seq(Octet),
           InRbuf \o input = w \o v
    PROVE  /\ \A i \in 1..Buffered : i \in 1..Len(w) => InRbuf[i] = w[i]
           /\ Buffered > 0 /\ Len(w) > 0 => Byte(0) = w[1]
<1>1. /\ InRbuf \in Seq(Octet) /\ Len(InRbuf) = Buffered /\ input \in Seq(Octet)
      /\ \A i \in 1..Buffered : InRbuf[i] = rbuffer[rbufhead + i - 1]
      /\ Buffered \in Nat /\ rbufhead \in Nat
  BY RbufBytes DEF RequestTypes
<1>2. \A i \in 1..Buffered : i \in 1..Len(w) => InRbuf[i] = w[i]
  BY <1>1, SameStart, SMTT(30)
<1>3. ASSUME Buffered > 0, Len(w) > 0 PROVE Byte(0) = w[1]
  <2>1. 1 \in 1..Buffered /\ 1 \in 1..Len(w) /\ rbufhead + 1 - 1 = rbufhead + 0
    BY <1>1, <1>3, LenProperties
  <2>2. InRbuf[1] = rbuffer[rbufhead + 1 - 1]
    BY <1>1, <2>1
  <2>3. QED
    BY <1>2, <2>1, <2>2 DEF Byte
<1>4. QED
  BY <1>2, <1>3

(* The line at the head of the buffer is the first line of the text that   *)
(* is to be read next, if that has a whole line.                           *)
LEMMA LineOfText ==
    ASSUME RequestTypes, NEW w \in Seq(Octet), NEW v \in Seq(Octet),
           InRbuf \o input = w \o v, w[1] # Dollar, WholeLength > 0,
           NEW j \in 1..Len(w), w[j] = NewLine
    PROVE  /\ ~IsBinary /\ WholeLength = text_length /\ text_length \in 1..Buffered
           /\ text_length \in 1..j /\ w[text_length] = NewLine
           /\ Byte(0) = w[1]
<1>1. Buffered \in Nat /\ Len(w) \in Nat /\ j \in Nat /\ 1 <= j /\ j <= Len(w)
  BY RbufBytes, LenProperties
<1>2. Buffered > 0
  BY <1>1 DEF WholeLength
<1>3. /\ \A i \in 1..Buffered : i \in 1..Len(w) => InRbuf[i] = w[i]
      /\ Byte(0) = w[1]
  <2>1. /\ \A i \in 1..Buffered : i \in 1..Len(w) => InRbuf[i] = w[i]
        /\ Buffered > 0 /\ Len(w) > 0 => Byte(0) = w[1]
    BY RbufStarts
  <2>2. Len(w) > 0
    BY <1>1
  <2>3. QED
    BY <1>2, <2>1, <2>2
<1>4. ~IsBinary
  BY <1>3 DEF IsBinary
<1>5. /\ WholeLength = text_length /\ text_length \in 1..Buffered
      /\ InRbuf[text_length] = NewLine
      /\ \A i \in 1..Buffered : InRbuf[i] = NewLine => text_length <= i
  BY <1>4, LineInRbuf
<1>6. text_length <= j
  <2>1. SUFFICES ASSUME j < text_length PROVE FALSE
    BY <1>1, <1>5
  <2>2. j \in 1..Buffered
    BY <1>1, <1>5, <2>1
  <2>3. InRbuf[j] = NewLine
    BY <1>3, <2>2
  <2>4. text_length <= j
    BY <1>5, <2>2, <2>3
  <2>5. QED
    BY <1>1, <1>5, <2>1, <2>4
<1>7. text_length \in 1..j /\ text_length \in 1..Len(w)
  BY <1>1, <1>5, <1>6
<1>8. QED
  BY <1>3, <1>4, <1>5, <1>7

-----------------------------------------------------------------------------
(* What the client does; what it sends comes last of what is unanswered.   *)
LEMMA SendingIsSound ==
    ASSUME RequestsInv, NEW u \in Unit, client_asks(u)
    PROVE  RequestsInv'
<1>1. /\ asked' = Append(asked, u) /\ input' = input \o u
      /\ UNCHANGED <<hungup, buffer, rpc, request, answers>>
  BY DEF client_asks
<1>2. RequestTypes
  BY DEF RequestsInv
<1>3. PICK done \in Seq(Unit), q \in Seq(Unit) : Answers(done, q)
  BY DEF RequestsInv
<1>4. /\ u \in Seq(Octet) /\ input \in Seq(Octet) /\ InRbuf \in Seq(Octet)
      /\ FlattenSeq(q) \in Seq(Octet) /\ q \in Seq(Seq(Octet))
  BY <1>2, UnitShape, UnitStream, RbufBytes DEF RequestTypes
<1> DEFINE q2 == Append(q, u)
<1>5. q2 \in Seq(Unit) /\ q2 # <<>> /\ FlattenSeq(q2) = FlattenSeq(q) \o u
  <2>1. q2 \in Seq(Unit) /\ q2 # <<>>
    BY AppendProperties
  <2>2. FlattenSeq(q2) = FlattenSeq(q) \o u
    BY <1>4, FlattenAppend
  <2>3. QED
    BY <2>1, <2>2
<1>6. InRbuf' = InRbuf /\ Answered' = Answered
  BY <1>1 DEF buffer, InRbuf, Buffered, Answered
<1>7. RequestTypes'
  <2>1. input' \in Seq(Octet)
    BY <1>1, <1>4, ConcatProperties
  <2>2. QED
    BY <1>1, <1>2, <2>1 DEF RequestTypes, buffer
<1>8. InRbuf' \o input' = (InRbuf \o input) \o u
  <2>1. Joined(InRbuf, input, u)
    BY <1>4, AllJoined
  <2>2. QED
    BY <1>1, <1>6, <2>1, Zenon DEF Joined
<1>9. asked' = done \o q2
  <2>1. asked = done \o q /\ <<u>> \in Seq(Unit)
    BY <1>3 DEF Answers
  <2>2. asked \in Seq(Unit)
    BY <2>1, ConcatProperties
  <2>3. asked' = asked \o <<u>> /\ q2 = q \o <<u>>
    BY <1>1, <2>2, AppendIsConcat
  <2>4. Joined(done, q, <<u>>)
    BY <2>1, AllJoined
  <2> HIDE DEF q2
  <2>5. QED
    BY <2>1, <2>3, <2>4, Zenon DEF Joined
<1>10. Unanswered(q2)'
  <2>1. ASSUME rpc' \in {"select", "request"} PROVE InRbuf' \o input' = FlattenSeq(q2)
    <3>1. InRbuf \o input = FlattenSeq(q)
      BY <1>1, <1>3, <2>1 DEF Answers, Unanswered
    <3>2. QED
      BY <1>5, <1>8, <3>1
  <2>2. ASSUME rpc' = "headers"
        PROVE  /\ request' = Head(q2)[1]
               /\ \E p, r \in Seq(Octet) :
                     Partly(Head(q2), p, r) /\ InRbuf' \o input' = r \o FlattenSeq(Tail(q2))
    <3>1. PICK p \in Seq(Octet), r \in Seq(Octet) :
             /\ q # <<>> /\ request = Head(q)[1]
             /\ Partly(Head(q), p, r) /\ InRbuf \o input = r \o FlattenSeq(Tail(q))
      BY <1>1, <1>3, <2>2 DEF Answers, Unanswered
    <3>2. Head(q2) = Head(q) /\ Tail(q2) = Append(Tail(q), u) /\ Tail(q) \in Seq(Seq(Octet))
      <4>1. /\ Head(q2) = Head(q) /\ Tail(q2) = Append(Tail(q), u)
        BY <3>1
      <4>2. QED
        BY <1>4, <3>1, <4>1, HeadTailProperties
    <3>3. FlattenSeq(Tail(q2)) = FlattenSeq(Tail(q)) \o u /\ FlattenSeq(Tail(q)) \in Seq(Octet)
      BY <1>4, <3>2, FlattenAppend, FlattenType
    <3>4. Joined(r, FlattenSeq(Tail(q)), u)
      BY <1>4, <3>3, AllJoined
    <3>5. InRbuf' \o input' = r \o FlattenSeq(Tail(q2))
      BY <1>8, <3>1, <3>3, <3>4, Zenon DEF Joined
    <3>6. QED
      BY <1>1, <3>1, <3>2, <3>5
  <2> HIDE DEF q2
  <2>3. QED
    BY <1>5, <2>1, <2>2 DEF Unanswered
<1>11. Answers(done, q2)'
  BY <1>3, <1>6, <1>9, <1>10 DEF Answers
<1>12. QED
  BY <1>5, <1>7, <1>11 DEF RequestsInv

(* Steps that take nothing from the buffer and answer nothing: the stream  *)
(* stays as it is, and where the thread goes it reads the same.            *)
LEMMA SameStreamIsSound ==
    ASSUME RequestsInv, RequestTypes', UNCHANGED <<asked, request, answers>>,
           InRbuf' \o input' = InRbuf \o input,
           \/ rpc' = rpc
           \/ rpc = "select" /\ rpc' = "request"
           \/ rpc' \in {"quit", "overrun"}
    PROVE  RequestsInv'
<1>1. PICK done \in Seq(Unit), q \in Seq(Unit) : Answers(done, q)
  BY DEF RequestsInv
<1>2. Answered' = Answered
  BY DEF Answered
<1>3. Unanswered(q)'
  BY <1>1 DEF Answers, Unanswered
<1>4. Answers(done, q)'
  BY <1>1, <1>2, <1>3 DEF Answers
<1>5. QED
  BY <1>1, <1>4 DEF RequestsInv

(* What does not touch buffer and connection leaves the stream as it is.   *)
LEMMA SameRbuf ==
    ASSUME RequestsInv, UNCHANGED <<input, buffer, answers>>,
           rpc' \in {"select", "request", "headers", "quit", "overrun"}
    PROVE  RequestTypes' /\ InRbuf' \o input' = InRbuf \o input
<1>1. InRbuf' = InRbuf
  BY DEF buffer, InRbuf, Buffered
<1>2. QED
  BY <1>1 DEF RequestsInv, RequestTypes, buffer

(* The client hangs up, the thread is woken, gives up, overruns its buffer *)
(* or reads more.                                                          *)
LEMMA OtherStepsAreSound ==
    ASSUME RequestsInv,
           client_hangs_up \/ select \/ rtsp_getnext_fails \/ buffer_overruns
             \/ \E k \in 1..RbufSize : rtsp_read_internal(k)
    PROVE  RequestsInv'
<1>1. CASE client_hangs_up
  <2>1. UNCHANGED <<asked, input, buffer, rpc, request, answers>> /\ rpc' = rpc
    BY <1>1 DEF client_hangs_up
  <2>2. rpc' \in {"select", "request", "headers", "quit", "overrun"}
    BY <2>1 DEF RequestsInv, RequestTypes
  <2>3. QED
    BY <2>1, <2>2, SameRbuf, SameStreamIsSound
<1>2. CASE select
  BY <1>2, SameRbuf, SameStreamIsSound DEF select
<1>3. CASE rtsp_getnext_fails
  BY <1>3, SameRbuf, SameStreamIsSound DEF rtsp_getnext_fails
<1>4. CASE \E k \in 1..RbufSize : rtsp_read_internal(k)
  <2>1. PICK k \in 1..RbufSize : rtsp_read_internal(k)
    BY <1>4
  <2>2. RequestTypes' /\ InRbuf' \o input' = InRbuf \o input
    BY <2>1, ReadKeepsBytes DEF RequestsInv
  <2>3. UNCHANGED <<asked, request, answers>> /\ rpc' = rpc
    BY <2>1 DEF rtsp_read_internal
  <2>4. QED
    BY <2>2, <2>3, SameStreamIsSound
<1>5. CASE buffer_overruns
  BY <1>5, SameRbuf, SameStreamIsSound DEF buffer_overruns
<1>6. QED
  BY <1>1, <1>2, <1>3, <1>4, <1>5

-----------------------------------------------------------------------------
(* Steps that take what is first in the stream.                            *)

(* When a unit has been taken whole, the next one is to be answered.       *)
LEMMA WholeIsTaken ==
    ASSUME NEW done \in Seq(Unit), NEW q \in Seq(Unit), q # <<>>, asked = done \o q,
           RequestTypes', UNCHANGED asked, rpc' \in {"select", "quit"},
           rpc' = "select" => InRbuf' \o input' = FlattenSeq(Tail(q)),
           Answered' = Firsts(Requests(Append(done, Head(q))))
    PROVE  RequestsInv'
<1> DEFINE done2 == Append(done, Head(q))
<1>1. done2 \in Seq(Unit) /\ Tail(q) \in Seq(Unit) /\ asked' = done2 \o Tail(q)
  BY NextUnit, FirstUnit
<1> HIDE DEF done2
<1>2. Unanswered(Tail(q))'
  BY DEF Unanswered
<1>3. Answers(done2, Tail(q))'
  BY <1>1, <1>2 DEF Answers, done2
<1>4. QED
  BY <1>1, <1>3 DEF RequestsInv

(* A packet of RTCP is taken whole, and is not answered.                   *)
LEMMA PacketIsTaken ==
    ASSUME RequestsInv, handle_rtcp
    PROVE  RequestsInv'
<1>1. /\ rpc = "request" /\ WholeLength > 0 /\ IsBinary /\ taken(WholeLength)
      /\ rpc' = "select" /\ UNCHANGED <<asked, input, hungup, request, answers>>
  BY DEF handle_rtcp
<1>2. /\ RequestTypes /\ Buffered \in Nat /\ rbufhead \in Nat
      /\ InRbuf \in Seq(Octet) /\ Len(InRbuf) = Buffered
      /\ \A i \in 1..Buffered : InRbuf[i] = rbuffer[rbufhead + i - 1]
  BY RbufBytes DEF RequestsInv
<1>3. PICK done \in Seq(Unit), q \in Seq(Unit) : Answers(done, q)
  BY DEF RequestsInv
<1>4. asked = done \o q /\ InRbuf \o input = FlattenSeq(q) /\ Answered = Firsts(Requests(done))
  BY <1>1, <1>3 DEF Answers, Unanswered
<1>5. /\ WholeLength = 4 + (Byte(2) * 256 + Byte(3))
      /\ Buffered >= 4 /\ WholeLength <= Buffered /\ Byte(0) = Dollar
  <2>1. /\ WholeLength = binary_length /\ Byte(0) = Dollar
        /\ ~(Buffered < 4) /\ ~(4 + (Byte(2) * 256 + Byte(3)) > Buffered)
        /\ binary_length = 4 + (Byte(2) * 256 + Byte(3))
    BY <1>1 DEF WholeLength, IsBinary, binary_length
  <2>2. Byte(2) \in Octet /\ Byte(3) \in Octet
    <3>1. /\ 3 \in 1..Buffered /\ 4 \in 1..Buffered
          /\ rbufhead + 3 - 1 = rbufhead + 2 /\ rbufhead + 4 - 1 = rbufhead + 3
      BY <1>2, <2>1
    <3>2. InRbuf[3] \in Octet /\ InRbuf[4] \in Octet
      BY <1>2, <3>1, ElementOfSeq
    <3>3. QED
      BY <1>2, <3>1, <3>2 DEF Byte
  <2>3. QED
    BY <1>2, <2>1, <2>2 DEF Octet
<1>6. q # <<>>
  <2>1. SUFFICES ASSUME q = <<>> PROVE FALSE
    OBVIOUS
  <2>2. InRbuf \o input = <<>> /\ input \in Seq(Octet)
    BY <1>2, <1>4, <2>1, FlattenEmpty DEF RequestTypes
  <2>3. Len(InRbuf) + Len(input) = 0 /\ Len(input) \in Nat
    BY <1>2, <2>2, ConcatProperties, LenProperties, EmptySeq
  <2>4. QED
    BY <1>2, <1>5, <2>3
<1> DEFINE u == Head(q)
           v == FlattenSeq(Tail(q))
<1>7. /\ u \in Unit /\ v \in Seq(Octet) /\ InRbuf \o input = u \o v
      /\ u \in Seq(Octet) /\ Len(u) \in Nat /\ Len(u) >= 1
      /\ IsRequest(u) \/ IsPacket(u) \/ EndsSession(u)
  <2>1. u \in Unit /\ v \in Seq(Octet) /\ InRbuf \o input = u \o v
    BY <1>4, <1>6, FirstUnit
  <2> HIDE DEF u, v
  <2>2. QED
    BY <2>1, UnitShape
<1> HIDE DEF u, v
<1>8. /\ \A i \in 1..Buffered : i \in 1..Len(u) => InRbuf[i] = u[i]
      /\ Buffered > 0 /\ Len(u) > 0 => Byte(0) = u[1]
  BY <1>2, <1>7, RbufStarts
<1>9. u[1] = Dollar /\ IsPacket(u)
  BY <1>2, <1>5, <1>7, <1>8, SMTT(30) DEF IsRequest, EndsSession
<1>10. Byte(2) = u[3] /\ Byte(3) = u[4]
  <2>1. /\ 3 \in 1..Buffered /\ 4 \in 1..Buffered /\ 3 \in 1..Len(u) /\ 4 \in 1..Len(u)
        /\ rbufhead + 3 - 1 = rbufhead + 2 /\ rbufhead + 4 - 1 = rbufhead + 3
    BY <1>2, <1>5, <1>7, <1>9, SMTT(30) DEF IsPacket
  <2>2. InRbuf[3] = rbuffer[rbufhead + 3 - 1] /\ InRbuf[4] = rbuffer[rbufhead + 4 - 1]
    BY <1>2, <2>1
  <2>3. QED
    BY <1>8, <2>1, <2>2 DEF Byte
<1>11. WholeLength = Len(u)
  BY <1>5, <1>9, <1>10 DEF IsPacket
<1>12. /\ InRbuf' \o input' = v /\ UNCHANGED rbuffer
       /\ rbufhead' \in 0..RbufSize /\ rbuftail' \in rbufhead'..RbufSize
  <2>1. Len(u) \in 1..Buffered /\ taken(Len(u)) /\ UNCHANGED input
    BY <1>1, <1>2, <1>5, <1>7, <1>11
  <2>2. QED
    BY <1>2, <1>7, <2>1, TakenIsFirst
<1>13. RequestTypes'
  BY <1>1, <1>2, <1>12 DEF RequestTypes
<1>14. Answered' = Firsts(Requests(Append(done, u)))
  <2>1. Firsts(Requests(Append(done, u))) = Firsts(Requests(done))
    BY <1>7, <1>9, FirstsAppend
  <2>2. QED
    BY <1>1, <1>4, <2>1 DEF Answered
<1>15. QED
  BY <1>1, <1>4, <1>6, <1>12, <1>13, <1>14, WholeIsTaken DEF u, v

(* A request line is answered at once, if it is of another protocol;       *)
(* otherwise the rest of the request remains to be read.                   *)
LEMMA RequestLineIsSound ==
    ASSUME RequestsInv, request_line
    PROVE  RequestsInv'
<1>1. /\ rpc = "request" /\ WholeLength > 0 /\ ~IsBinary /\ ~TooLong /\ taken(WholeLength)
      /\ UNCHANGED <<asked, input, hungup>>
      /\ \/ OfProtocol(Byte(0)) /\ request' = Byte(0) /\ rpc' = "headers" /\ UNCHANGED answers
         \/ ~OfProtocol(Byte(0)) /\ rtsp_reply(Byte(0), "VERSION") /\ rpc' = "quit"
  BY DEF request_line
<1>2. RequestTypes /\ Buffered \in Nat /\ Len(InRbuf) = Buffered /\ InRbuf \in Seq(Octet)
      /\ input \in Seq(Octet) /\ rbufhead \in Nat /\ rbuftail \in Nat
      /\ rbufhead + Buffered = rbuftail /\ rbuftail <= RbufSize
  BY RbufBytes DEF RequestsInv, RequestTypes
<1>3. PICK done \in Seq(Unit), q \in Seq(Unit) : Answers(done, q)
  BY DEF RequestsInv
<1>4. asked = done \o q /\ InRbuf \o input = FlattenSeq(q) /\ Answered = Firsts(Requests(done))
  BY <1>1, <1>3 DEF Answers, Unanswered
<1>5. /\ WholeLength = text_length /\ text_length \in 1..Buffered
      /\ InRbuf[text_length] = NewLine /\ text_length <= TextMax
  <2>1. TextMax \in Nat /\ ~(text_length > TextMax)
    BY <1>1, RequestsAssumption DEF TooLong
  <2>2. QED
    BY <1>1, <1>2, <2>1, LineInRbuf
<1>6. q # <<>>
  <2>1. SUFFICES ASSUME q = <<>> PROVE FALSE
    OBVIOUS
  <2>2. InRbuf \o input = <<>>
    BY <1>4, <2>1, FlattenEmpty
  <2>3. Len(InRbuf) + Len(input) = 0 /\ Len(input) \in Nat
    BY <1>2, <2>2, ConcatProperties, LenProperties, EmptySeq
  <2>4. QED
    BY <1>2, <1>5, <2>3
<1> DEFINE u == Head(q)
           v == FlattenSeq(Tail(q))
           n == text_length
<1>7. /\ u \in Unit /\ v \in Seq(Octet) /\ InRbuf \o input = u \o v
      /\ u \in Seq(Octet) /\ Len(u) \in Nat /\ Len(u) >= 1 /\ u[1] \in Octet
      /\ IsRequest(u) \/ IsPacket(u) \/ EndsSession(u)
  <2>1. u \in Unit /\ v \in Seq(Octet) /\ InRbuf \o input = u \o v
    BY <1>4, <1>6, FirstUnit
  <2> HIDE DEF u, v
  <2>2. QED
    BY <2>1, UnitShape
<1> HIDE DEF u, v, n
<1>8. /\ \A i \in 1..Buffered : i \in 1..Len(u) => InRbuf[i] = u[i]
      /\ Buffered > 0 /\ Len(u) > 0 => Byte(0) = u[1]
  BY <1>2, <1>7, RbufStarts
<1>9. Byte(0) = u[1] /\ u[1] # Dollar /\ n \in 1..Buffered /\ InRbuf[n] = NewLine
      /\ n <= TextMax /\ n \in Nat /\ n >= 1 /\ n <= Buffered /\ WholeLength = n
  BY <1>1, <1>2, <1>5, <1>7, <1>8 DEF IsBinary, n
<1>10. CASE ~OfProtocol(Byte(0))
  <2>1. rtsp_reply(u[1], "VERSION") /\ rpc' = "quit" /\ asked' = asked
    BY <1>1, <1>9, <1>10
  <2>2. /\ Answered' = Append(Answered, u[1])
        /\ answers' \in Seq([to : Octet, status : Status])
    <3>1. "VERSION" \in Status
      BY DEF Status
    <3>2. QED
      BY <1>2, <1>7, <2>1, <3>1, AnswerAppends
  <2>3. Firsts(Requests(Append(done, u))) = Append(Firsts(Requests(done)), u[1])
    BY <1>7, <1>9, FirstsAppend
  <2>4. rbufhead' \in 0..RbufSize /\ rbuftail' \in rbufhead'..RbufSize /\ UNCHANGED rbuffer
    <3>1. /\ rbufhead' = IF rbufhead + n = rbuftail THEN 0 ELSE rbufhead + n
          /\ rbuftail' = IF rbufhead + n = rbuftail THEN 0 ELSE rbuftail
          /\ UNCHANGED rbuffer
      BY <1>1, <1>9 DEF taken
    <3>2. RbufSize \in Nat
      BY RequestsAssumption
    <3>3. QED
      BY <1>2, <1>9, <3>1, <3>2
  <2>5. RequestTypes'
    BY <1>1, <1>2, <2>1, <2>2, <2>4 DEF RequestTypes
  <2>6. QED
    BY <1>4, <1>6, <2>1, <2>2, <2>3, <2>5, WholeIsTaken DEF u, v
<1>11. CASE OfProtocol(Byte(0))
  <2>1. IsRequest(u)
    <3>1. ~IsPacket(u)
      BY <1>9 DEF IsPacket
    <3>2. ~EndsSession(u)
      <4>1. SUFFICES ASSUME Len(u) > TextMax, \A i \in 1..TextMax : u[i] # NewLine PROVE FALSE
        BY <1>9, <1>11 DEF EndsSession
      <4>2. n \in 1..TextMax /\ n \in 1..Len(u)
        BY <1>7, <1>9, <4>1, RequestsAssumption
      <4>3. QED
        BY <1>8, <1>9, <4>1, <4>2
    <3>3. QED
      BY <1>7, <3>1, <3>2
  <2> DEFINE p == SubSeq(u, 1, n)
             r == SubSeq(u, n + 1, Len(u))
  <2>2. n \in 1..(Len(u) - 1) /\ u[n] = NewLine
    <3>1. Len(u) - 1 \in 1..Len(u) /\ u[Len(u) - 1] = NewLine
      BY <1>7, <2>1 DEF IsRequest
    <3>2. /\ text_length \in 1..(Len(u) - 1) /\ u[text_length] = NewLine
      BY <1>1, <1>2, <1>7, <1>9, <3>1, LineOfText
    <3>3. QED
      BY <3>2 DEF n
  <2>3. /\ p \in Seq(Octet) /\ Len(p) = n /\ p[n] = u[n] /\ r \in Seq(Octet) /\ u = p \o r
    <3>1. n \in 1..Len(u) /\ n \in 1..n
      BY <1>7, <1>9, <2>2
    <3>2. /\ p \in Seq(Octet) /\ Len(p) = n /\ r \in Seq(Octet) /\ u = p \o r
          /\ \A i \in 1..n : p[i] = u[i]
      BY <1>7, <3>1, CutAt, ZenonT(30)
    <3> HIDE DEF p, r
    <3>3. QED
      BY <3>1, <3>2
  <2> HIDE DEF p, r
  <2>4. Partly(u, p, r)
    <3>1. Len(u) = Len(p) + Len(r) /\ Len(r) \in Nat
      BY <2>3, ConcatProperties, LenProperties
    <3>2. Len(r) > 0
      BY <1>7, <2>2, <2>3, <3>1
    <3>3. QED
      BY <1>9, <2>1, <2>2, <2>3, <3>2 DEF Partly
  <2>5. InRbuf \o input = p \o (r \o v) /\ r \o v \in Seq(Octet)
    <3>1. Joined(p, r, v)
      BY <1>7, <2>3, AllJoined
    <3>2. InRbuf \o input = p \o (r \o v)
      BY <1>7, <2>3, <3>1, Zenon DEF Joined
    <3>3. QED
      BY <1>7, <2>3, <3>2, ConcatProperties
  <2>6. /\ InRbuf' \o input' = r \o v /\ UNCHANGED rbuffer
        /\ rbufhead' \in 0..RbufSize /\ rbuftail' \in rbufhead'..RbufSize
    <3>1. Len(p) \in 1..Buffered /\ taken(Len(p)) /\ UNCHANGED input
      BY <1>1, <1>9, <2>3
    <3>2. QED
      BY <1>2, <2>3, <2>5, <3>1, TakenIsFirst
  <2>7. request' = u[1] /\ rpc' = "headers" /\ UNCHANGED answers /\ asked' = asked
    BY <1>1, <1>9, <1>11
  <2>8. RequestTypes'
    BY <1>1, <1>2, <2>6, <2>7 DEF RequestTypes
  <2>9. Unanswered(q)'
    BY <1>6, <2>3, <2>4, <2>6, <2>7 DEF Unanswered, u, v
  <2>10. Answers(done, q)'
    BY <1>4, <2>7, <2>9 DEF Answers, Answered
  <2>11. QED
    BY <1>3, <2>8, <2>10 DEF RequestsInv
<1>12. QED
  BY <1>10, <1>11

(* What is left of a request after the end of a line: another line, or the *)
(* empty line that ends it; never a packet.                                *)
LEMMA RestOfRequest ==
    ASSUME NEW u \in Seq(Octet), NEW p \in Seq(Octet), NEW r \in Seq(Octet), Partly(u, p, r)
    PROVE  /\ Len(p) \in Nat /\ Len(r) \in Nat /\ Len(p) > 0 /\ Len(r) > 0
           /\ u[1] # Dollar /\ r[1] # Dollar
           /\ r[1] = NewLine => Len(r) = 1
           /\ r[1] # NewLine => Len(r) - 1 \in 1..Len(r) /\ r[Len(r) - 1] = NewLine
<1>1. IsRequest(u) /\ u = p \o r /\ Len(p) > 0 /\ Len(r) > 0 /\ p[Len(p)] = NewLine
  BY DEF Partly
<1>2. /\ Len(p) \in Nat /\ Len(r) \in Nat /\ Len(p \o r) = Len(p) + Len(r)
      /\ \A i \in 1..(Len(p) + Len(r)) : (p \o r)[i] = IF i <= Len(p) THEN p[i] ELSE r[i - Len(p)]
  BY ConcatProperties, LenProperties
<1> DEFINE a == Len(p)
           b == Len(r)
<1>3. /\ a \in Nat /\ b \in Nat /\ a > 0 /\ b > 0 /\ Len(u) = a + b
      /\ \A i \in 1..(a + b) : u[i] = IF i <= a THEN p[i] ELSE r[i - a]
      /\ p[a] = NewLine
  BY <1>1, <1>2
<1>4. /\ u[1] # Dollar
      /\ u[Len(u) - 1] = NewLine /\ u[Len(u)] = NewLine
      /\ \A i \in 2..Len(u) : u[i - 1] = NewLine => u[i] # Dollar /\ (u[i] = NewLine => i = Len(u))
  BY <1>1 DEF IsRequest
<1> HIDE DEF a, b
<1>5. u[a] = NewLine /\ u[a + 1] = r[1] /\ u[a + b] = r[b]
  <2>1. /\ a \in 1..(a + b) /\ a + 1 \in 1..(a + b) /\ a + b \in 1..(a + b)
        /\ a <= a /\ ~(a + 1 <= a) /\ ~(a + b <= a) /\ (a + 1) - a = 1 /\ (a + b) - a = b
    BY <1>3
  <2>2. QED
    BY <1>3, <2>1
<1>6. r[1] # Dollar /\ (r[1] = NewLine => b = 1)
  <2>1. a + 1 \in 2..Len(u) /\ (a + 1) - 1 = a
    BY <1>3
  <2>2. u[a + 1] # Dollar /\ (u[a + 1] = NewLine => a + 1 = Len(u))
    BY <1>4, <1>5, <2>1
  <2>3. QED
    BY <1>3, <1>5, <2>2
<1>7. ASSUME r[1] # NewLine PROVE b - 1 \in 1..b /\ r[b - 1] = NewLine
  <2>1. b # 1
    BY <1>3, <1>4, <1>5, <1>7
  <2>2. /\ b - 1 \in 1..b /\ (a + b) - 1 \in 1..(a + b) /\ ~((a + b) - 1 <= a)
        /\ ((a + b) - 1) - a = b - 1
    BY <1>3, <2>1
  <2>3. u[(a + b) - 1] = r[b - 1]
    BY <1>3, <2>2
  <2>4. QED
    BY <1>3, <1>4, <2>2, <2>3
<1>8. QED
  BY <1>3, <1>4, <1>6, <1>7 DEF a, b

(* What is left of a request that is being read, in one place.             *)
LEMMA BeingRead ==
    ASSUME RequestsInv, rpc = "headers"
    PROVE  \E done, q \in Seq(Unit), p, r \in Seq(Octet) :
              /\ q # <<>> /\ asked = done \o q /\ Answered = Firsts(Requests(done))
              /\ request = Head(q)[1] /\ Partly(Head(q), p, r)
              /\ InRbuf \o input = r \o FlattenSeq(Tail(q))
<1>1. PICK done \in Seq(Unit), q \in Seq(Unit) : Answers(done, q)
  BY DEF RequestsInv
<1>2. QED
  BY <1>1 DEF Answers, Unanswered

(* A header is taken, and the request remains to be answered.              *)
LEMMA HeaderLineIsSound ==
    ASSUME RequestsInv, header_line
    PROVE  RequestsInv'
<1>1. /\ rpc = "headers" /\ WholeLength > 0 /\ ~TooLong /\ ~EmptyLine /\ taken(WholeLength)
      /\ UNCHANGED <<asked, input, hungup, rpc, request, answers>>
  BY DEF header_line
<1>2. RequestTypes
  BY DEF RequestsInv
<1>3. PICK done \in Seq(Unit), q \in Seq(Unit), p \in Seq(Octet), r \in Seq(Octet) :
         /\ q # <<>> /\ asked = done \o q /\ Answered = Firsts(Requests(done))
         /\ request = Head(q)[1] /\ Partly(Head(q), p, r)
         /\ InRbuf \o input = r \o FlattenSeq(Tail(q))
  BY <1>1, BeingRead
<1> DEFINE u == Head(q)
           v == FlattenSeq(Tail(q))
           n == text_length
<1>4. u \in Seq(Octet) /\ v \in Seq(Octet) /\ InRbuf \o input = r \o v /\ Partly(u, p, r)
  BY <1>3, FirstUnit, UnitShape
<1> HIDE DEF u, v, n
<1>5. /\ Len(p) \in Nat /\ Len(r) \in Nat /\ Len(p) > 0 /\ Len(r) > 0 /\ r[1] # Dollar
      /\ r[1] = NewLine => Len(r) = 1
      /\ r[1] # NewLine => Len(r) - 1 \in 1..Len(r) /\ r[Len(r) - 1] = NewLine
  BY <1>4, RestOfRequest
<1>6. r[1] # NewLine
  <2>1. SUFFICES ASSUME r[1] = NewLine PROVE FALSE
    OBVIOUS
  <2>2. 1 \in 1..Len(r)
    BY <1>5
  <2>3. Byte(0) = r[1]
    BY <1>1, <1>2, <1>4, <1>5, <2>1, <2>2, LineOfText
  <2>4. QED
    BY <1>1, <2>1, <2>3 DEF EmptyLine
<1>7. /\ WholeLength = n /\ n \in 1..Buffered /\ n \in 1..(Len(r) - 1) /\ r[n] = NewLine
  <2>1. Len(r) - 1 \in 1..Len(r) /\ r[Len(r) - 1] = NewLine
    BY <1>5, <1>6
  <2>2. /\ WholeLength = text_length /\ text_length \in 1..Buffered
        /\ text_length \in 1..(Len(r) - 1) /\ r[text_length] = NewLine
    BY <1>1, <1>2, <1>4, <1>5, <2>1, LineOfText
  <2>3. QED
    BY <2>2 DEF n
<1> DEFINE m  == SubSeq(r, 1, n)
           r2 == SubSeq(r, n + 1, Len(r))
           p2 == p \o m
<1>8. /\ m \in Seq(Octet) /\ Len(m) = n /\ m[n] = NewLine /\ r2 \in Seq(Octet) /\ r = m \o r2
      /\ n \in Nat /\ n > 0
  <2>1. n \in 1..Len(r) /\ n \in 1..n /\ n \in Nat /\ n > 0
    BY <1>5, <1>7
  <2>2. /\ m \in Seq(Octet) /\ Len(m) = n /\ r2 \in Seq(Octet) /\ r = m \o r2
        /\ \A i \in 1..n : m[i] = r[i]
    BY <2>1, CutAt
  <2> HIDE DEF m, r2
  <2>3. QED
    BY <1>7, <2>1, <2>2
<1> HIDE DEF m, r2
<1>9. Partly(u, p2, r2)
  <2>1. Len(r) = Len(m) + Len(r2) /\ Len(r2) \in Nat
    BY <1>8, ConcatProperties, LenProperties
  <2>2. Len(r2) > 0
    BY <1>5, <1>7, <1>8, <2>1
  <2>3. IsRequest(u) /\ u = p \o r
    BY <1>4 DEF Partly
  <2>4. u = p2 \o r2
    <3>1. Joined(p, m, r2)
      BY <1>8, AllJoined
    <3>2. QED
      BY <1>8, <2>3, <3>1, Zenon DEF Joined
  <2>5. Len(p2) = Len(p) + n /\ p2[Len(p) + n] = m[n]
    <3>1. /\ Len(p2) = Len(p) + Len(m)
          /\ \A i \in 1..(Len(p) + Len(m)) : p2[i] = IF i <= Len(p) THEN p[i] ELSE m[i - Len(p)]
      BY <1>8, ConcatProperties
    <3>2. /\ Len(p) + n \in 1..(Len(p) + Len(m)) /\ ~(Len(p) + n <= Len(p))
          /\ (Len(p) + n) - Len(p) = n
      BY <1>5, <1>8
    <3> HIDE DEF p2
    <3>3. QED
      BY <1>8, <3>1, <3>2
  <2> HIDE DEF p2
  <2>6. QED
    BY <1>5, <1>8, <2>2, <2>3, <2>4, <2>5 DEF Partly
<1>10. InRbuf \o input = m \o (r2 \o v) /\ r2 \o v \in Seq(Octet) /\ p2 \in Seq(Octet)
  <2>1. Joined(m, r2, v)
    BY <1>4, <1>8, AllJoined
  <2>2. InRbuf \o input = m \o (r2 \o v)
    BY <1>4, <1>8, <2>1, Zenon DEF Joined
  <2>3. QED
    BY <1>4, <1>8, <2>2, ConcatProperties
<1> HIDE DEF p2
<1>11. /\ InRbuf' \o input' = r2 \o v /\ UNCHANGED rbuffer
       /\ rbufhead' \in 0..RbufSize /\ rbuftail' \in rbufhead'..RbufSize
  <2>1. Len(m) \in 1..Buffered /\ taken(Len(m)) /\ UNCHANGED input
    BY <1>1, <1>7, <1>8
  <2>2. QED
    BY <1>2, <1>8, <1>10, <2>1, TakenIsFirst
<1>12. RequestTypes'
  BY <1>1, <1>2, <1>11 DEF RequestTypes
<1>13. Unanswered(q)'
  BY <1>1, <1>3, <1>8, <1>9, <1>10, <1>11 DEF Unanswered, u, v
<1>14. Answers(done, q)'
  BY <1>1, <1>3, <1>13 DEF Answers, Answered
<1>15. QED
  BY <1>3, <1>12, <1>14 DEF RequestsInv

(* The empty line ends the request, which is answered.                     *)
LEMMA CommandIsSound ==
    ASSUME RequestsInv, command
    PROVE  RequestsInv'
<1>1. /\ rpc = "headers" /\ WholeLength > 0 /\ EmptyLine /\ taken(WholeLength)
      /\ UNCHANGED <<asked, input, hungup>>
      /\ rpc' \in {"quit", "select"}
  BY DEF command
<1>2. PICK status \in Statuses(Request[request]) : rtsp_reply(request, status)
  BY DEF command
<1>3. status \in Status
  BY <1>2 DEF Statuses, rtsp_cmd_describe, rtsp_cmd_options, Refusals, Status
<1>4. RequestTypes
  BY DEF RequestsInv
<1>5. PICK done \in Seq(Unit), q \in Seq(Unit), p \in Seq(Octet), r \in Seq(Octet) :
         /\ q # <<>> /\ asked = done \o q /\ Answered = Firsts(Requests(done))
         /\ request = Head(q)[1] /\ Partly(Head(q), p, r)
         /\ InRbuf \o input = r \o FlattenSeq(Tail(q))
  BY <1>1, BeingRead
<1> DEFINE u == Head(q)
           v == FlattenSeq(Tail(q))
<1>6. /\ u \in Unit /\ u \in Seq(Octet) /\ u[1] \in Octet /\ v \in Seq(Octet)
      /\ InRbuf \o input = r \o v /\ Partly(u, p, r)
  BY <1>5, FirstUnit, UnitShape
<1> HIDE DEF u, v
<1>7. /\ Len(r) \in Nat /\ Len(r) > 0 /\ u[1] # Dollar /\ r[1] # Dollar
      /\ r[1] = NewLine => Len(r) = 1
  BY <1>6, RestOfRequest
<1>8. Buffered \in Nat /\ Buffered > 0
  BY <1>1, <1>4, RbufBytes DEF WholeLength
<1>9. r[1] = NewLine
  <2>1. Byte(0) = r[1]
    BY <1>4, <1>6, <1>7, <1>8, RbufStarts
  <2>2. QED
    BY <1>1, <2>1 DEF EmptyLine
<1>10. Len(r) = 1 /\ WholeLength = 1
  <2>1. Len(r) = 1 /\ 1 \in 1..Len(r)
    BY <1>7, <1>9
  <2>2. WholeLength = text_length /\ text_length \in 1..1
    BY <1>1, <1>4, <1>6, <1>7, <1>9, <2>1, LineOfText
  <2>3. QED
    BY <2>1, <2>2
<1>11. /\ InRbuf' \o input' = v /\ UNCHANGED rbuffer
       /\ rbufhead' \in 0..RbufSize /\ rbuftail' \in rbufhead'..RbufSize
  <2>1. Len(r) \in 1..Buffered /\ taken(Len(r)) /\ UNCHANGED input
    BY <1>1, <1>8, <1>10
  <2>2. QED
    BY <1>4, <1>6, <2>1, TakenIsFirst
<1>12. /\ Answered' = Append(Answered, u[1])
       /\ answers' \in Seq([to : Octet, status : Status])
  <2>1. rtsp_reply(u[1], status)
    BY <1>2, <1>5 DEF u
  <2>2. QED
    BY <1>3, <1>4, <1>6, <2>1, AnswerAppends
<1>13. Firsts(Requests(Append(done, u))) = Append(Firsts(Requests(done)), u[1])
  BY <1>6, <1>7, FirstsAppend
<1>14. RequestTypes'
  BY <1>1, <1>4, <1>11, <1>12 DEF RequestTypes
<1>15. Answered' = Firsts(Requests(Append(done, u)))
  BY <1>5, <1>12, <1>13
<1>16. UNCHANGED asked /\ rpc' \in {"select", "quit"} /\ asked = done \o q /\ q # <<>>
  BY <1>1, <1>5
<1>17. QED
  BY <1>11, <1>14, <1>15, <1>16, WholeIsTaken DEF u, v

-----------------------------------------------------------------------------
(* At first nothing is sent, and nothing to be answered.                   *)
LEMMA RequestsInvInit ==
    ASSUME RequestsInit
    PROVE  RequestsInv
<1>1. RequestTypes
  BY RequestsAssumption, EmptySeq DEF RequestsInit, RequestTypes, Octet
<1>2. InRbuf = <<>>
  BY DEF RequestsInit, InRbuf, Slice, Buffered
<1>3. Without({u \in Unit : u[1] = Dollar}, <<>>) = <<>>
  BY WithoutEmpty
<1>4. Answered = <<>> /\ Firsts(Requests(<<>>)) = <<>>
  <2>1. Requests(<<>>) = <<>>
    BY <1>3 DEF Requests
  <2>2. Answered = <<>>
    BY DEF RequestsInit, Answered
  <2>3. Firsts(<<>>) = <<>>
    BY DEF Firsts
  <2>4. QED
    BY <2>1, <2>2, <2>3
<1>5. InRbuf \o input = FlattenSeq(<<>>) /\ rpc = "select"
  BY <1>2, FlattenEmpty DEF RequestsInit
<1>6. asked = <<>> \o <<>> /\ <<>> \in Seq(Unit)
  BY EmptySeq DEF RequestsInit
<1>7. Answers(<<>>, <<>>)
  BY <1>4, <1>5, <1>6 DEF Answers, Unanswered
<1>8. QED
  BY <1>1, <1>6, <1>7 DEF RequestsInv

(* Every step keeps the bookkeeping of what is answered.                   *)
LEMMA RequestsInvStep ==
    ASSUME RequestsInv, [RequestsNext]_requestvars
    PROVE  RequestsInv'
<1>1. CASE UNCHANGED requestvars
  <2>1. UNCHANGED <<asked, input, buffer, rpc, request, answers>> /\ rpc' = rpc
    BY <1>1 DEF requestvars, buffer
  <2>2. rpc' \in {"select", "request", "headers", "quit", "overrun"}
    BY <2>1 DEF RequestsInv, RequestTypes
  <2>3. QED
    BY <2>1, <2>2, SameRbuf, SameStreamIsSound
<1>2. CASE \E u \in Unit : client_asks(u)
  BY <1>2, SendingIsSound
<1>3. CASE client_hangs_up \/ select \/ rtsp_getnext_fails \/ buffer_overruns
             \/ \E k \in 1..RbufSize : rtsp_read_internal(k)
  BY <1>3, OtherStepsAreSound
<1>4. CASE handle_rtcp
  BY <1>4, PacketIsTaken
<1>5. CASE request_line
  BY <1>5, RequestLineIsSound
<1>6. CASE header_line
  BY <1>6, HeaderLineIsSound
<1>7. CASE command
  BY <1>7, CommandIsSound
<1>8. QED
  BY <1>1, <1>2, <1>3, <1>4, <1>5, <1>6, <1>7 DEF RequestsNext, Session_thread

(* What is answered is the beginning of what was asked.                    *)
LEMMA AnswersPrefix ==
    ASSUME RequestsInv
    PROVE  AnsweredInOrder
<1>1. PICK done \in Seq(Unit), q \in Seq(Unit) : Answers(done, q)
  BY DEF RequestsInv
<1> DEFINE X == {u \in Unit : u[1] = Dollar}
           s == Requests(done)
           t == Requests(q)
<1>2. asked = done \o q /\ Answered = Firsts(s)
  BY <1>1 DEF Answers
<1>3. s \in Seq(Unit) /\ t \in Seq(Unit) /\ Requests(asked) = s \o t
  <2>1. s = Without(X, done) /\ t = Without(X, q) /\ Requests(asked) = Without(X, done \o q)
    BY <1>2 DEF Requests
  <2> HIDE DEF X, s, t
  <2>2. /\ Without(X, done) \in Seq(Unit) /\ Without(X, q) \in Seq(Unit)
        /\ Without(X, done \o q) = Without(X, done) \o Without(X, q)
    <3>1. Without(X, done) \in Seq(Unit) /\ Without(X, q) \in Seq(Unit)
      BY WithoutType
    <3>2. Without(X, done \o q) = Without(X, done) \o Without(X, q)
      BY WithoutConcat
    <3>3. QED
      BY <3>1, <3>2
  <2>3. QED
    BY <2>1, <2>2
<1> HIDE DEF s, t
<1>4. /\ Len(s) \in Nat /\ Len(t) \in Nat /\ Len(s \o t) = Len(s) + Len(t)
      /\ \A i \in 1..(Len(s) + Len(t)) : (s \o t)[i] = IF i <= Len(s) THEN s[i] ELSE t[i - Len(s)]
  BY <1>3, ConcatProperties, LenProperties
<1>5. /\ Lines = [i \in 1..(Len(s) + Len(t)) |-> (s \o t)[i][1]]
      /\ Answered = [i \in 1..Len(s) |-> s[i][1]]
  BY <1>2, <1>3, <1>4 DEF Lines, Firsts
<1>6. Len(Answered) = Len(s) /\ Len(Lines) = Len(s) + Len(t)
  BY <1>4, <1>5
<1>7. \A i \in 1..Len(Answered) : i \in 1..Len(Lines) /\ Answered[i] = Lines[i]
  BY <1>4, <1>5, <1>6
<1>8. QED
  BY <1>4, <1>6, <1>7 DEF AnsweredInOrder, IsPrefix

(* However read cuts the connection, the requests of a client are answered *)
(* in the order in which they were sent, each once, and no packet of RTCP  *)
(* is taken for one.  A packet longer than buf overruns it, and the model  *)
(* says nothing of what the thread does after that.                        *)
THEOREM AnsweredInOrderCorrect == RequestsSpec => []AnsweredInOrder
<1>1. RequestsInit => RequestsInv
  BY RequestsInvInit
<1>2. RequestsInv /\ [RequestsNext]_requestvars => RequestsInv'
  BY RequestsInvStep
<1>3. RequestsInv => AnsweredInOrder
  BY AnswersPrefix
<1>4. QED
  BY <1>1, <1>2, <1>3, PTL DEF RequestsSpec
=============================================================================
