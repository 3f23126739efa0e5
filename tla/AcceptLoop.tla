----------------------------- MODULE AcceptLoop -----------------------------
(***************************************************************************)
(* The thread that accepts RTSP connections (rtspserver_main in            *)
(* core/server.cpp) and the descriptors of the connections, with the       *)
(* session threads of RtspServer.  A new thread gets the address of the    *)
(* loop's variable cs, and reads it when it begins; by then the loop may   *)
(* have accepted the next connection.  The system gives a descriptor that  *)
(* is closed to a connection that comes.                                   *)
(***************************************************************************)
EXTENDS RtspServer

CONSTANT Fd      \* descriptors for connections

NoFd == NULL

VARIABLES
    lpc,         \* where the loop is
    cs,          \* the descriptor that accept has returned last
    open,        \* the descriptors with a connection
    starting,    \* threads that are created and have not begun
    fd,          \* fd[c]: ctx->fd of session thread c
    hurried      \* cs has changed before the thread it was for has read it

connectionVars == <<lpc, cs, open, starting, fd, hurried>>
acceptvars     == <<vars, connectionVars>>

AcceptInit ==
    /\ Init
    /\ lpc = "listen" /\ cs = NoFd
    /\ open = {} /\ starting = {}
    /\ fd = [c \in Client |-> NoFd]
    /\ hurried = FALSE

(* When the port cannot be had, or accept fails, the thread ends.           *)
listen ==
    /\ lpc = "listen"
    /\ lpc' \in {"accept", "ended"}
    /\ UNCHANGED <<vars, cs, open, starting, fd, hurried>>

accept_fails ==
    /\ lpc = "accept"
    /\ lpc' = "ended"
    /\ UNCHANGED <<vars, cs, open, starting, fd, hurried>>

accept_connection(f) ==
    /\ lpc = "accept"
    /\ f \in Fd \ open
    /\ open' = open \cup {f}
    /\ cs' = f
    /\ hurried' = (hurried \/ starting # {})
    /\ lpc' = "create"
    /\ UNCHANGED <<vars, starting, fd>>

create_thread(c) ==
    /\ lpc = "create"
    /\ pc[c] = "absent" /\ c \notin starting
    /\ starting' = starting \cup {c}
    /\ lpc' = "accept"
    /\ UNCHANGED <<vars, cs, open, fd, hurried>>

create_keeps_connection ==              \* mutant: close(cs) is missing
    /\ lpc = "create" /\ CreateFails
    /\ lpc' = "accept"
    /\ UNCHANGED <<vars, cs, open, starting, fd, hurried>>

create_thread_fails ==
    /\ lpc = "create" /\ CreateFails
    /\ open' = open \ {cs}
    /\ lpc' = "accept"
    /\ UNCHANGED <<vars, cs, starting, fd, hurried>>

(* s = *arg                                                                *)
thread_begins(c) ==
    /\ c \in starting
    /\ rtspserver(c)
    /\ starting' = starting \ {c}
    /\ fd' = [fd EXCEPT ![c] = cs]
    /\ UNCHANGED <<lpc, cs, open, hurried>>

(* Only a connection brings commands, but one that another thread has      *)
(* closed ends the session like one that its client has closed.            *)
serve(c) ==
    /\ (fd[c] \in open /\ Serve(c)) \/ quit(c)
    /\ UNCHANGED connectionVars

(* Whatever connection has the descriptor by now is closed.                *)
close_connection(c) ==
    /\ close_fd(c)
    /\ open' = open \ {fd[c]}
    /\ UNCHANGED <<lpc, cs, starting, fd, hurried>>

end_thread(c) ==
    /\ per_client_deinit(c)
    /\ fd' = [fd EXCEPT ![c] = NoFd]
    /\ UNCHANGED <<lpc, cs, open, starting, hurried>>

(* An encoder thread writes to a descriptor that its client's session has  *)
(* closed and a new connection has got.                                    *)
write_to_stranger(t) ==
    /\ tpc[t] \in {"header", "body"}
    /\ Closed(cur[t]) /\ fd[cur[t]] \in open
    /\ header_written(t) \/ body_written(t)
    /\ UNCHANGED connectionVars

other_steps ==
    /\ \/ \E c \in Client : \/ Register(c)
                            \/ Leave(c) /\ pc[c] \notin {"close", "deinit"}
       \/ \E t \in Tid : EncoderThread(t)
    /\ UNCHANGED connectionVars

AcceptNext ==
    /\ ~crashed
    /\ \/ listen \/ accept_fails \/ create_thread_fails
       \/ \E f \in Fd : accept_connection(f)
       \/ \E c \in Client : \/ create_thread(c) \/ thread_begins(c) \/ serve(c)
                            \/ close_connection(c) \/ end_thread(c)
       \/ \E t \in Tid : write_to_stranger(t)
       \/ other_steps

AcceptSpec == AcceptInit /\ [][AcceptNext]_acceptvars

-----------------------------------------------------------------------------
(***************************************************************************)
(* Unless connections come faster than threads begin, every connection has *)
(* one session thread that serves it, or gets one, and no thread serves a  *)
(* connection that is closed.  A session that cannot be set up             *)
(* (per_client_init) is the exception: its connection stays open with      *)
(* nobody to serve it.                                                     *)
(***************************************************************************)
Holds(c) == pc[c] \in {"serving", "reg", "create", "regfail", "played", "close", "orphan"}

ConnectionsServed ==
    ~hurried =>
        /\ \A f \in open : Cardinality({c \in Client : Holds(c) /\ fd[c] = f})
                           = IF f = cs /\ (lpc = "create" \/ starting # {}) THEN 0 ELSE 1
        /\ \A c \in Client : Holds(c) => fd[c] \in open
=============================================================================
