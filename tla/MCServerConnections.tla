------------------------ MODULE MCServerConnections ------------------------
(* Small instances of AcceptLoop, with the threads of RtspServer, and of    *)
(* RtspRequests for TLC.  What a thread reads and what the threads do to    *)
(* each other share no state: a behaviour shows the one or the other.       *)
EXTENDS AcceptLoop, RtspRequests, TLC

CONSTANT video

VideoOnly == <<video>>

(* Request lines, by the byte that stands for them.                         *)
MCRequest ==
    [b \in 1..4 |->
        [cmd      |-> <<"DESCRIBE", "OPTIONS", "TEARDOWN", "RECORD">>[b],
         object   |-> b # 4,
         protocol |-> b # 4]]

(* Requests without and with a header, two that end the session, a packet   *)
(* of RTCP, a line that is too long, and two packets that are: for buf and  *)
(* for rbuffer.                                                             *)
MCUnit ==
    {<<1, NewLine, NewLine>>, <<2, NewLine, 9, NewLine, NewLine>>, <<3, NewLine, NewLine>>,
     <<4, NewLine>>, <<Dollar, 0, 0, 1, NewLine>>, <<1, 1, 1, 1, NewLine>>,
     <<Dollar, 0, 0, 2, 0, 0>>, <<Dollar, 0, 0, 3, 0, 0, 0>>}

ConnectionsInit == AcceptInit /\ RequestsInit

ConnectionsNext ==
    \/ asked = <<>> /\ ~hungup /\ AcceptNext /\ UNCHANGED requestvars
    \/ lpc = "listen" /\ RequestsNext /\ UNCHANGED acceptvars

ConnectionsSpec ==
    ConnectionsInit /\ [][ConnectionsNext]_<<acceptvars, requestvars>> /\ RequestsFairness
=============================================================================
