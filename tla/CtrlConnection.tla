--------------------------- MODULE CtrlConnection ---------------------------
(***************************************************************************)
(* The server's side of the controller (ctrl_server_thread of              *)
(* core/controller.cpp): it accepts a client, checks its handshake, and    *)
(* cuts what it receives into messages, which it replays.  Over TCP the    *)
(* messages are a stream of bytes that recv may cut anywhere; over UDP     *)
(* each datagram is a message, which may be lost, repeated or overtaken.   *)
(*                                                                         *)
(* A message starts with its size, itself included, in two bytes, the high *)
(* one first; a handshake with its size in one byte.                       *)
(***************************************************************************)
EXTENDS Integers, Sequences, SequencesExt

CONSTANTS Protos,      \* what a configuration may choose: "tcp", "udp"
          Client,
          Messages,    \* messages, as sequences of bytes
          Malformed,   \* datagrams that are none
          Handshakes,  \* what clients start with
          MyId,        \* the one that the server wants
          BufLen,      \* sizeof(buf)
          MaxSent,     \* bound: messages sent over TCP, or replayed over UDP
          MaxFlying,   \* bound: datagrams on the way from a client
          Tidy,        \* recv cuts no message but the first in the buffer
          NoClient

ASSUME ConnectionAssumption ==
    /\ Protos \subseteq {"tcp", "udp"} /\ Tidy \in BOOLEAN
    /\ NoClient \notin Client
    /\ BufLen \in Nat /\ MaxSent \in Nat /\ MaxFlying \in Nat
    /\ Messages \cup Malformed \cup Handshakes \cup {MyId} \subseteq Seq(0..255)
    /\ \A m \in Messages : Len(m) \in 2..BufLen /\ m[1] * 256 + m[2] = Len(m)
    /\ \A d \in Malformed :
          Len(d) <= BufLen /\ (Len(d) >= 2 => d[1] * 256 + d[2] # Len(d))
    /\ \A h \in Handshakes \cup {MyId} : Len(h) \in 1..BufLen /\ h[1] = Len(h)

VARIABLES
    ctrlproto,    \* conf->ctrlproto, one of Protos
    client,       \* client[c]: "absent", "connected", "accepted" or "closed"
    wire,         \* wire[c]: the bytes or datagrams on the way from c
    sent,         \* sent[c]: the messages c has sent over TCP
    pc,           \* where the server thread is
    cur,          \* the client it serves: of socket, or of csin
    buf, bufhead, buflen,
    replayed      \* the messages replayed since it accepted cur

netVars == <<client, wire, sent>>
bufVars == <<buf, bufhead, buflen>>
vars == <<ctrlproto, netVars, pc, cur, bufVars, replayed>>

TypeOK ==
    /\ ctrlproto \in Protos
    /\ client \in [Client -> {"absent", "connected", "accepted", "closed"}]
    /\ pc \in {"accept", "handshake", "recv", "parse"}
    /\ cur \in Client \cup {NoClient}
    /\ buf \in [0..BufLen - 1 -> 0..255]
    /\ bufhead \in 0..BufLen /\ buflen \in 0..BufLen - bufhead

Init ==
    /\ ctrlproto \in Protos
    /\ client = [c \in Client |-> "absent"]
    /\ wire = [c \in Client |-> <<>>]
    /\ sent = [c \in Client |-> <<>>]
    /\ pc = IF ctrlproto = "tcp" THEN "accept" ELSE "recv"
    /\ cur = NoClient
    /\ buf = [i \in 0..BufLen - 1 |-> 0]
    /\ bufhead = 0 /\ buflen = 0
    /\ replayed = <<>>

-----------------------------------------------------------------------------
(* The clients and the network.                                            *)

(* ctrl_client_init: over TCP a client connects and sends its handshake.   *)
connect(c, h) ==
    /\ client[c] = "absent"
    /\ client' = [client EXCEPT ![c] = IF ctrlproto = "tcp" THEN "connected" ELSE "accepted"]
    /\ wire' = [wire EXCEPT ![c] = IF ctrlproto = "tcp" THEN h ELSE <<>>]
    /\ UNCHANGED <<sent, pc, cur, bufVars, replayed>>

(* ctrl_client_thread sends the messages of its queue.                     *)
client_send(c, m) ==
    /\ client[c] \in {"connected", "accepted"}
    /\ \/ /\ ctrlproto = "tcp" /\ Len(sent[c]) < MaxSent
          /\ sent' = [sent EXCEPT ![c] = Append(@, m)]
          /\ wire' = [wire EXCEPT ![c] = @ \o m]
       \/ /\ ctrlproto = "udp" /\ Len(wire[c]) < MaxFlying
          /\ wire' = [wire EXCEPT ![c] = Append(@, m)]
          /\ UNCHANGED sent
    /\ UNCHANGED <<client, pc, cur, bufVars, replayed>>

client_close(c) ==
    /\ client[c] = "accepted" /\ ctrlproto = "tcp"
    /\ client' = [client EXCEPT ![c] = "closed"]
    /\ UNCHANGED <<wire, sent, pc, cur, bufVars, replayed>>

datagram_lost(c) ==
    /\ ctrlproto = "udp"
    /\ \E i \in 1..Len(wire[c]) : wire' = [wire EXCEPT ![c] = RemoveAt(@, i)]
    /\ UNCHANGED <<client, sent, pc, cur, bufVars, replayed>>

-----------------------------------------------------------------------------
(* The server thread.                                                      *)

accept(c) ==
    /\ pc = "accept"
    /\ client[c] = "connected"
    /\ client' = [client EXCEPT ![c] = "accepted"]
    /\ cur' = c
    /\ replayed' = <<>>
    /\ pc' = "handshake"
    /\ UNCHANGED <<wire, sent, bufVars>>

(* close(socket) and goto restart.                                         *)
restart ==
    /\ client' = [client EXCEPT ![cur] = "closed"]
    /\ wire' = [wire EXCEPT ![cur] = <<>>]
    /\ cur' = NoClient
    /\ pc' = "accept"
    /\ UNCHANGED sent

Received(k) == [i \in 0..BufLen - 1 |-> IF i \in buflen..buflen + k - 1
                                        THEN wire[cur][i - buflen + 1] ELSE buf[i]]

(* The handshake has come whole, and memcmp finds no difference: it        *)
(* compares as many bytes of the id as the handshake says it has, so that  *)
(* a handshake that breaks off within the id passes, too.  One byte that   *)
(* it compares, or more, is beyond the end of the handshake or of the id:  *)
(* they may differ.                                                        *)
Greets(k) ==
    LET n == wire[cur][1] IN
    /\ n <= k
    /\ \A i \in 2..n : i <= Len(MyId) => wire[cur][i] = MyId[i]

(* One recv for the handshake; whatever else came with it is forgotten.    *)
recv_handshake(k) ==
    /\ pc = "handshake"
    /\ k \in 1..BufLen /\ k <= Len(wire[cur])
    /\ Tidy => k = wire[cur][1]
    /\ buf' = [i \in 0..BufLen - 1 |-> IF i < k THEN wire[cur][i + 1] ELSE buf[i]]
    /\ bufhead' = 0 /\ buflen' = 0
    /\ \/ /\ Greets(k)
          /\ wire' = [wire EXCEPT ![cur] = SubSeq(@, k + 1, Len(@))]
          /\ pc' = "recv"
          /\ UNCHANGED <<client, sent, cur>>
       \/ restart
    /\ UNCHANGED replayed

(* What the buffer holds next: whole messages, or a part of one.           *)
WholeMessages ==
    {FlattenSeq(s) : s \in UNION {[1..n -> Messages] : n \in 1..MaxSent}}

TidyCut(k) ==
    LET b == [i \in 1..buflen |-> buf[i - 1]] \o SubSeq(wire[cur], 1, k) IN
    b \in WholeMessages \/ Len(b) < 2 \/ Len(b) <= b[1] * 256 + b[2]

Cuts == {k \in 1..BufLen - buflen : k <= Len(wire[cur]) /\ (Tidy => TidyCut(k))}

recv(k) ==
    /\ pc = "recv" /\ ctrlproto = "tcp"
    /\ k \in Cuts
    /\ buf' = Received(k)
    /\ buflen' = buflen + k
    /\ wire' = [wire EXCEPT ![cur] = SubSeq(@, k + 1, Len(@))]
    /\ pc' = "parse"
    /\ UNCHANGED <<client, sent, cur, bufhead, replayed>>

(* recv returns 0: the client has closed, or there is no room to read to.  *)
recv_end ==
    /\ pc \in {"handshake", "recv"} /\ ctrlproto = "tcp"
    /\ \/ client[cur] = "closed" /\ wire[cur] = <<>>
       \/ pc = "recv" /\ buflen = BufLen
    /\ restart
    /\ bufhead' = 0 /\ buflen' = 0
    /\ UNCHANGED <<buf, replayed>>

(* recvfrom: a datagram of any client replaces what is in the buffer, and  *)
(* its sender becomes the one client.                                      *)
recvfrom(c, d, again) ==
    /\ pc = "recv" /\ ctrlproto = "udp"
    /\ \/ \E i \in 1..Len(wire[c]) :
            /\ d = wire[c][i]
            /\ wire' = IF again THEN wire ELSE [wire EXCEPT ![c] = RemoveAt(@, i)]
       \/ d \in Malformed /\ client[c] = "accepted" /\ UNCHANGED wire
    /\ buf' = [i \in 0..BufLen - 1 |-> IF i < Len(d) THEN d[i + 1] ELSE buf[i]]
    /\ bufhead' = 0
    /\ buflen' = Len(d)
    /\ cur' = c
    /\ pc' = "parse"
    /\ UNCHANGED <<client, sent, replayed>>

MsgLen == buf[bufhead] * 256 + buf[bufhead + 1]

(* The bytes that the size at bufhead claims; what is beyond the buffer    *)
(* may be anything, and is 0 here.                                         *)
Claimed == [i \in 1..MsgLen |-> IF bufhead + i <= BufLen THEN buf[bufhead + i - 1] ELSE 0]

parse_short ==
    /\ buflen < 2
    /\ pc' = "recv"
    /\ IF ctrlproto = "udp" THEN bufhead' = 0 ELSE UNCHANGED bufhead
    /\ UNCHANGED <<cur, buf, buflen, replayed>>

parse_zero ==
    /\ buflen >= 2 /\ MsgLen = 0
    /\ pc' = "recv"
    /\ bufhead' = 0
    /\ UNCHANGED <<cur, buf, buflen, replayed>>

(* The rest moves to the front of the buffer, but bufhead stays.           *)
parse_partial ==
    /\ ctrlproto = "tcp" /\ buflen >= 2 /\ buflen < MsgLen
    /\ buf' = [i \in 0..BufLen - 1 |-> IF i < buflen /\ bufhead + i < BufLen
                                       THEN buf[bufhead + i] ELSE buf[i]]
    /\ pc' = "recv"
    /\ UNCHANGED <<cur, bufhead, buflen, replayed>>

parse_mismatch ==
    /\ ctrlproto = "udp" /\ buflen >= 2 /\ MsgLen # 0 /\ buflen # MsgLen
    /\ pc' = "recv"
    /\ bufhead' = 0
    /\ UNCHANGED <<cur, buf, buflen, replayed>>

complete_anyway == buflen >= 2 /\ MsgLen # 0                          \* mutant
Complete ==
    /\ buflen >= 2 /\ MsgLen # 0
    /\ IF ctrlproto = "tcp" THEN buflen >= MsgLen ELSE buflen = MsgLen

forgets_rest ==                         \* mutant: the rest of the buffer is dropped
    /\ bufhead' = 0 /\ buflen' = 0 /\ pc' = "recv"
keep_rest ==
    IF ctrlproto = "tcp" /\ buflen > MsgLen
    THEN bufhead' = bufhead + MsgLen /\ buflen' = buflen - MsgLen /\ pc' = "parse"
    ELSE bufhead' = 0 /\ buflen' = 0 /\ pc' = "recv"

replay ==
    /\ Complete
    /\ replayed' = Append(replayed, Claimed)
    /\ keep_rest
    /\ UNCHANGED <<cur, buf>>

parse ==
    /\ pc = "parse"
    /\ parse_short \/ parse_zero \/ parse_partial \/ parse_mismatch \/ replay
    /\ UNCHANGED netVars

Server ==
    /\ UNCHANGED ctrlproto
    /\ \/ \E c \in Client : accept(c)
       \/ \E k \in 1..BufLen : recv_handshake(k) \/ recv(k)
       \/ recv_end
       \/ parse

Network ==
    /\ UNCHANGED ctrlproto
    /\ \E c \in Client : \/ \E h \in Handshakes : connect(c, h)
                         \/ \E m \in Messages : client_send(c, m)
                         \/ client_close(c)
                         \/ datagram_lost(c)

Datagrams ==
    /\ UNCHANGED ctrlproto
    /\ \E c \in Client, d \in Messages \cup Malformed, again \in BOOLEAN :
        Len(replayed) < MaxSent /\ recvfrom(c, d, again)

Next == Server \/ Network \/ Datagrams

Spec == Init /\ [][Next]_vars

(* The server thread runs; what a client does is its own business.         *)
FairSpec == Spec /\ WF_vars(Server)

-----------------------------------------------------------------------------
Serving == ctrlproto = "tcp" /\ pc \in {"recv", "parse"} /\ cur # NoClient

(***************************************************************************)
(* controller.cpp says "handle buffers for TCP" (line 440); ctrl-sdl.h     *)
(* says that "every message MUST start from a unsigned short message size" *)
(* (lines 36-37): only messages that were sent are replayed, each whole.   *)
(***************************************************************************)
MessagesIntact == \A i \in 1..Len(replayed) : replayed[i] \in Messages

(***************************************************************************)
(* What is replayed for a TCP client is what it has sent, in order, from   *)
(* its first message on, provided recv cuts no message but the first in    *)
(* the buffer.  Datagrams come in any order, but a message is replayed     *)
(* whole or not at all.                                                    *)
(***************************************************************************)
ReplayedInOrder == MessagesIntact /\ (Serving => IsPrefix(replayed, sent[cur]))

(***************************************************************************)
(* The server goes on to the next client only after it has replayed all    *)
(* that the last has sent, and every message of a served client is         *)
(* replayed.                                                               *)
(***************************************************************************)
LeavesNothing == [][Serving /\ cur' = NoClient => replayed = sent[cur]]_vars

EverythingReplayed ==
    /\ LeavesNothing
    /\ \A c \in Client : Serving /\ cur = c ~> cur # c \/ Len(replayed) = Len(sent[c])
=============================================================================
