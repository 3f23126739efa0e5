---------------------------- MODULE RtspRequests ----------------------------
(***************************************************************************)
(* What a session thread reads from its connection (core/rtspserver.cpp):  *)
(* lines of text, of which a request line and headers up to an empty line  *)
(* make a request, and between requests packets of RTCP, which start with  *)
(* a dollar and have their length in two bytes.  read cuts the stream      *)
(* anywhere; what it brings is kept in rbuffer between rbufhead and        *)
(* rbuftail.  The thread waits in select before every request.             *)
(*                                                                         *)
(* A request line is one byte here, which Request gives the meaning of,    *)
(* and the end of the line; headers are left out but for the empty line.   *)
(* What SETUP, PLAY, PAUSE and TEARDOWN do is in module RtspServer.        *)
(***************************************************************************)
EXTENDS Integers, Sequences, SequencesExt, ListOps

CONSTANTS Unit,       \* what a client sends at a time: requests and packets of RTCP
          Request,    \* Request[b]: the command, object and protocol of request line b
          RbufSize,   \* rbufsize: 65536
          TextMax,    \* what fits into buf with the zero after it: 8191
          MaxUnits,   \* bound: units sent
          NoRequest

NewLine == 10
Dollar  == 36

(* The first word decides nothing yet; the last must be the protocol.      *)
OfProtocol(line) == line \in DOMAIN Request /\ Request[line].protocol

(* A request ends with its only empty line, and no header is a dollar's.   *)
IsRequest(u) ==
    /\ Len(u) >= 3 /\ u[1] # Dollar
    /\ u[Len(u) - 1] = NewLine /\ u[Len(u)] = NewLine
    /\ \A i \in 2..Len(u) :
          u[i - 1] = NewLine => u[i] # Dollar /\ (u[i] = NewLine => i = Len(u))

IsPacket(u) == u[1] = Dollar /\ Len(u) >= 4 /\ Len(u) = 4 + (u[3] * 256 + u[4])

(* Lines that end the session: of another protocol, or too long.           *)
EndsSession(u) ==
    /\ u[1] # Dollar
    /\ \/ ~OfProtocol(u[1])
       \/ Len(u) > TextMax /\ \A i \in 1..TextMax : u[i] # NewLine

ASSUME RequestsAssumption ==
    /\ RbufSize \in Nat /\ RbufSize >= 4 /\ TextMax \in Nat /\ MaxUnits \in Nat
    /\ NoRequest \notin DOMAIN Request
    /\ Unit \subseteq Seq(0..255)
    /\ \A u \in Unit : Len(u) >= 1 /\ (IsRequest(u) \/ IsPacket(u) \/ EndsSession(u))

VARIABLES
    asked,       \* the units that the client has sent
    input,       \* the bytes on the way
    hungup,      \* the client has closed the connection
    rbuffer, rbufhead, rbuftail,
    rpc,         \* where the session thread is
    request,     \* the request line that it has read
    answers      \* its answers: to which request, and their status

requestvars == <<asked, input, hungup, rbuffer, rbufhead, rbuftail, rpc, request, answers>>
buffer      == <<rbuffer, rbufhead, rbuftail>>

RequestsInit ==
    /\ asked = <<>> /\ input = <<>> /\ hungup = FALSE
    /\ rbuffer = [i \in 0..RbufSize - 1 |-> 0]      \* whatever malloc returns
    /\ rbufhead = 0 /\ rbuftail = 0
    /\ rpc = "select"
    /\ request = NoRequest
    /\ answers = <<>>

-----------------------------------------------------------------------------
(* The client.                                                             *)

client_asks(u) ==
    /\ ~hungup /\ Len(asked) < MaxUnits
    /\ asked' = Append(asked, u)
    /\ input' = input \o u
    /\ UNCHANGED <<hungup, buffer, rpc, request, answers>>

client_hangs_up ==
    /\ ~hungup
    /\ hungup' = TRUE
    /\ UNCHANGED <<asked, input, buffer, rpc, request, answers>>

-----------------------------------------------------------------------------
(* Reading: a line or a packet that is whole is taken from the buffer;     *)
(* otherwise what is there moves to the front and more is read.            *)

Reading == rpc \in {"request", "headers"}

Buffered == rbuftail - rbufhead

Byte(i) == rbuffer[rbufhead + i]

line_ends_inside == {i \in 0..Buffered - 2 : Byte(i) = NewLine}        \* mutant
LineEnds == {i \in 0..Buffered - 1 : Byte(i) = NewLine}

IsBinary == Buffered > 0 /\ Byte(0) = Dollar

(* The length of the line or packet at the head; 0 while it is not whole.  *)
text_length == IF LineEnds = {} THEN 0
               ELSE 1 + CHOOSE i \in LineEnds : \A j \in LineEnds : i <= j

binary_unframed == Buffered                                            \* mutant
binary_length ==
    LET reqlength == Byte(2) * 256 + Byte(3) IN
    IF Buffered < 4 \/ 4 + reqlength > Buffered THEN 0 ELSE 4 + reqlength

WholeLength == IF Buffered = 0 THEN 0
               ELSE IF IsBinary THEN binary_length ELSE text_length

TooLong == ~IsBinary /\ text_length > TextMax

(* rtsp_read_binary does not ask how long buf is.                          *)
Overruns == IsBinary /\ binary_length > TextMax + 1

(* head and tail return to the front when they meet.                       *)
taken(n) ==
    /\ rbufhead' = IF rbufhead + n = rbuftail THEN 0 ELSE rbufhead + n
    /\ rbuftail' = IF rbufhead + n = rbuftail THEN 0 ELSE rbuftail
    /\ UNCHANGED rbuffer

(* rtsp_read_internal, after the rest of the buffer has moved.             *)
Moved == [i \in 0..RbufSize - 1 |-> IF i < Buffered THEN Byte(i) ELSE rbuffer[i]]

rtsp_read_internal(k) ==
    /\ Reading /\ WholeLength = 0
    /\ k \in 1..Len(input) /\ k <= RbufSize - Buffered
    /\ rbuffer' = [i \in 0..RbufSize - 1 |->
                     IF i \in Buffered..Buffered + k - 1 THEN input[i - Buffered + 1]
                                                         ELSE Moved[i]]
    /\ rbufhead' = 0 /\ rbuftail' = Buffered + k
    /\ input' = SubSeq(input, k + 1, Len(input))
    /\ UNCHANGED <<asked, hungup, rpc, request, answers>>

(* The end of the connection, a full buffer, or a line too long for buf.   *)
rtsp_getnext_fails ==
    /\ Reading
    /\ \/ WholeLength = 0 /\ input = <<>> /\ hungup
       \/ WholeLength = 0 /\ Buffered = RbufSize
       \/ WholeLength > 0 /\ TooLong
    /\ rpc' = "quit"
    /\ UNCHANGED <<asked, input, hungup, buffer, request, answers>>

(* A packet longer than buf is copied over what lies behind it on the      *)
(* stack.  What the thread does then is undefined: the model says nothing  *)
(* of it, and ends here.                                                   *)
buffer_overruns ==
    /\ Reading /\ Overruns
    /\ rpc' = "overrun"
    /\ UNCHANGED <<asked, input, hungup, buffer, request, answers>>

-----------------------------------------------------------------------------
(* The loop of rtspserver.                                                 *)

select ==
    /\ rpc = "select"
    /\ input # <<>> \/ hungup
    /\ rpc' = "request"
    /\ UNCHANGED <<asked, input, hungup, buffer, request, answers>>

handle_rtcp ==
    /\ rpc = "request" /\ WholeLength > 0 /\ IsBinary /\ ~Overruns
    /\ taken(WholeLength)
    /\ rpc' = "select"
    /\ UNCHANGED <<asked, input, hungup, request, answers>>

(* What a command is answered with.  The commands of a session may also be *)
(* refused.                                                                *)
rtsp_cmd_describe(r) == {IF r.object THEN "OK" ELSE "SERVICE"}
rtsp_cmd_options     == {"OK"}
Refusals             == {"SESSION", "STATE", "TRANSPORT"}

Statuses(r) ==
    CASE r.cmd = "DESCRIBE" -> rtsp_cmd_describe(r)
      [] r.cmd = "OPTIONS"  -> rtsp_cmd_options
      [] r.cmd \in {"SETUP", "PLAY", "PAUSE", "TEARDOWN"} -> {"OK"} \cup Refusals
      [] OTHER -> {"METHOD"}

rtsp_reply(line, status) == answers' = Append(answers, [to |-> line, status |-> status])

request_line ==
    /\ rpc = "request" /\ WholeLength > 0 /\ ~IsBinary /\ ~TooLong
    /\ taken(WholeLength)
    /\ \/ /\ OfProtocol(Byte(0))
          /\ request' = Byte(0)
          /\ rpc' = "headers"
          /\ UNCHANGED answers
       \/ /\ ~OfProtocol(Byte(0))
          /\ rtsp_reply(Byte(0), "VERSION")
          /\ rpc' = "quit"
          /\ UNCHANGED request
    /\ UNCHANGED <<asked, input, hungup>>

EmptyLine == Byte(0) = NewLine

header_line ==
    /\ rpc = "headers" /\ WholeLength > 0 /\ ~TooLong /\ ~Overruns /\ ~EmptyLine
    /\ taken(WholeLength)
    /\ UNCHANGED <<asked, input, hungup, rpc, request, answers>>

command ==
    /\ rpc = "headers" /\ WholeLength > 0 /\ EmptyLine
    /\ taken(WholeLength)
    /\ \E status \in Statuses(Request[request]) :
         /\ rtsp_reply(request, status)
         /\ rpc' = IF Request[request].cmd = "TEARDOWN" /\ status = "OK"
                   THEN "quit" ELSE "select"
    /\ request' = NoRequest
    /\ UNCHANGED <<asked, input, hungup>>

Session_thread ==
    \/ select
    \/ \E k \in 1..RbufSize : rtsp_read_internal(k)
    \/ rtsp_getnext_fails \/ buffer_overruns
    \/ handle_rtcp \/ request_line \/ header_line \/ command

RequestsNext ==
    \/ \E u \in Unit : client_asks(u)
    \/ client_hangs_up
    \/ Session_thread

RequestsSpec == RequestsInit /\ [][RequestsNext]_requestvars

(* The session thread runs; what the client does is its own business.      *)
RequestsFairness == WF_requestvars(Session_thread)

-----------------------------------------------------------------------------
Requests(units) == Without({u \in Unit : u[1] = Dollar}, units)

Firsts(units) == [i \in 1..Len(units) |-> units[i][1]]

Lines == Firsts(Requests(asked))

Answered == [i \in 1..Len(answers) |-> answers[i].to]

(* select waits for more input although what it waits for is in rbuffer.   *)
WaitsInVain == rpc = "select" /\ input = <<>> /\ WholeLength > 0

(***************************************************************************)
(* However read cuts the connection, the requests are answered in the      *)
(* order in which they were sent and each once, and packets of RTCP are    *)
(* not taken for requests; of a session whose buf was overrun by a packet, *)
(* this is said of the answers before it.                                  *)
(***************************************************************************)
AnsweredInOrder == IsPrefix(Answered, Lines)

(***************************************************************************)
(* A client that has sent requests gets all the answers, unless the        *)
(* session ends.  There are two exceptions: a request that came in with    *)
(* the packet or request before it, as select waits for the next byte of   *)
(* the client; and a client that sent a packet longer than buf             *)
(* (rtspserver.cpp:188), after which nothing is promised.                  *)
(***************************************************************************)
RequestsAnswered ==
    []<>(Answered = Lines \/ rpc \in {"quit", "overrun"} \/ WaitsInVain)
=============================================================================
