--------------------------- MODULE MCRemoteInput ---------------------------
(* Small instance of RemoteInput.  Over TCP, one user has two keys which    *)
(* the machines represent by one; the other has a key that a Mac has not,   *)
(* and that is alone on Windows, and a mouse button.  Over UDP both have    *)
(* the button.                                                              *)
(* All messages have three bytes; the buffer holds two of them and a part   *)
(* of a third.                                                              *)
EXTENDS RemoteInput, TLC

CONSTANTS c1, c2

MCToggled ==
    [tcp |-> (c1 :> {"comma", "less"} @@ c2 :> {"pause", "left"}),
     udp |-> [c \in Client |-> {"left"}]]

MCMachines == {[backend |-> b, width |-> 4, height |-> 4] : b \in {"gdi", "osx"}}

Code(m) ==
    (IF m.msgtype = "mousekey" THEN 1
     ELSE CASE m.sdlkey = "comma" -> 3 [] m.sdlkey = "less" -> 5 [] m.sdlkey = "pause" -> 7)
    + (IF m.is_pressed THEN 1 ELSE 0)

MCWire       == [m \in ToggleMessages |-> <<0, 3, Code(m)>>]
MCMessages   == {MCWire[m] : m \in ToggleMessages}
Hello        == <<2, 9>>
OldHello     == <<2, 8>>
BrokenHello  == <<1>>
Greetings    == {Hello, OldHello, BrokenHello}
Garbage      == {<<0>>, <<0, 0>>, <<0, 3>>}
=============================================================================
