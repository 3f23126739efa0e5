-------------------------- MODULE MCCtrlConnection --------------------------
(* Small instances of CtrlConnection.  Two messages of different sizes; the  *)
(* buffer holds the two and a part of a third.                              *)
EXTENDS CtrlConnection

M1 == <<0, 3, 7>>
M2 == <<0, 2>>
TwoMessages == {M1, M2}
Hello       == <<2, 9>>
OldHello    == <<2, 8>>
BrokenHello == <<1>>
Greetings   == {Hello, OldHello, BrokenHello}
Garbage     == {<<0>>, <<0, 0>>, <<0, 3>>}
=============================================================================
