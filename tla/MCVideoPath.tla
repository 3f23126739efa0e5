---------------------------- MODULE MCVideoPath ----------------------------
(* Small instances of the two ends of a video stream: of VideoPath, the     *)
(* server's (MCVideo.cfg, in which frames never run out, MCVideoFatal.cfg   *)
(* for the filter's exit), and of UnitAssembly, the client's (MCVideo.cfg). *)
(* They share no state: a behaviour shows the one or the other.             *)
EXTENDS VideoPath, UnitAssembly

(* Units of one to three pieces; two of them fit the private buffer or are  *)
(* too large for it, depending on the framing, one piece is larger than the *)
(* sink's buffer, and one is empty.                                         *)
MCUnitSizes == {<<1>>, <<2, 1>>, <<1, 2, 1>>, <<2, 2, 2>>, <<3, 1>>, <<1, 0>>}

PathInit == Init /\ UnitInit

PathNext ==
    \/ unit = 0 /\ epoch = 0 /\ Next /\ UNCHANGED unitvars
    \/ spc = "check" /\ fpc = "start" /\ epc = "none" /\ ~threadLaunched
       /\ UnitNext /\ UNCHANGED vars

PathSpec == PathInit /\ [][PathNext]_<<vars, unitvars>> /\ Fairness
=============================================================================
