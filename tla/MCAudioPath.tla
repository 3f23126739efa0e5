---------------------------- MODULE MCAudioPath ----------------------------
(* Small instances of three parts of the sound's way, which share no state: *)
(* SoundCapture and AudioPath, on the server, and SoundPlayer, in the       *)
(* client.  A behaviour shows one of them.  On the server a frame of three  *)
(* samples is no multiple of a chunk and no divisor of the buffer.          *)
EXTENDS AudioPath, SoundCapture, SoundPlayer

(* Packets of one or two frames; of one that fits or just does not, with    *)
(* one behind it that is left no room; and of one in the middle.            *)
MCPacketSizes == {<<1>>, <<2, 1>>, <<5, 1>>, <<1, 6, 2>>}

SoundPathInit == Init /\ CaptureInit /\ SoundInit

PathIdle    == captured = 0 /\ apc = "off" /\ ~launched
CaptureIdle == cpc = "call" /\ wframes = 0 /\ now = 0
PlayerIdle  == packets = 0 /\ fpc = "idle"

SoundPathNext ==
    \/ CaptureIdle /\ PlayerIdle /\ Next /\ UNCHANGED <<capturevars, soundvars>>
    \/ PathIdle /\ PlayerIdle /\ CaptureNext /\ UNCHANGED <<vars, soundvars>>
    \/ PathIdle /\ CaptureIdle /\ SoundNext /\ UNCHANGED <<vars, capturevars>>

SoundPathSpec ==
    /\ SoundPathInit /\ [][SoundPathNext]_<<vars, capturevars, soundvars>>
    /\ WF_vars(Encoder) /\ WF_vars(join)
=============================================================================
