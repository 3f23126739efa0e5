---------------------------- MODULE MCRtspServer ----------------------------
(* Small instances of RtspServer for TLC.                                  *)
EXTENDS RtspServer, TLC

CONSTANTS video, audio

VideoAndAudio == <<video, audio>>
VideoOnly     == <<video>>

(* Connections are interchangeable; thread ids are chosen (CHOOSE).        *)
Symmetry == Permutations(Client)
=============================================================================
