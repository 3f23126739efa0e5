---------------------------- MODULE MCTimestamps ----------------------------
(* A small instance of Timestamps for TLC: two ticks to a second, and a    *)
(* fast and a slow frame rate against a slow and a fast sample rate; and   *)
(* the fast sample rate on Windows, where naps are whole milliseconds.     *)
EXTENDS Timestamps

SmallConf == {[video_fps |-> 2, audio_samplerate |-> 1, windows |-> FALSE],
              [video_fps |-> 1, audio_samplerate |-> 2, windows |-> FALSE],
              [video_fps |-> 1, audio_samplerate |-> 2, windows |-> TRUE]}
=============================================================================
