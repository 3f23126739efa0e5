--------------------------- MODULE MCClientPlayer ---------------------------
(* A client of one video and one audio stream, for TLC (MCClient.cfg).      *)
EXTENDS ClientPlayer

MCMedia == <<"video", "audio">>
=============================================================================
