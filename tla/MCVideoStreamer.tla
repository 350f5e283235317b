-------------------------- MODULE MCVideoStreamer --------------------------
(* VideoStreamer with screens of one and of two tiles.  Liveness is         *)
(* checked, so the interchangeable colours are not taken as symmetric.      *)
EXTENDS VideoStreamer

OneOrTwoTiles == {1, 2}
=============================================================================
