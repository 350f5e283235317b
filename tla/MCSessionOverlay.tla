-------------------------- MODULE MCSessionOverlay --------------------------
(* SessionOverlay with a few overlays.  They share nothing but the screen,  *)
(* and liveness is checked: no symmetry is used.                            *)
EXTENDS SessionOverlay

CONSTANTS o1, o2, o3
=============================================================================
