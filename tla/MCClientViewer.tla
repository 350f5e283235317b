--------------------------- MODULE MCClientViewer ---------------------------
(* Instances of ClientViewer for TLC; its constants are plain values.       *)
EXTENDS ClientViewer
=============================================================================
