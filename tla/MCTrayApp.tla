----------------------------- MODULE MCTrayApp -----------------------------
(* An instance of TrayApp for TLC: two settings, two lists of users, one    *)
(* session thread, and a server that may refuse to boot.                    *)
EXTENDS TrayApp
=============================================================================
