----------------------------- MODULE MCServerApp -----------------------------
(* ServerApp on a small instance: the rights of the accounts are sets.      *)
EXTENDS ServerApp

\* One user may control the screen, another only view it.
TwoAccounts == {{"RemoteScreenControl"}, {"RemoteScreenView"}}
=============================================================================
