-------------------------- MODULE MCSecurityManager --------------------------
(* SecurityManager on a small instance.  Every username has an entry of its  *)
(* own, so one user is enough; the policy is as small as it can be and still *)
(* have a failure that locks nothing, a window that is over before the lock  *)
(* is, and time for an account to be locked twice.                           *)
EXTENDS SecurityManager
=============================================================================
