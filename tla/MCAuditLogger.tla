---------------------------- MODULE MCAuditLogger ----------------------------
(* AuditLogger on a small instance.  Threads, and row texts, are           *)
(* interchangeable.                                                        *)
EXTENDS AuditLogger, TLC

Symmetry == Permutations(Threads) \cup Permutations(Events)
=============================================================================
