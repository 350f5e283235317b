--------------------------- MODULE MCFileTransfer ---------------------------
(* FileTransfer on small instances: one path, its temporary file and that   *)
(* of the temporary file, and what clients declare of two blocks.           *)
EXTENDS FileTransfer, TLC

CONSTANTS s1, s2, b1, b2

TempOf == [n \in Asked |-> IF n = "x" THEN "x.part" ELSE "x.part.part"]

\* Two blocks as they were sent, and two blocks with another file's digest.
TwoBlocks == {[size |-> 2, sha256 |-> <<b1, b2>>]}
RightAndWrong == {[size |-> 2, sha256 |-> <<b1, b1>>], [size |-> 2, sha256 |-> <<b1>>]}

Symmetry == Permutations(Sessions)
=============================================================================
