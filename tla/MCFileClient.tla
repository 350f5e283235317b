---------------------------- MODULE MCFileClient ----------------------------
(***************************************************************************)
(* FileClient for TLC: files of no, one and two blocks.                    *)
(***************************************************************************)
EXTENDS FileClient

CONSTANTS b1, b2
MCContents == {<<>>, <<b1>>, <<b1, b2>>}
=============================================================================
