----------------------------- MODULE FileRequest -----------------------------
(***************************************************************************)
(* What a command of the client promises to whoever ran it: the request is *)
(* carried out at most once, it is answered once, and the answer "done" is *)
(* only given when it was carried out.  The answer "failed" promises       *)
(* nothing: the request may have been carried out, or may still be.        *)
(***************************************************************************)
EXTENDS Naturals

VARIABLES
    done,   \* how often it was carried out
    answer  \* the exit code, 0 for success

Init == done = 0 /\ answer = "none"

CarryOut == done = 0 /\ done' = 1 /\ UNCHANGED answer

Answer(a) ==
    /\ answer = "none"
    /\ a = "done" => done = 1
    /\ answer' = a
    /\ UNCHANGED done

Next == CarryOut \/ \E a \in {"done", "failed"} : Answer(a)

Spec == Init /\ [][Next]_<<done, answer>>
=============================================================================
