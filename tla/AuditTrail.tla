----------------------------- MODULE AuditTrail -----------------------------
(***************************************************************************)
(* What audit/AuditLogger promises the threads that call it: a log() call  *)
(* puts its event on the trail, at the end, once, before it returns, and   *)
(* nothing else ever changes the trail.                                    *)
(***************************************************************************)
EXTENDS Sequences

CONSTANTS Callers, Events

VARIABLES
    trail,      \* the events on record, oldest first
    stage,      \* each caller: "out", "asked", "recorded"
    asked       \* the event of each caller's present or last call

vars == <<trail, stage, asked>>

Init ==
    /\ trail = <<>>
    /\ stage = [c \in Callers |-> "out"]
    /\ asked \in [Callers -> Events]

Ask(c, e) ==
    /\ stage[c] = "out"
    /\ stage' = [stage EXCEPT ![c] = "asked"]
    /\ asked' = [asked EXCEPT ![c] = e]
    /\ UNCHANGED trail

Record(c) ==
    /\ stage[c] = "asked"
    /\ stage' = [stage EXCEPT ![c] = "recorded"]
    /\ trail' = Append(trail, asked[c])
    /\ UNCHANGED asked

Return(c) ==
    /\ stage[c] = "recorded"
    /\ stage' = [stage EXCEPT ![c] = "out"]
    /\ UNCHANGED <<trail, asked>>

Next == \E c \in Callers : (\E e \in Events : Ask(c, e)) \/ Record(c) \/ Return(c)

Spec == Init /\ [][Next]_vars
=============================================================================
