----------------------------- MODULE AuditLogger -----------------------------
(***************************************************************************)
(* audit/AuditLogger.{h,cpp}: the hash-chained CSV that every session      *)
(* thread of a server writes to, the resumption of the chain when a server *)
(* starts on an existing file, and what is left of a write that fails or   *)
(* that the death of the process cuts short.                               *)
(*                                                                         *)
(* A line of the file is a record: its kind says what a reader makes of it *)
(*   "header"  starts with the header's first column name                  *)
(*   "row"     one whole row and its chain field                           *)
(*   "glued"   something unfinished and, on the same line, a whole row     *)
(*   "torn"    something unfinished, with no chain field at its end        *)
(* SHA-256 is taken as free of collisions: a chain value is the sequence   *)
(* of the row texts hashed into it, and Genesis, 64 zeros, is the empty    *)
(* one.  The timestamp, the quoting and the names of the fields are in the *)
(* row text, which is one of Events.                                       *)
(***************************************************************************)
EXTENDS Naturals, Sequences, FiniteSets

CONSTANTS
    Processes,  \* the server processes that log to this file
    Threads,    \* the session threads of each (and its accept loop)
    Events,     \* the row texts
    MaxRows,    \* bound: no call begins once the file has that many lines or
                \* the chain that many rows
    MaxFaults   \* bound: crashes of a process and failed writes together

ASSUME BoundsAssumption == MaxRows \in Nat /\ MaxFaults \in Nat

VARIABLES
    lines,      \* the lines of the file that have their end-of-line
    tail,       \* what follows the last end-of-line
    ctor,       \* how far the constructor of each process's logger is
    good,       \* the state of out_
    prev,       \* prevChainHex_
    pc,         \* where each thread is in log()
    row,        \* the row each thread is writing
    faults

file == <<lines, tail>>
logger == <<ctor, good, prev>>
vars == <<file, logger, pc, row, faults>>

Callers == Processes \X Threads
Hashes == Seq(Events)
Genesis == <<>>

-----------------------------------------------------------------------------
(* Lines.                                                                  *)

\* A mutant of Hash: the row alone is hashed.
HashOfRowOnly(h, text) == <<text>>

\* sha256(prevChainHex_ || row)
Hash(h, text) == Append(h, text)

Kinds == {"empty", "header", "row", "glued", "torn"}
Bare(k) == [kind |-> k, text |-> <<>>, chain |-> Genesis]

\* An unterminated tail with nothing in it, and the line log() writes.
Empty == Bare("empty")
RowLine(r) == [kind |-> "row", text |-> <<r.text>>, chain |-> r.chain]

Line == {ln \in [kind : Kinds, text : {<<>>} \cup {<<e>> : e \in Events}, chain : Hashes] :
            /\ ln.kind = "row" <=> ln.text # <<>>
            /\ ln.kind \in {"row", "glued"} <=> ln.chain # Genesis}

\* What a write leaves on a line that is not empty.
Glue(before, piece) ==
    IF before.kind = "empty" THEN piece
    ELSE IF piece.kind = "empty" THEN before
    ELSE IF before.kind = "header" THEN before
    ELSE IF piece.kind = "row" THEN [piece EXCEPT !.kind = "glued", !.text = <<>>]
    ELSE Bare("torn")

\* What may be on disk of a line whose write did not complete: nothing, a part
\* without a whole last field, or all but the end-of-line.
Pieces(ln) == {Empty, Bare("torn"), ln}

\* The line the chain is resumed from, and the whole file as a reader sees it.
AllLines == IF tail.kind = "empty" THEN lines ELSE Append(lines, tail)
LastLine == IF tail.kind # "empty" THEN tail
            ELSE IF lines # <<>> THEN lines[Len(lines)] ELSE Empty

\* resumeChain(): the last field of the last line, when it is 64 long.
ResumedFrom(ln) == IF ln.kind \in {"row", "glued"} THEN ln.chain ELSE Genesis

-----------------------------------------------------------------------------
Init ==
    /\ lines = <<>>
    /\ tail = Empty
    /\ ctor = [p \in Processes |-> "closed"]
    /\ good = [p \in Processes |-> TRUE]
    /\ prev = [p \in Processes |-> Genesis]
    /\ pc = [c \in Callers |-> "out"]
    /\ row \in [Callers -> [text : Events, chain : {Genesis}]]
    /\ faults = 0

\* The end-of-line is what completes a write.
Put(ln) == lines' = Append(lines, Glue(tail, ln)) /\ tail' = Empty
PutPiece(ln) ==
    /\ faults < MaxFaults
    /\ faults' = faults + 1
    /\ \E piece \in Pieces(ln) : tail' = Glue(tail, piece)
    /\ UNCHANGED lines

\* The constructor looks whether there is anything in the file...
Probe(p) ==
    /\ ctor[p] = "closed"
    /\ ctor' = [ctor EXCEPT ![p] = IF AllLines = <<>> THEN "new" ELSE "existing"]
    /\ UNCHANGED <<file, good, prev, pc, row, faults>>

\* ...writes the header if not...
Create(p) ==
    /\ ctor[p] = "new"
    /\ ctor' = [ctor EXCEPT ![p] = "open"]
    /\ prev' = [prev EXCEPT ![p] = Genesis]
    /\ \/ /\ Put(Bare("header"))
          /\ good' = [good EXCEPT ![p] = TRUE]
          /\ UNCHANGED faults
       \/ /\ PutPiece(Bare("header"))
          /\ good' = [good EXCEPT ![p] = FALSE]
    /\ UNCHANGED <<pc, row>>

\* ...and takes up the chain if so.
Resume(p) ==
    /\ ctor[p] = "existing"
    /\ ctor' = [ctor EXCEPT ![p] = "open"]
    /\ good' = [good EXCEPT ![p] = TRUE]
    /\ prev' = [prev EXCEPT ![p] = ResumedFrom(LastLine)]
    /\ UNCHANGED <<file, pc, row, faults>>

\* The server returns from main() between two calls.
Close(p) ==
    /\ ctor[p] = "open"
    /\ \A t \in Threads : pc[<<p, t>>] = "out"
    /\ ctor' = [ctor EXCEPT ![p] = "closed"]
    /\ UNCHANGED <<file, good, prev, pc, row, faults>>

\* The process ends where it is.  Every write that completed was flushed; one
\* under way may be on disk in part.
Crash(p) ==
    /\ ctor[p] # "closed"
    /\ ctor' = [ctor EXCEPT ![p] = "closed"]
    /\ pc' = [c \in Callers |-> IF c[1] = p THEN "out" ELSE pc[c]]
    /\ \/ \E t \in Threads : /\ pc[<<p, t>>] = "in"
                             /\ good[p]
                             /\ PutPiece(RowLine(row[<<p, t>>]))
       \/ ctor[p] = "new" /\ PutPiece(Bare("header"))
       \/ faults < MaxFaults /\ faults' = faults + 1 /\ UNCHANGED file
    /\ UNCHANGED <<good, prev, row>>

-----------------------------------------------------------------------------
(* log(): wait for mu_, build the row on prevChainHex_, write it and flush, *)
(* advance prevChainHex_, release mu_.                                      *)

\* The call.
Call(c, e) ==
    /\ ctor[c[1]] = "open"
    /\ pc[c] = "out"
    /\ Len(lines) < MaxRows /\ Len(prev[c[1]]) < MaxRows
    /\ pc' = [pc EXCEPT ![c] = "wait"]
    /\ row' = [row EXCEPT ![c] = [text |-> e, chain |-> Genesis]]
    /\ UNCHANGED <<file, logger, faults>>

MutexFree(p) == \A t \in Threads : pc[<<p, t>>] \in {"out", "wait"}

\* A mutant of Lock: the row carries the chain it is hashed with.
LockKeepsChain(c) ==
    /\ pc[c] = "wait"
    /\ MutexFree(c[1])
    /\ pc' = [pc EXCEPT ![c] = "in"]
    /\ row' = [row EXCEPT ![c].chain = prev[c[1]]]
    /\ UNCHANGED <<file, logger, faults>>

Lock(c) ==
    /\ pc[c] = "wait"
    /\ MutexFree(c[1])
    /\ pc' = [pc EXCEPT ![c] = "in"]
    /\ row' = [row EXCEPT ![c].chain = Hash(prev[c[1]], row[c].text)]
    /\ UNCHANGED <<file, logger, faults>>

\* The row reaches the file, up to its end-of-line.
Write(c) ==
    /\ pc[c] = "in"
    /\ good[c[1]]
    /\ pc' = [pc EXCEPT ![c] = "wrote"]
    /\ Put(RowLine(row[c]))
    /\ UNCHANGED <<logger, row, faults>>

\* A mutant of WriteFails: the error state of the stream is cleared.
WriteFailsClears(c) ==
    /\ pc[c] = "in"
    /\ good[c[1]]
    /\ pc' = [pc EXCEPT ![c] = "wrote"]
    /\ PutPiece(RowLine(row[c]))
    /\ UNCHANGED <<logger, row>>

\* The stream fails; the code does not look at its state.
WriteFails(c) ==
    /\ pc[c] = "in"
    /\ good[c[1]]
    /\ pc' = [pc EXCEPT ![c] = "wrote"]
    /\ good' = [good EXCEPT ![c[1]] = FALSE]
    /\ PutPiece(RowLine(row[c]))
    /\ UNCHANGED <<ctor, prev, row>>

\* Once it has failed, every later << and flush() does nothing.
WriteIgnored(c) ==
    /\ pc[c] = "in"
    /\ ~good[c[1]]
    /\ pc' = [pc EXCEPT ![c] = "wrote"]
    /\ UNCHANGED <<file, logger, row, faults>>

\* A mutant of Return: a call gives up instead of writing.
ReturnUnwritten(c) ==
    /\ pc[c] \in {"in", "wrote"}
    /\ pc' = [pc EXCEPT ![c] = "out"]
    /\ prev' = [prev EXCEPT ![c[1]] = row[c].chain]
    /\ UNCHANGED <<file, ctor, good, row, faults>>

Return(c) ==
    /\ pc[c] = "wrote"
    /\ pc' = [pc EXCEPT ![c] = "out"]
    /\ prev' = [prev EXCEPT ![c[1]] = row[c].chain]
    /\ UNCHANGED <<file, ctor, good, row, faults>>

Log(c) == (\E e \in Events : Call(c, e)) \/ Lock(c) \/ Write(c) \/ WriteFails(c)
              \/ WriteIgnored(c) \/ Return(c)
Run(p) == Probe(p) \/ Create(p) \/ Resume(p) \/ Close(p) \/ Crash(p)

Next == (\E p \in Processes : Run(p)) \/ (\E c \in Callers : Log(c))

Spec == Init /\ [][Next]_vars

-----------------------------------------------------------------------------
(* Properties.                                                             *)

\* Every variable has its type: a row on the file or in the making carries a
\* chain value that a row was hashed into, everything else has none.
TypeOK ==
    /\ lines \in Seq(Line \ {Empty})
    /\ tail \in Line
    /\ ctor \in [Processes -> {"closed", "new", "existing", "open"}]
    /\ good \in [Processes -> BOOLEAN]
    /\ prev \in [Processes -> Hashes]
    /\ pc \in [Callers -> {"out", "wait", "in", "wrote"}]
    /\ row \in [Callers -> [text : Events, chain : Hashes]]
    /\ faults \in 0 .. MaxFaults

\* What an auditor recomputes (tests/test_main.cpp, verifyAuditChain): the
\* first line is the header, every other one a row whose chain field is the
\* hash of the chain field before it and the row.
ChainBefore(ls, i) == IF i = 2 THEN Genesis ELSE ls[i - 1].chain
Verifies(ls) ==
    \A i \in 2 .. Len(ls) : /\ ls[i].kind = "row"
                            /\ <<ls[i].chain>> = <<Hash(ChainBefore(ls, i), ls[i].text[1])>>

\* What an edit of the history can make of the file: a row removed that is not
\* the last, a row's text changed, two rows exchanged.
Without(ls, i) == [k \in 1 .. Len(ls) - 1 |-> IF k < i THEN ls[k] ELSE ls[k + 1]]
Retold(ls, i, e) == [ls EXCEPT ![i].text = <<e>>]
Exchanged(ls, i, j) == [ls EXCEPT ![i] = ls[j], ![j] = ls[i]]

\* Until a write fails or the process dies the file verifies at every moment,
\* whatever the order in which the threads got mu_ and however often the server
\* was stopped and started; and deleting, editing or reordering rows of its
\* history makes the recomputation fail (AuditLogger.h:9, "breaks the chain and
\* is detectable").  The last row is the exception: nothing shows its deletion.
TamperEvident ==
    LET ls == AllLines
    IN  faults = 0 =>
            /\ Verifies(ls)
            /\ \A i \in 2 .. Len(ls) :
                  /\ i < Len(ls) => ~Verifies(Without(ls, i))
                  /\ \A e \in Events : <<e>> # ls[i].text => ~Verifies(Retold(ls, i, e))
                  /\ \A j \in i + 1 .. Len(ls) : ~Verifies(Exchanged(ls, i, j))

\* Whatever failed or crashed before: of two whole rows on consecutive lines
\* the second is chained to the first.  A failed write, which log() does not
\* notice, a crash and the resumption after either never put a row on the file
\* that is chained to anything but the row it follows.
NeighboursChained ==
    \A i \in 2 .. Len(AllLines) :
        (AllLines[i].kind = "row" /\ AllLines[i - 1].kind = "row")
            => AllLines[i].chain = Append(AllLines[i - 1].chain, AllLines[i].text[1])

\* Refinement: the rows of the file are the trail of the abstract log, and
\* every log() call is on it, once, before it returns - in every step until
\* something fails.
Recorded == [i \in 1 .. Len(lines) - 1 |-> lines[i + 1].text[1]]
Stage == [c \in Callers |-> IF pc[c] \in {"wait", "in"} THEN "asked"
                            ELSE IF pc[c] = "wrote" THEN "recorded" ELSE "out"]
Asked == [c \in Callers |-> row[c].text]

Trail == INSTANCE AuditTrail WITH trail <- Recorded, stage <- Stage, asked <- Asked
TrailSpec == Trail!Init /\ [][faults' = 0 => [Trail!Next]_(Trail!vars)]_vars

-----------------------------------------------------------------------------
(* What a comment says of the logger and a run refutes.                    *)

\* AuditLogger.h:50, "resumes the hash chain from the last row": whatever stands
\* between two rows on the file, the later one goes on with the chain of the
\* earlier, also when the server was started anew in between.
Chained == {i \in DOMAIN lines : lines[i].chain # Genesis}
ChainSurvivesCrash ==
    \A i, j \in Chained :
        (i < j /\ Chained \cap (i + 1 .. j - 1) = {})
            => \E e \in Events : lines[j].chain = Append(lines[i].chain, e)
=============================================================================
