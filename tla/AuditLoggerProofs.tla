-------------------------- MODULE AuditLoggerProofs --------------------------
(***************************************************************************)
(* Proofs about AuditLogger for any threads, row texts and bounds, and one *)
(* server process: the types, that whole rows next to each other are       *)
(* chained whatever fails; and that, until something fails, the whole file *)
(* verifies, gives every edit of its history away, and is the trail that   *)
(* AuditTrail promises the callers.                                        *)
(***************************************************************************)
EXTENDS AuditLogger, TLAPS

USE DEF file, logger, Callers

-----------------------------------------------------------------------------
(* Lines.                                                                  *)

LEMMA BareIsLine == /\ Empty \in Line
                    /\ Bare("header") \in Line
                    /\ Bare("torn") \in Line
BY DEF Empty, Bare, Line, Kinds, Hashes, Genesis

LEMMA RowIsLine ==
    ASSUME NEW r \in [text : Events, chain : Hashes], r.chain # Genesis
    PROVE  RowLine(r) \in Line
BY DEF RowLine, Line, Kinds, Hashes, Genesis

\* Completing or extending a line gives a line, and not an empty one unless
\* both parts are.
LEMMA GlueIsLine ==
    ASSUME NEW a \in Line, NEW b \in Line
    PROVE  /\ Glue(a, b) \in Line
           /\ Glue(a, b).kind = "empty" => a.kind = "empty" /\ b.kind = "empty"
           /\ Glue(a, b).kind = "row" => \/ a.kind = "empty" /\ b.kind = "row"
                                         \/ b.kind = "empty" /\ Glue(a, b) = a
<1>1. CASE a.kind = "empty"
  BY <1>1 DEF Glue, Line, Kinds
<1>2. CASE a.kind # "empty" /\ b.kind = "empty"
  BY <1>2 DEF Glue, Line, Kinds
<1>3. CASE a.kind = "header" /\ b.kind # "empty"
  BY <1>3 DEF Glue, Line, Kinds
<1>4. CASE a.kind \notin {"empty", "header"} /\ b.kind = "row"
  BY <1>4 DEF Glue, Line, Kinds, Hashes, Genesis
<1>5. CASE a.kind \notin {"empty", "header"} /\ b.kind \notin {"empty", "row"}
  BY <1>5, BareIsLine DEF Glue, Line, Kinds, Bare
<1>6. QED
  BY <1>1, <1>2, <1>3, <1>4, <1>5

LEMMA EmptyKind ==
    ASSUME NEW ln \in Line
    PROVE  ln.kind = "empty" <=> ln = Empty
BY DEF Line, Empty, Bare, Hashes, Genesis

-----------------------------------------------------------------------------
(* The types.                                                              *)

\* What the types need besides: a row that is being written has its hash.
InMaking == \A c \in Callers : pc[c] \in {"in", "wrote"} => row[c].chain # Genesis
TypeInv == TypeOK /\ InMaking

LEMMA PutType ==
    ASSUME lines \in Seq(Line \ {Empty}), tail \in Line,
           NEW ln \in Line, ln.kind # "empty", Put(ln)
    PROVE  /\ lines' \in Seq(Line \ {Empty})
           /\ tail' \in Line
<1>1. Glue(tail, ln) \in Line /\ Glue(tail, ln).kind # "empty"
  BY GlueIsLine
<1>2. Glue(tail, ln) \in Line \ {Empty}
  BY <1>1, EmptyKind, BareIsLine
<1>3. QED
  BY <1>2, BareIsLine DEF Put

LEMMA PutPieceType ==
    ASSUME TypeOK, NEW ln \in Line, PutPiece(ln)
    PROVE  /\ lines' \in Seq(Line \ {Empty})
           /\ tail' \in Line
           /\ faults' \in 0 .. MaxFaults
<1>1. Pieces(ln) \subseteq Line
  BY BareIsLine DEF Pieces
<1>2. tail' \in Line
  BY <1>1, GlueIsLine DEF PutPiece, TypeOK
<1>3. faults' \in 0 .. MaxFaults
  BY BoundsAssumption DEF PutPiece, TypeOK
<1>4. QED
  BY <1>2, <1>3 DEF PutPiece, TypeOK

LEMMA RowsInMaking ==
    ASSUME TypeInv, NEW c \in Callers, pc[c] \in {"in", "wrote"}
    PROVE  RowLine(row[c]) \in Line /\ RowLine(row[c]).kind = "row"
BY RowIsLine DEF TypeInv, TypeOK, InMaking, RowLine

LEMMA ResumedType ==
    ASSUME TypeOK
    PROVE  LastLine \in Line /\ ResumedFrom(LastLine) \in Hashes
<1>1. LastLine \in Line
  BY BareIsLine DEF TypeOK, LastLine
<1>2. QED
  BY <1>1 DEF ResumedFrom, Line, Hashes, Genesis

LEMMA TypeInit == Init => TypeInv
<1> SUFFICES ASSUME Init PROVE TypeInv
  OBVIOUS
<1>1. TypeOK
  <2>1. lines \in Seq(Line \ {Empty}) /\ tail \in Line
    BY BareIsLine DEF Init
  <2>2. row \in [Callers -> [text : Events, chain : Hashes]]
    <3>1. Genesis \in Hashes
      BY DEF Hashes, Genesis
    <3>2. [text : Events, chain : {Genesis}] \subseteq [text : Events, chain : Hashes]
      BY <3>1
    <3>3. QED
      BY <3>2 DEF Init
  <2>3. ctor \in [Processes -> {"closed", "new", "existing", "open"}] /\ prev \in [Processes -> Hashes]
    BY DEF Init, Hashes, Genesis
  <2>4. good \in [Processes -> BOOLEAN]
    BY DEF Init
  <2>5. pc \in [Callers -> {"out", "wait", "in", "wrote"}]
    BY DEF Init
  <2>6. faults \in 0 .. MaxFaults
    BY BoundsAssumption DEF Init
  <2>7. QED
    BY <2>1, <2>2, <2>3, <2>4, <2>5, <2>6 DEF TypeOK
<1>2. InMaking
  BY DEF Init, InMaking
<1>3. QED
  BY <1>1, <1>2 DEF TypeInv

LEMMA TypeStep == TypeInv /\ [Next]_vars => TypeInv'
<1> SUFFICES ASSUME TypeInv, [Next]_vars PROVE TypeInv'
  OBVIOUS
<1> USE DEF TypeInv
<1>1. ASSUME NEW p \in Processes, Probe(p) PROVE TypeInv'
  BY <1>1 DEF Probe, TypeOK, InMaking
<1>2. ASSUME NEW p \in Processes, Create(p) PROVE TypeInv'
  <2>1. lines' \in Seq(Line \ {Empty}) /\ tail' \in Line /\ faults' \in 0 .. MaxFaults
    <3>1. CASE Put(Bare("header")) /\ UNCHANGED faults
      <4>1. Bare("header").kind # "empty"
        BY DEF Bare
      <4>2. QED
        BY <3>1, <4>1, PutType, BareIsLine DEF TypeOK
    <3>2. CASE PutPiece(Bare("header"))
      BY <3>2, PutPieceType, BareIsLine
    <3>3. QED
      BY <1>2, <3>1, <3>2 DEF Create
  <2>2. prev' \in [Processes -> Hashes]
    BY <1>2 DEF Create, TypeOK, Hashes, Genesis
  <2>3. good' \in [Processes -> BOOLEAN]
    BY <1>2 DEF Create, TypeOK
  <2>4. QED
    BY <1>2, <2>1, <2>2, <2>3 DEF Create, TypeOK, InMaking
<1>3. ASSUME NEW p \in Processes, Resume(p) PROVE TypeInv'
  <2>1. good' \in [Processes -> BOOLEAN]
    BY <1>3 DEF Resume, TypeOK
  <2>2. QED
    BY <1>3, <2>1, ResumedType DEF Resume, TypeOK, InMaking
<1>4. ASSUME NEW p \in Processes, Close(p) PROVE TypeInv'
  BY <1>4 DEF Close, TypeOK, InMaking
<1>5. ASSUME NEW p \in Processes, Crash(p) PROVE TypeInv'
  <2>1. lines' \in Seq(Line \ {Empty}) /\ tail' \in Line /\ faults' \in 0 .. MaxFaults
    <3>1. ASSUME NEW t \in Threads, pc[<<p, t>>] = "in", PutPiece(RowLine(row[<<p, t>>]))
          PROVE  lines' \in Seq(Line \ {Empty}) /\ tail' \in Line /\ faults' \in 0 .. MaxFaults
      <4>1. RowLine(row[<<p, t>>]) \in Line
        BY <3>1, RowsInMaking
      <4>2. QED
        BY <3>1, <4>1, PutPieceType
    <3>2. CASE PutPiece(Bare("header"))
      BY <3>2, PutPieceType, BareIsLine
    <3>3. CASE faults < MaxFaults /\ faults' = faults + 1 /\ UNCHANGED file
      BY <3>3, BoundsAssumption DEF file, TypeOK
    <3>4. QED
      BY <1>5, <3>1, <3>2, <3>3 DEF Crash
  <2>2. pc' \in [Callers -> {"out", "wait", "in", "wrote"}]
    BY <1>5 DEF Crash, TypeOK
  <2>3. InMaking'
    BY <1>5 DEF Crash, TypeOK, InMaking
  <2>4. QED
    BY <1>5, <2>1, <2>2, <2>3 DEF Crash, TypeOK
<1>6. ASSUME NEW c \in Callers, NEW e \in Events, Call(c, e) PROVE TypeInv'
  <2>1. row' \in [Callers -> [text : Events, chain : Hashes]]
    BY <1>6 DEF Call, TypeOK, Hashes, Genesis
  <2>2. QED
    BY <1>6, <2>1 DEF Call, TypeOK, InMaking
<1>7. ASSUME NEW c \in Callers, Lock(c) PROVE TypeInv'
  <2>1. c[1] \in Processes
    OBVIOUS
  <2>2. Hash(prev[c[1]], row[c].text) \in Hashes \ {Genesis}
    <3>1. prev[c[1]] \in Seq(Events) /\ row[c].text \in Events
      BY <2>1 DEF TypeOK, Hashes
    <3>2. Append(prev[c[1]], row[c].text) \in Seq(Events) /\ Append(prev[c[1]], row[c].text) # <<>>
      BY <3>1
    <3>3. QED
      BY <3>2 DEF Hash, Hashes, Genesis
  <2>3. row' \in [Callers -> [text : Events, chain : Hashes]]
    BY <1>7, <2>2 DEF Lock, TypeOK
  <2>4. InMaking'
    BY <1>7, <2>2 DEF Lock, TypeOK, InMaking
  <2>5. QED
    BY <1>7, <2>3, <2>4 DEF Lock, TypeOK
<1>8. ASSUME NEW c \in Callers, Write(c) PROVE TypeInv'
  <2>1. lines' \in Seq(Line \ {Empty}) /\ tail' \in Line
    <3>1. RowLine(row[c]) \in Line /\ RowLine(row[c]).kind # "empty"
      BY <1>8, RowsInMaking DEF Write
    <3>2. QED
      BY <1>8, <3>1, PutType DEF Write, TypeOK
  <2>2. QED
    BY <1>8, <2>1 DEF Write, TypeOK, InMaking
<1>9. ASSUME NEW c \in Callers, WriteFails(c) PROVE TypeInv'
  <2>1. lines' \in Seq(Line \ {Empty}) /\ tail' \in Line /\ faults' \in 0 .. MaxFaults
    <3>1. RowLine(row[c]) \in Line
      BY <1>9, RowsInMaking DEF WriteFails
    <3>2. QED
      BY <1>9, <3>1, PutPieceType DEF WriteFails
  <2>2. good' \in [Processes -> BOOLEAN]
    BY <1>9 DEF WriteFails, TypeOK
  <2>3. QED
    BY <1>9, <2>1, <2>2 DEF WriteFails, TypeOK, InMaking
<1>10. ASSUME NEW c \in Callers, WriteIgnored(c) PROVE TypeInv'
  BY <1>10 DEF WriteIgnored, TypeOK, InMaking
<1>11. ASSUME NEW c \in Callers, Return(c) PROVE TypeInv'
  BY <1>11 DEF Return, TypeOK, InMaking
<1>12. CASE UNCHANGED vars
  BY <1>12 DEF vars, TypeOK, InMaking
<1>13. QED
  BY <1>1, <1>2, <1>3, <1>4, <1>5, <1>6, <1>7, <1>8, <1>9, <1>10, <1>11, <1>12
     DEF Next, Run, Log

\* The variables keep their types, for any processes, threads and faults:
\* whatever writes and crashes leave, every line of the file has a chain field
\* exactly when a row that was hashed ends it.
THEOREM TypeCorrect == Spec => []TypeOK
<1>1. Init => TypeInv
  BY TypeInit
<1>2. TypeInv /\ [Next]_vars => TypeInv'
  BY TypeStep
<1>3. TypeInv => TypeOK
  BY DEF TypeInv
<1>4. QED
  BY <1>1, <1>2, <1>3, PTL DEF Spec

LEMMA TypeInvariant == Spec => []TypeInv
BY TypeInit, TypeStep, PTL DEF Spec

-----------------------------------------------------------------------------
(* One server process: neighbouring rows are chained, whatever fails.      *)

IsRow(ln) == ln.kind = "row"
Follows(ln, before) == IsRow(ln) /\ IsRow(before) => ln.chain = Append(before.chain, ln.text[1])

LinesChained == \A i \in 2 .. Len(lines) : Follows(lines[i], lines[i - 1])
TailChained == lines # <<>> => Follows(tail, lines[Len(lines)])
FileChained == LinesChained /\ TailChained

\* mu_ is held by one thread, and only while the logger exists.
Exclusive == \A c, d \in Callers :
    pc[c] \in {"in", "wrote"} /\ pc[d] \in {"in", "wrote"} /\ c[1] = d[1] => c = d
WhileOpen == \A c \in Callers : pc[c] # "out" => ctor[c[1]] = "open"

\* While the stream of process p is good, prevChainHex_ is the chain value at
\* the end of the file, but between the write and its update.
Current(p) ==
    ctor[p] = "open" /\ good[p] /\ (\A t \in Threads : pc[<<p, t>>] # "wrote") /\ IsRow(LastLine)
        => prev[p] = LastLine.chain
Wrote(c) == pc[c] = "wrote" /\ good[c[1]] /\ IsRow(LastLine) => row[c].chain = LastLine.chain
Hashed(c) == pc[c] = "in" => row[c].chain = Append(prev[c[1]], row[c].text)

ChainInv ==
    /\ FileChained
    /\ Exclusive
    /\ WhileOpen
    /\ \A p \in Processes : Current(p)
    /\ \A c \in Callers : Wrote(c) /\ Hashed(c)

OneProcess == \A p, q \in Processes : p = q

LEMMA PutChains ==
    ASSUME lines \in Seq(Line \ {Empty}), tail \in Line, FileChained,
           NEW ln \in Line, ln.kind # "empty", Put(ln), Follows(ln, LastLine)
    PROVE  /\ FileChained'
           /\ IsRow(LastLine') => IsRow(ln) /\ LastLine' = ln
<1> DEFINE g == Glue(tail, ln)
<1>1. g \in Line /\ g.kind # "empty"
  BY GlueIsLine
<1>2. IsRow(g) => tail.kind = "empty" /\ g = ln
  BY GlueIsLine DEF IsRow, Glue
<1>3. lines' = Append(lines, g) /\ tail' = Empty
  BY DEF Put
<1>4. LastLine' = g
  BY <1>3 DEF LastLine, Empty, Bare
<1>5. lines # <<>> => Follows(g, lines[Len(lines)])
  BY <1>2 DEF Follows, LastLine
<1> HIDE DEF g
<1>6. LinesChained'
  <2> SUFFICES ASSUME NEW i \in 2 .. Len(lines) + 1
               PROVE  Follows(Append(lines, g)[i], Append(lines, g)[i - 1])
    BY <1>3 DEF LinesChained, Follows, IsRow
  <2>1. CASE i \in 2 .. Len(lines)
    BY <2>1 DEF FileChained, LinesChained
  <2>2. CASE i = Len(lines) + 1
    BY <2>2, <1>5
  <2>3. QED
    BY <2>1, <2>2
<1>7. TailChained'
  BY <1>3 DEF TailChained, Follows, IsRow, Empty, Bare
<1>8. QED
  BY <1>2, <1>4, <1>6, <1>7 DEF FileChained, IsRow

LEMMA PutPieceChains ==
    ASSUME lines \in Seq(Line \ {Empty}), tail \in Line, FileChained,
           NEW ln \in Line, PutPiece(ln), Follows(ln, LastLine)
    PROVE  FileChained'
<1>1. PICK piece \in Pieces(ln) : tail' = Glue(tail, piece)
  BY DEF PutPiece
<1>2. piece \in Line
  BY BareIsLine DEF Pieces
<1>3. UNCHANGED lines
  BY DEF PutPiece
<1>4. ASSUME lines # <<>>, IsRow(tail'), IsRow(lines[Len(lines)])
      PROVE  tail'.chain = Append(lines[Len(lines)].chain, tail'.text[1])
  <2>1. CASE tail.kind = "empty" /\ piece.kind = "row"
    <3>1. tail' = piece
      BY <1>1, <2>1 DEF Glue
    <3>2. piece = ln
      BY <2>1 DEF Pieces, Empty, Bare
    <3>3. LastLine = lines[Len(lines)]
      BY <2>1, <1>4 DEF LastLine
    <3>4. QED
      BY <3>1, <3>2, <3>3, <1>4 DEF Follows
  <2>2. CASE tail' = tail
    BY <2>2, <1>4 DEF FileChained, TailChained, Follows
  <2>3. QED
    BY <1>1, <1>2, <1>4, <2>1, <2>2, GlueIsLine DEF IsRow
<1>5. TailChained'
  BY <1>3, <1>4 DEF TailChained, Follows, IsRow
<1>6. LinesChained'
  BY <1>3 DEF FileChained, LinesChained, Follows, IsRow
<1>7. QED
  BY <1>5, <1>6 DEF FileChained

\* The row a thread holds in the critical section fits the end of the file.
LEMMA RowFits ==
    ASSUME TypeInv, ChainInv, NEW c \in Callers, pc[c] = "in", good[c[1]]
    PROVE  Follows(RowLine(row[c]), LastLine)
<1>1. PICK p \in Processes, t \in Threads : c = <<p, t>>
  OBVIOUS
<1>2. ctor[p] = "open"
  BY <1>1 DEF ChainInv, WhileOpen
<1>3. \A u \in Threads : pc[<<p, u>>] # "wrote"
  <2> SUFFICES ASSUME NEW u \in Threads, pc[<<p, u>>] = "wrote" PROVE FALSE
    OBVIOUS
  <2>1. <<p, u>> \in Callers /\ <<p, u>>[1] = c[1]
    BY <1>1
  <2>2. <<p, u>> = c
    BY <2>1 DEF ChainInv, Exclusive
  <2>3. QED
    BY <2>2
<1>4. IsRow(LastLine) => prev[p] = LastLine.chain
  BY <1>1, <1>2, <1>3 DEF ChainInv, Current
<1>5. row[c].chain = Append(prev[p], row[c].text)
  BY <1>1 DEF ChainInv, Hashed
<1>6. QED
  BY <1>4, <1>5 DEF Follows, RowLine

\* What a step leaves as it is when it touches neither the file nor a logger
\* nor a thread inside the critical section is put together from these parts.
LEMMA ChainInit == Init => ChainInv
BY DEF Init, ChainInv, FileChained, LinesChained, TailChained, Exclusive, WhileOpen,
       Current, Wrote, Hashed, Follows, IsRow, LastLine, Empty, Bare

LEMMA ChainStep ==
    ASSUME OneProcess, TypeInv, ChainInv, [Next]_vars
    PROVE  ChainInv'
<1> USE DEF ChainInv
<1>0. \A c \in Callers : c[1] \in Processes /\ c[2] \in Threads /\ c = <<c[1], c[2]>>
  OBVIOUS
<1>0a. \A p, q \in Processes : p = q
  BY DEF OneProcess
<1>0b. lines \in Seq(Line \ {Empty}) /\ tail \in Line
  BY DEF TypeInv, TypeOK
<1>0c. UNCHANGED file => FileChained' /\ LastLine' = LastLine
  BY DEF FileChained, LinesChained, TailChained, LastLine, Follows, IsRow, Empty, Bare
<1>1. ASSUME NEW p \in Processes, Probe(p) PROVE ChainInv'
  <2>1. UNCHANGED <<file, good, prev, pc, row>>
    BY <1>1 DEF Probe
  <2>2. WhileOpen' /\ \A q \in Processes : ctor'[q] = "open" => ctor[q] = "open"
    BY <1>0, <1>1 DEF Probe, WhileOpen, TypeInv, TypeOK
  <2>3. QED
    BY <1>0c, <2>1, <2>2 DEF Exclusive, Current, Wrote, Hashed, IsRow
<1>2. ASSUME NEW p \in Processes, Create(p) PROVE ChainInv'
  <2>1. \A c \in Callers : pc[c] = "out" /\ pc'[c] = "out"
    BY <1>0, <1>0a, <1>2 DEF Create, WhileOpen
  <2>2. Follows(Bare("header"), LastLine) /\ Bare("header").kind # "empty" /\ ~IsRow(Bare("header"))
    BY DEF Follows, IsRow, Bare
  <2>3. CASE Put(Bare("header"))
    <3>1. FileChained' /\ ~IsRow(LastLine')
      BY <1>0b, <2>2, <2>3, PutChains, BareIsLine
    <3>2. QED
      BY <2>1, <3>1 DEF Exclusive, WhileOpen, Current, Wrote, Hashed
  <2>4. CASE PutPiece(Bare("header")) /\ good' = [good EXCEPT ![p] = FALSE]
    <3>1. FileChained'
      BY <1>0b, <2>2, <2>4, PutPieceChains, BareIsLine
    <3>2. \A q \in Processes : ~good'[q]
      BY <1>0a, <2>4 DEF TypeInv, TypeOK
    <3>3. QED
      BY <2>1, <3>1, <3>2 DEF Exclusive, WhileOpen, Current, Wrote, Hashed
  <2>5. QED
    BY <1>2, <2>3, <2>4 DEF Create
<1>3. ASSUME NEW p \in Processes, Resume(p) PROVE ChainInv'
  <2>1. \A c \in Callers : pc[c] = "out" /\ pc'[c] = "out"
    BY <1>0, <1>0a, <1>3 DEF Resume, WhileOpen
  <2>2. FileChained' /\ LastLine' = LastLine
    BY <1>0c, <1>3 DEF Resume
  <2>3. \A q \in Processes : prev'[q] = ResumedFrom(LastLine)
    BY <1>0a, <1>3 DEF Resume, TypeInv, TypeOK
  <2>4. QED
    BY <2>1, <2>2, <2>3 DEF Exclusive, WhileOpen, Current, Wrote, Hashed, ResumedFrom, IsRow
<1>4. ASSUME NEW p \in Processes, Close(p) PROVE ChainInv'
  <2>1. UNCHANGED <<file, good, prev, pc, row>> /\ \A c \in Callers : pc[c] = "out"
    BY <1>0, <1>0a, <1>4 DEF Close
  <2>2. \A q \in Processes : ctor'[q] # "open"
    BY <1>0a, <1>4 DEF Close, TypeInv, TypeOK
  <2>3. QED
    BY <1>0c, <2>1, <2>2 DEF Exclusive, WhileOpen, Current, Wrote, Hashed, IsRow
<1>5. ASSUME NEW p \in Processes, Crash(p) PROVE ChainInv'
  <2>1. \A c \in Callers : pc'[c] = "out"
    BY <1>0, <1>0a, <1>5 DEF Crash
  <2>2. \A q \in Processes : ctor'[q] # "open"
    BY <1>0a, <1>5 DEF Crash, TypeInv, TypeOK
  <2>3. FileChained'
    <3>1. ASSUME NEW t \in Threads, pc[<<p, t>>] = "in", good[p], PutPiece(RowLine(row[<<p, t>>]))
          PROVE  FileChained'
      <4>1. <<p, t>> \in Callers /\ <<p, t>>[1] = p
        OBVIOUS
      <4>2. RowLine(row[<<p, t>>]) \in Line /\ Follows(RowLine(row[<<p, t>>]), LastLine)
        BY <3>1, <4>1, RowsInMaking, RowFits
      <4>3. QED
        BY <1>0b, <3>1, <4>2, PutPieceChains
    <3>2. CASE PutPiece(Bare("header"))
      BY <1>0b, <3>2, PutPieceChains, BareIsLine DEF Follows, IsRow, Bare
    <3>3. CASE UNCHANGED file
      BY <1>0c, <3>3
    <3>4. QED
      BY <1>5, <3>1, <3>2, <3>3 DEF Crash
  <2>4. QED
    BY <2>1, <2>2, <2>3 DEF Exclusive, WhileOpen, Current, Wrote, Hashed
<1>6. ASSUME NEW c \in Callers, NEW e \in Events, Call(c, e) PROVE ChainInv'
  <2>1. UNCHANGED <<file, ctor, good, prev>> /\ pc[c] = "out" /\ ctor[c[1]] = "open"
    BY <1>6 DEF Call
  <2>2. \A d \in Callers : pc'[d] = (IF d = c THEN "wait" ELSE pc[d]) /\ (d # c => row'[d] = row[d])
    BY <1>6 DEF Call, TypeInv, TypeOK
  <2>3. Exclusive' /\ WhileOpen'
    BY <2>1, <2>2 DEF Exclusive, WhileOpen
  <2>4. \A q \in Processes : Current(q)'
    BY <1>0, <1>0c, <2>1, <2>2 DEF Current, IsRow
  <2>5. \A d \in Callers : Wrote(d)' /\ Hashed(d)'
    BY <1>0c, <2>1, <2>2 DEF Wrote, Hashed, IsRow
  <2>6. QED
    BY <1>0c, <2>1, <2>3, <2>4, <2>5
<1>7. ASSUME NEW c \in Callers, Lock(c) PROVE ChainInv'
  <2>1. UNCHANGED <<file, ctor, good, prev>> /\ pc[c] = "wait" /\ MutexFree(c[1])
    BY <1>7 DEF Lock
  <2>2. \A d \in Callers : /\ pc'[d] = (IF d = c THEN "in" ELSE pc[d])
                           /\ d # c => row'[d] = row[d]
    BY <1>7 DEF Lock, TypeInv, TypeOK
  <2>3. row'[c].chain = Append(prev[c[1]], row'[c].text)
    BY <1>7 DEF Lock, TypeInv, TypeOK, Hash
  <2>4. \A d \in Callers : d[1] = c[1] => pc[d] \notin {"in", "wrote"}
    BY <1>0, <2>1 DEF MutexFree
  <2>5. Exclusive' /\ WhileOpen'
    BY <2>1, <2>2, <2>4 DEF Exclusive, WhileOpen
  <2>6. \A q \in Processes : Current(q)'
    BY <1>0, <1>0c, <2>1, <2>2 DEF Current, IsRow
  <2>7. ASSUME NEW d \in Callers PROVE Wrote(d)' /\ Hashed(d)'
    <3>1. CASE d = c
      BY <2>1, <2>2, <2>3, <3>1 DEF Wrote, Hashed
    <3>2. CASE d # c
      BY <1>0c, <2>1, <2>2, <3>2 DEF Wrote, Hashed, IsRow
    <3>3. QED
      BY <3>1, <3>2
  <2>8. QED
    BY <1>0c, <2>1, <2>5, <2>6, <2>7
<1>8. ASSUME NEW c \in Callers, Write(c) PROVE ChainInv'
  <2>1. UNCHANGED <<ctor, good, prev, row>> /\ pc[c] = "in" /\ good[c[1]] /\ Put(RowLine(row[c]))
    BY <1>8 DEF Write
  <2>2. \A d \in Callers : pc'[d] = IF d = c THEN "wrote" ELSE pc[d]
    BY <1>8 DEF Write, TypeInv, TypeOK
  <2>3. RowLine(row[c]) \in Line /\ RowLine(row[c]).kind = "row" /\ Follows(RowLine(row[c]), LastLine)
    BY <2>1, RowsInMaking, RowFits
  <2>4. FileChained' /\ (IsRow(LastLine') => LastLine' = RowLine(row[c]))
    BY <1>0b, <2>1, <2>3, PutChains
  <2>5. \A d \in Callers : d # c => pc[d] \notin {"in", "wrote"}
    BY <1>0, <1>0a, <2>1 DEF Exclusive
  <2>6. Exclusive' /\ WhileOpen'
    BY <2>1, <2>2, <2>5 DEF Exclusive, WhileOpen
  <2>7. \A q \in Processes : Current(q)'
    BY <1>0, <1>0a, <2>2 DEF Current
  <2>8. \A d \in Callers : Wrote(d)' /\ Hashed(d)'
    BY <2>1, <2>2, <2>4, <2>5 DEF Wrote, Hashed, RowLine
  <2>9. QED
    BY <2>4, <2>6, <2>7, <2>8
<1>9. ASSUME NEW c \in Callers, WriteFails(c) PROVE ChainInv'
  <2>1. UNCHANGED <<ctor, prev, row>> /\ pc[c] = "in" /\ good[c[1]] /\ PutPiece(RowLine(row[c]))
    BY <1>9 DEF WriteFails
  <2>2. \A d \in Callers : pc'[d] = IF d = c THEN "wrote" ELSE pc[d]
    BY <1>9 DEF WriteFails, TypeInv, TypeOK
  <2>3. RowLine(row[c]) \in Line /\ Follows(RowLine(row[c]), LastLine)
    BY <2>1, RowsInMaking, RowFits
  <2>4. FileChained'
    BY <1>0b, <2>1, <2>3, PutPieceChains
  <2>5. \A d \in Callers : d # c => pc[d] \notin {"in", "wrote"}
    BY <1>0, <1>0a, <2>1 DEF Exclusive
  <2>6. Exclusive' /\ WhileOpen'
    BY <2>1, <2>2, <2>5 DEF Exclusive, WhileOpen
  <2>7. \A q \in Processes : ~good'[q]
    BY <1>0, <1>0a, <1>9 DEF WriteFails, TypeInv, TypeOK
  <2>8. \A q \in Processes : Current(q)'
    BY <2>7 DEF Current
  <2>9. \A d \in Callers : Wrote(d)' /\ Hashed(d)'
    BY <1>0, <2>2, <2>5, <2>7 DEF Wrote, Hashed
  <2>10. QED
    BY <2>4, <2>6, <2>8, <2>9
<1>10. ASSUME NEW c \in Callers, WriteIgnored(c) PROVE ChainInv'
  <2>1. UNCHANGED <<file, ctor, good, prev, row>> /\ pc[c] = "in" /\ ~good[c[1]]
    BY <1>10 DEF WriteIgnored
  <2>2. \A d \in Callers : pc'[d] = IF d = c THEN "wrote" ELSE pc[d]
    BY <1>10 DEF WriteIgnored, TypeInv, TypeOK
  <2>3. Exclusive' /\ WhileOpen'
    BY <2>1, <2>2 DEF Exclusive, WhileOpen
  <2>4. \A q \in Processes : ~good'[q]
    BY <1>0, <1>0a, <2>1
  <2>5. \A q \in Processes : Current(q)'
    BY <2>4 DEF Current
  <2>6. \A d \in Callers : Wrote(d)' /\ Hashed(d)'
    BY <1>0, <2>1, <2>2, <2>4 DEF Wrote, Hashed
  <2>7. QED
    BY <1>0c, <2>1, <2>3, <2>5, <2>6
<1>11. ASSUME NEW c \in Callers, Return(c) PROVE ChainInv'
  <2>1. UNCHANGED <<file, ctor, good, row>> /\ pc[c] = "wrote"
    BY <1>11 DEF Return
  <2>2. \A d \in Callers : pc'[d] = IF d = c THEN "out" ELSE pc[d]
    BY <1>11 DEF Return, TypeInv, TypeOK
  <2>3. \A q \in Processes : prev'[q] = row[c].chain
    BY <1>0, <1>0a, <1>11 DEF Return, TypeInv, TypeOK
  <2>4. \A d \in Callers : d # c => pc[d] \notin {"in", "wrote"}
    BY <1>0, <1>0a, <2>1 DEF Exclusive
  <2>5. Exclusive' /\ WhileOpen'
    BY <2>1, <2>2 DEF Exclusive, WhileOpen
  <2>6. good[c[1]] /\ IsRow(LastLine) => row[c].chain = LastLine.chain
    BY <2>1 DEF Wrote
  <2>7. \A q \in Processes : Current(q)'
    BY <1>0, <1>0a, <1>0c, <2>1, <2>3, <2>6 DEF Current, IsRow
  <2>8. \A d \in Callers : Wrote(d)' /\ Hashed(d)'
    BY <2>2, <2>4 DEF Wrote, Hashed
  <2>9. QED
    BY <1>0c, <2>1, <2>5, <2>7, <2>8
<1>12. CASE UNCHANGED vars
  <2>1. UNCHANGED <<file, ctor, good, prev, pc, row>>
    BY <1>12 DEF vars
  <2>2. QED
    BY <1>0c, <2>1 DEF Exclusive, WhileOpen, Current, Wrote, Hashed, IsRow
<1>13. QED
  BY <1>1, <1>2, <1>3, <1>4, <1>5, <1>6, <1>7, <1>8, <1>9, <1>10, <1>11, <1>12
     DEF Next, Run, Log

LEMMA ChainedNeighbours ==
    ASSUME TypeOK, FileChained
    PROVE  NeighboursChained
<1>1. CASE tail.kind = "empty"
  BY <1>1 DEF NeighboursChained, AllLines, FileChained, LinesChained, Follows, IsRow
<1>2. CASE tail.kind # "empty"
  <2>1. lines \in Seq(Line \ {Empty}) /\ AllLines = Append(lines, tail)
    BY <1>2 DEF AllLines, TypeOK
  <2>2. ASSUME NEW i \in 2 .. Len(lines)
        PROVE  Follows(Append(lines, tail)[i], Append(lines, tail)[i - 1])
    BY <2>1 DEF FileChained, LinesChained
  <2>3. CASE lines # <<>>
    <3>1. Follows(Append(lines, tail)[Len(lines) + 1], Append(lines, tail)[Len(lines)])
      BY <2>1, <2>3 DEF FileChained, TailChained
    <3>2. \A i \in 2 .. Len(lines) + 1 : Follows(Append(lines, tail)[i], Append(lines, tail)[i - 1])
      BY <2>1, <2>2, <3>1
    <3>3. QED
      BY <2>1, <3>2 DEF NeighboursChained, Follows, IsRow
  <2>4. CASE lines = <<>>
    BY <2>1, <2>4 DEF NeighboursChained
  <2>5. QED
    BY <2>3, <2>4
<1>3. QED
  BY <1>1, <1>2

\* One server process, any threads, any number of failed writes, crashes and
\* restarts: a row is chained to the row on the line before it.
THEOREM NeighboursAlwaysChained ==
    ASSUME OneProcess
    PROVE  Spec => []NeighboursChained
<1>1. TypeInv /\ ChainInv /\ [Next]_vars => ChainInv'
  BY ChainStep
<1>2. TypeInv /\ ChainInv => NeighboursChained
  BY ChainedNeighbours DEF TypeInv, ChainInv
<1>3. QED
  BY <1>1, <1>2, ChainInit, TypeInvariant, PTL DEF Spec

-----------------------------------------------------------------------------
(* Until something fails the whole file verifies.                          *)

\* The shape of the file and of the logger as long as nothing has failed.
FirstRowStarts ==
    \A i \in 1 .. Len(lines) : /\ lines[i].kind = IF i = 1 THEN "header" ELSE "row"
                               /\ i = 2 => lines[i].chain = Append(Genesis, lines[i].text[1])
LoggerSound(p) ==
    /\ ctor[p] = "new" => lines = <<>>
    /\ ctor[p] \in {"existing", "open"} => lines # <<>>
    /\ ctor[p] = "open" => good[p]
    /\ ctor[p] = "open" /\ Len(lines) = 1 => prev[p] = Genesis
Sound ==
    /\ tail = Empty
    /\ FirstRowStarts
    /\ \A p \in Processes : LoggerSound(p)
    /\ \A c \in Callers : pc[c] = "wrote" => Len(lines) > 1

\* A write that does not complete, and a crash, are counted for good.
LEMMA NoPieces == TypeOK /\ faults' = 0 => faults' # faults + 1 /\ \A ln : ~PutPiece(ln)
BY BoundsAssumption DEF TypeOK, PutPiece

LEMMA FaultsStay ==
    ASSUME TypeOK, [Next]_vars, faults' = 0
    PROVE  faults = 0
<1>1. ASSUME NEW p \in Processes, Run(p) PROVE faults' = faults
  BY <1>1, NoPieces DEF Run, Probe, Create, Resume, Close, Crash
<1>2. ASSUME NEW c \in Callers, Log(c) PROVE faults' = faults
  BY <1>2, NoPieces DEF Log, Call, Lock, Write, WriteFails, WriteIgnored, Return
<1>3. QED
  BY <1>1, <1>2 DEF Next, vars

LEMMA SoundInit == Init => Sound
BY DEF Init, Sound, LoggerSound, FirstRowStarts

LEMMA SoundStep ==
    ASSUME OneProcess, faults' = 0, TypeInv, ChainInv, Sound, [Next]_vars
    PROVE  Sound'
<1>0. \A c \in Callers : c[1] \in Processes /\ c[2] \in Threads /\ c = <<c[1], c[2]>>
  OBVIOUS
<1>0a. \A p, q \in Processes : p = q
  BY DEF OneProcess
<1>0b. lines \in Seq(Line \ {Empty}) /\ tail \in Line /\ faults' # faults + 1 /\ \A ln : ~PutPiece(ln)
  BY NoPieces DEF TypeInv, TypeOK
<1>0d. Len(lines) \in Nat /\ (lines # <<>> <=> Len(lines) > 0)
  BY <1>0b
<1>0c. UNCHANGED file => tail' = Empty /\ FirstRowStarts'
  BY DEF Sound, FirstRowStarts
<1>1. ASSUME NEW p \in Processes, Probe(p) PROVE Sound'
  <2>1. AllLines = lines
    BY DEF Sound, AllLines, Empty, Bare
  <2>2. ctor' = [ctor EXCEPT ![p] = IF lines = <<>> THEN "new" ELSE "existing"]
    BY <1>1, <2>1 DEF Probe
  <2>3. ctor \in [Processes -> {"closed", "new", "existing", "open"}]
    BY DEF TypeInv, TypeOK
  <2>4. UNCHANGED <<file, good, prev, pc>>
    BY <1>1 DEF Probe
  <2>5. \A q \in Processes : /\ ctor'[q] = "new" => lines = <<>>
                             /\ ctor'[q] \in {"existing", "open"} => lines # <<>>
                             /\ ctor'[q] # "open"
    BY <1>0a, <2>2, <2>3
  <2>6. lines' = lines
    BY <2>4
  <2>6a. tail' = Empty /\ FirstRowStarts'
    BY <1>0c, <2>4
  <2>7. \A c \in Callers : pc'[c] = "wrote" => Len(lines') > 1
    BY <2>4, <2>6 DEF Sound, LoggerSound
  <2>8. ASSUME NEW q \in Processes PROVE LoggerSound(q)'
    <3>1. (ctor'[q] = "new" => lines' = <<>>) /\ (ctor'[q] \in {"existing", "open"} => lines' # <<>>)
      BY <2>5, <2>6
    <3>2. ctor'[q] # "open"
      BY <2>5
    <3>3. QED
      BY <3>1, <3>2 DEF LoggerSound
  <2>9. QED
    BY <2>6a, <2>7, <2>8 DEF Sound, LoggerSound
<1>2. ASSUME NEW p \in Processes, Create(p) PROVE Sound'
  <2>1. Put(Bare("header")) /\ lines = <<>> /\ tail = Empty
    BY <1>0b, <1>2 DEF Create, Sound, LoggerSound
  <2>2. lines' = <<Bare("header")>> /\ tail' = Empty
    BY <2>1 DEF Put, Glue, Empty, Bare
  <2>3. \A q \in Processes : ctor'[q] = "open" /\ prev'[q] = Genesis
    BY <1>0a, <1>2 DEF Create, TypeInv, TypeOK
  <2>4. \A q \in Processes : good'[q]
    BY <1>0a, <1>0b, <1>2 DEF Create, TypeInv, TypeOK
  <2>5. \A c \in Callers : pc'[c] # "wrote"
    BY <1>2, <2>1 DEF Create, Sound, LoggerSound
  <2>6. FirstRowStarts'
    BY <2>2 DEF FirstRowStarts, Bare
  <2>7. QED
    BY <2>2, <2>3, <2>4, <2>5, <2>6 DEF Sound, LoggerSound
<1>3. ASSUME NEW p \in Processes, Resume(p) PROVE Sound'
  <2>1. lines # <<>> /\ tail = Empty /\ UNCHANGED <<file, pc>>
    BY <1>3 DEF Resume, Sound, LoggerSound
  <2>2. \A q \in Processes : ctor'[q] = "open" /\ good'[q]
    <3>1. \A q \in Processes : ctor'[q] = "open"
      BY <1>0a, <1>3 DEF Resume, TypeInv, TypeOK
    <3>2. \A q \in Processes : good'[q]
      BY <1>0a, <1>3 DEF Resume, TypeInv, TypeOK
    <3>3. QED
      BY <3>1, <3>2
  <2>3. Len(lines) = 1 => ResumedFrom(LastLine) = Genesis
    BY <1>0b, <2>1 DEF Sound, FirstRowStarts, LastLine, Empty, Bare, ResumedFrom
  <2>4. \A q \in Processes : Len(lines) = 1 => prev'[q] = Genesis
    BY <1>0a, <1>3, <2>3 DEF Resume, TypeInv, TypeOK
  <2>5. QED
    BY <1>0c, <2>1, <2>2, <2>4 DEF Sound, LoggerSound
<1>4. ASSUME NEW p \in Processes, Close(p) PROVE Sound'
  <2>1. \A q \in Processes : ctor'[q] = "closed"
    BY <1>0a, <1>4 DEF Close, TypeInv, TypeOK
  <2>2. QED
    BY <1>0c, <1>4, <2>1 DEF Close, Sound, LoggerSound
<1>5. ASSUME NEW p \in Processes, Crash(p) PROVE Sound'
  BY <1>0b, <1>5 DEF Crash
<1>6. ASSUME NEW c \in Callers, NEW e \in Events, Call(c, e) PROVE Sound'
  <2>1. \A d \in Callers : pc'[d] = "wrote" => pc[d] = "wrote"
    BY <1>6 DEF Call, TypeInv, TypeOK
  <2>2. QED
    BY <1>0c, <1>6, <2>1 DEF Call, Sound, LoggerSound
<1>7. ASSUME NEW c \in Callers, Lock(c) PROVE Sound'
  <2>1. \A d \in Callers : pc'[d] = "wrote" => pc[d] = "wrote"
    BY <1>7 DEF Lock, TypeInv, TypeOK
  <2>2. QED
    BY <1>0c, <1>7, <2>1 DEF Lock, Sound, LoggerSound
<1>8. ASSUME NEW c \in Callers, Write(c) PROVE Sound'
  <2>1. ctor[c[1]] = "open" /\ lines # <<>> /\ tail = Empty
    BY <1>0, <1>8 DEF Write, ChainInv, WhileOpen, Sound, LoggerSound
  <2>2. lines' = Append(lines, RowLine(row[c])) /\ tail' = Empty /\ UNCHANGED <<ctor, good, prev>>
    BY <1>8, <2>1 DEF Write, Put, Glue, Empty, Bare
  <2>3. Len(lines) = 1 => RowLine(row[c]).chain = Append(Genesis, RowLine(row[c]).text[1])
    BY <1>0, <1>8, <2>1 DEF Write, Sound, LoggerSound, ChainInv, Hashed, RowLine
  <2>4. RowLine(row[c]).kind = "row"
    BY DEF RowLine
  <2>5. FirstRowStarts'
    <3> DEFINE ln == RowLine(row[c])
    <3>1. ln.kind = "row" /\ (Len(lines) = 1 => ln.chain = Append(Genesis, ln.text[1]))
      BY <2>3, <2>4
    <3>1a. lines' = Append(lines, ln) /\ Len(Append(lines, ln)) = Len(lines) + 1
      BY <1>0b, <2>2
    <3> HIDE DEF ln
    <3>2. SUFFICES ASSUME NEW i \in 1 .. Len(lines) + 1
                   PROVE  /\ Append(lines, ln)[i].kind = IF i = 1 THEN "header" ELSE "row"
                          /\ i = 2 => Append(lines, ln)[i].chain = Append(Genesis, Append(lines, ln)[i].text[1])
      BY <3>1a DEF FirstRowStarts
    <3>3. CASE i \in 1 .. Len(lines)
      BY <1>0b, <3>3 DEF Sound, FirstRowStarts
    <3>4. CASE i = Len(lines) + 1
      <4>1. Append(lines, ln)[i] = ln
        BY <1>0b, <3>4
      <4>2. i # 1 /\ (i = 2 => Len(lines) = 1)
        <5>1. lines # <<>>
          BY <2>1
        <5>2. Len(lines) \in Nat /\ Len(lines) > 0
          BY <1>0d, <5>1
        <5> DEFINE n == Len(lines)
        <5>3. n \in Nat /\ n > 0 /\ i = n + 1
          BY <3>4, <5>2
        <5> HIDE DEF n
        <5>4. i # 1 /\ (i = 2 => n = 1)
          BY <5>3
        <5>5. QED
          BY <5>4 DEF n
      <4>3. QED
        BY <3>1, <4>1, <4>2
    <3>5. QED
      BY <3>3, <3>4
  <2>6. Len(lines') > 1
    BY <1>0b, <2>1, <2>2
  <2>7. QED
    BY <2>1, <2>2, <2>5, <2>6 DEF Sound, LoggerSound
<1>9. ASSUME NEW c \in Callers, WriteFails(c) PROVE Sound'
  BY <1>0b, <1>9 DEF WriteFails
<1>10. ASSUME NEW c \in Callers, WriteIgnored(c) PROVE Sound'
  BY <1>0, <1>10 DEF WriteIgnored, Sound, LoggerSound, ChainInv, WhileOpen
<1>11. ASSUME NEW c \in Callers, Return(c) PROVE Sound'
  <2>1. \A d \in Callers : pc'[d] = "wrote" => pc[d] = "wrote"
    BY <1>11 DEF Return, TypeInv, TypeOK
  <2>2. Len(lines) > 1
    BY <1>11 DEF Return, Sound
  <2>3. tail' = Empty /\ FirstRowStarts' /\ lines' = lines /\ ctor' = ctor /\ good' = good
    BY <1>0c, <1>11 DEF Return
  <2>4. Len(lines') > 1 /\ Len(lines') # 1
    <3>1. lines' = lines
      BY <2>3
    <3> DEFINE n == Len(lines)
    <3>2. n \in Nat /\ n > 1
      BY <1>0d, <2>2
    <3> HIDE DEF n
    <3>3. n # 1
      BY <3>2
    <3>4. QED
      BY <3>1, <3>2, <3>3 DEF n
  <2>5. \A p \in Processes : /\ ctor'[p] = "new" => lines' = <<>>
                             /\ ctor'[p] \in {"existing", "open"} => lines' # <<>>
                             /\ ctor'[p] = "open" => good'[p]
    BY <2>3 DEF Sound, LoggerSound
  <2>6. QED
    BY <2>3, <2>4, <2>5 DEF Sound, LoggerSound
<1>12. CASE UNCHANGED vars
  BY <1>0c, <1>12 DEF vars, Sound, LoggerSound
<1>13. QED
  BY <1>1, <1>2, <1>3, <1>4, <1>5, <1>6, <1>7, <1>8, <1>9, <1>10, <1>11, <1>12
     DEF Next, Run, Log

LEMMA SoundVerifies ==
    ASSUME TypeOK, FileChained, Sound
    PROVE  Verifies(AllLines)
<1>1. AllLines = lines /\ lines \in Seq(Line \ {Empty})
  BY DEF Sound, AllLines, Empty, Bare, TypeOK
<1>2. ASSUME NEW i \in 2 .. Len(lines)
      PROVE  /\ lines[i].kind = "row"
             /\ lines[i].chain = Append(ChainBefore(lines, i), lines[i].text[1])
  <2>1. lines[i].kind = "row"
    BY <1>1, <1>2 DEF Sound, FirstRowStarts
  <2>2. CASE i = 2
    BY <1>1, <2>2 DEF Sound, FirstRowStarts, ChainBefore
  <2>3. CASE i > 2
    <3>1. lines[i - 1].kind = "row" /\ ChainBefore(lines, i) = lines[i - 1].chain
      BY <1>1, <2>3 DEF Sound, FirstRowStarts, ChainBefore
    <3>2. QED
      BY <2>1, <3>1 DEF FileChained, LinesChained, Follows, IsRow
  <2>4. QED
    BY <2>1, <2>2, <2>3
<1>3. QED
  BY <1>1, <1>2 DEF Verifies, Hash

-----------------------------------------------------------------------------
(* A file that verifies gives every edit of its history away.              *)

\* The chain value of line i has i - 1 rows hashed into it: no two lines of
\* the file have the same.
Counted == \A i \in 1 .. Len(lines) : Len(lines[i].chain) = i - 1

LEMMA LinesGrow ==
    ASSUME [Next]_vars
    PROVE  UNCHANGED lines \/ \E ln : lines' = Append(lines, ln)
<1>1. ASSUME NEW ln, Put(ln) PROVE \E x : lines' = Append(lines, x)
  BY <1>1 DEF Put
<1>2. ASSUME NEW ln, PutPiece(ln) PROVE UNCHANGED lines
  BY <1>2 DEF PutPiece
<1>3. ASSUME NEW p \in Processes, Run(p) PROVE UNCHANGED lines \/ \E x : lines' = Append(lines, x)
  BY <1>1, <1>2, <1>3 DEF Run, Probe, Create, Resume, Close, Crash
<1>4. ASSUME NEW c \in Callers, Log(c) PROVE UNCHANGED lines \/ \E x : lines' = Append(lines, x)
  BY <1>1, <1>2, <1>4 DEF Log, Call, Lock, Write, WriteFails, WriteIgnored, Return
<1>5. QED
  BY <1>3, <1>4 DEF Next, vars

LEMMA CountStep ==
    ASSUME TypeInv, Counted, [Next]_vars, TypeInv', ChainInv', Sound'
    PROVE  Counted'
<1>1. CASE UNCHANGED lines
  BY <1>1 DEF Counted
<1>2. ASSUME NEW ln, lines' = Append(lines, ln) PROVE Counted'
  <2>1. lines \in Seq(Line \ {Empty}) /\ lines' \in Seq(Line \ {Empty}) /\ Len(lines) \in Nat
    BY DEF TypeInv, TypeOK
  <2>2. Len(lines') = Len(lines) + 1 /\ \A k \in 1 .. Len(lines) : lines'[k] = lines[k]
    BY <1>2, <2>1
  <2>3. Len(lines'[Len(lines) + 1].chain) = Len(lines)
    <3>1. CASE Len(lines) = 0
      <4>0. 1 \in 1 .. Len(lines')
        BY <2>2, <3>1
      <4>1. lines'[1] \in Line /\ lines'[1].kind = "header"
        BY <2>1, <4>0 DEF Sound, FirstRowStarts
      <4>2. lines'[1].chain = <<>>
        BY <4>1 DEF Line, Genesis
      <4>3. QED
        BY <3>1, <4>2
    <3>2. CASE Len(lines) = 1
      <4>1. lines'[2].chain = Append(Genesis, lines'[2].text[1])
        BY <2>2, <3>2 DEF Sound, FirstRowStarts
      <4>2. Len(Append(<<>>, lines'[2].text[1])) = 1
        OBVIOUS
      <4>3. QED
        BY <3>2, <4>1, <4>2 DEF Genesis
    <3>3. CASE Len(lines) > 1
      <4> DEFINE n == Len(lines)
      <4>1. n \in Nat /\ n > 1 /\ n \in 2 .. Len(lines') /\ n + 1 \in 2 .. Len(lines') /\ n # 1 /\ n + 1 # 1
        BY <2>1, <2>2, <3>3
      <4>2. IsRow(lines'[n]) /\ IsRow(lines'[n + 1])
        BY <2>1, <4>1 DEF Sound, FirstRowStarts, IsRow
      <4>3. lines'[n + 1].chain = Append(lines'[n].chain, lines'[n + 1].text[1])
        BY <4>1, <4>2 DEF ChainInv, FileChained, LinesChained, Follows, IsRow
      <4>4. lines'[n] \in Line /\ lines'[n + 1] \in Line
        BY <2>1, <4>1
      <4>5. lines'[n].chain \in Seq(Events) /\ lines'[n + 1].text[1] \in Events
        BY <4>2, <4>4 DEF Line, Hashes, IsRow
      <4>6. Len(Append(lines'[n].chain, lines'[n + 1].text[1])) = Len(lines'[n].chain) + 1
        BY <4>5
      <4>7. Len(lines'[n].chain) = n - 1
        <5>1. n \in 1 .. Len(lines)
          BY <4>1
        <5>2. lines'[n] = lines[n] /\ Len(lines[n].chain) = n - 1
          BY <2>2, <5>1 DEF Counted
        <5>3. QED
          BY <5>2
      <4>8. Len(lines'[n + 1].chain) = n
        <5> HIDE DEF n
        <5>1. QED
          BY <4>1, <4>3, <4>6, <4>7
      <4>9. QED
        BY <4>8
    <3>4. Len(lines) = 0 \/ Len(lines) = 1 \/ Len(lines) > 1
      <4> DEFINE n == Len(lines)
      <4>1. n \in Nat
        BY <2>1
      <4> HIDE DEF n
      <4>2. n = 0 \/ n = 1 \/ n > 1
        BY <4>1
      <4>3. QED
        BY <4>2 DEF n
    <3>5. QED
      BY <3>1, <3>2, <3>3, <3>4
  <2>4. QED
    BY <2>1, <2>2, <2>3 DEF Counted
<1>3. QED
  BY <1>1, <1>2, LinesGrow

LEMMA CountInit == Init => Counted
BY DEF Init, Counted

\* Hashing is free of collisions.
LEMMA HashInjective ==
    ASSUME NEW g \in Hashes, NEW h \in Hashes, NEW d \in Events, NEW e \in Events,
           Append(g, d) = Append(h, e)
    PROVE  g = h /\ d = e
<1>1. Len(g) = Len(h)
  <2>1. Len(Append(g, d)) = Len(g) + 1 /\ Len(Append(h, e)) = Len(h) + 1
    BY DEF Hashes
  <2>2. QED
    BY <2>1 DEF Hashes
<1>2. d = e
  <2>1. Append(g, d)[Len(g) + 1] = d /\ Append(h, e)[Len(h) + 1] = e
    BY DEF Hashes
  <2>2. QED
    BY <1>1, <2>1
<1>3. \A k \in 1 .. Len(g) : g[k] = h[k]
  <2>1. \A k \in 1 .. Len(g) : Append(g, d)[k] = g[k] /\ Append(h, e)[k] = h[k]
    BY <1>1 DEF Hashes
  <2>2. QED
    BY <2>1
<1>4. QED
  BY <1>1, <1>2, <1>3 DEF Hashes

LEMMA EditsShow ==
    ASSUME TypeOK, Sound, Counted, Verifies(AllLines)
    PROVE  TamperEvident
<1> DEFINE ls == lines
           t(i) == lines[i].text[1]
<1>1. AllLines = lines /\ lines \in Seq(Line \ {Empty}) /\ Len(lines) \in Nat
  BY DEF Sound, AllLines, Empty, Bare, TypeOK
<1>2. ASSUME NEW i \in 2 .. Len(lines)
      PROVE  /\ lines[i].kind = "row"
             /\ lines[i].chain = Append(ChainBefore(lines, i), t(i))
             /\ lines[i].chain \in Hashes
             /\ t(i) \in Events
             /\ lines[i].text = <<t(i)>>
             /\ Len(lines[i].chain) = i - 1
  <2>1. lines[i].kind = "row" /\ <<lines[i].chain>> = <<Append(ChainBefore(lines, i), t(i))>>
    BY <1>1 DEF Verifies, Hash
  <2>2. lines[i] \in Line
    BY <1>1
  <2>3. lines[i].chain = Append(ChainBefore(lines, i), t(i))
    BY <2>1
  <2>4. lines[i].chain \in Hashes /\ \E e \in Events : lines[i].text = <<e>>
    BY <2>1, <2>2 DEF Line
  <2>5. t(i) \in Events /\ lines[i].text = <<t(i)>>
    BY <2>4
  <2>6. Len(lines[i].chain) = i - 1
    BY <1>1 DEF Counted
  <2>7. QED
    BY <2>1, <2>3, <2>4, <2>5, <2>6
<1>3. ASSUME NEW i \in 2 .. Len(lines)
      PROVE  ChainBefore(lines, i) \in Hashes /\ Len(ChainBefore(lines, i)) = i - 2
  <2>1. CASE i = 2
    BY <2>1 DEF ChainBefore, Genesis, Hashes
  <2>2. CASE i # 2
    <3>1. i - 1 \in 2 .. Len(lines)
      BY <1>1, <2>2
    <3>2. lines[i - 1].chain \in Hashes /\ Len(lines[i - 1].chain) = (i - 1) - 1
      BY <1>2, <3>1
    <3>3. QED
      BY <2>2, <3>2 DEF ChainBefore
  <2>3. QED
    BY <2>1, <2>2
\* A line of the file that the recomputation accepts at place i is line i.
<1>4. ASSUME NEW i \in 2 .. Len(lines), NEW j \in 2 .. Len(lines), NEW e \in Events,
             lines[j].chain = Append(ChainBefore(lines, i), e)
      PROVE  i = j /\ e = t(i)
  <2>1. Len(Append(ChainBefore(lines, i), e)) = i - 1
    BY <1>3 DEF Hashes
  <2>2. i = j
    BY <1>2, <1>4, <2>1
  <2>3. e = t(i)
    BY <1>2, <1>3, <1>4, <2>2, HashInjective
  <2>4. QED
    BY <2>2, <2>3
<1>5. ASSUME NEW i \in 2 .. Len(lines), i < Len(lines), Verifies(Without(lines, i)) PROVE FALSE
  <2> DEFINE w == Without(lines, i)
  <2>1. Len(w) = Len(lines) - 1 /\ \A k \in 1 .. Len(lines) - 1 : w[k] = IF k < i THEN lines[k] ELSE lines[k + 1]
    BY <1>1 DEF Without
  <2>2. i \in 2 .. Len(w) /\ w[i] = lines[i + 1] /\ (i # 2 => w[i - 1] = lines[i - 1])
    BY <1>1, <1>5, <2>1
  <2>3. <<w[i].chain>> = <<Append(ChainBefore(w, i), w[i].text[1])>>
    BY <1>5, <2>2 DEF Verifies, Hash
  <2>4. ChainBefore(w, i) = ChainBefore(lines, i)
    BY <2>2 DEF ChainBefore
  <2>5. lines[i + 1].chain = Append(ChainBefore(lines, i), t(i + 1)) /\ i + 1 \in 2 .. Len(lines)
    BY <1>1, <1>5, <2>2, <2>3, <2>4
  <2>6. i = i + 1
    BY <1>2, <1>4, <2>5
  <2>7. QED
    BY <1>5, <2>6
<1>6. ASSUME NEW i \in 2 .. Len(lines), NEW e \in Events, <<e>> # lines[i].text,
             Verifies(Retold(lines, i, e))
      PROVE  FALSE
  <2> DEFINE w == Retold(lines, i, e)
  <2>1. Len(w) = Len(lines) /\ (i # 2 => w[i - 1] = lines[i - 1])
    BY <1>1 DEF Retold
  <2>2. w[i] = [lines[i] EXCEPT !.text = <<e>>]
    BY <1>1 DEF Retold
  <2>3. w[i].text[1] = e /\ w[i].chain = lines[i].chain
    <3>1. lines[i] \in Line
      BY <1>1
    <3>2. QED
      BY <2>2, <3>1 DEF Line
  <2>4. <<w[i].chain>> = <<Append(ChainBefore(w, i), w[i].text[1])>>
    BY <1>6, <2>1 DEF Verifies, Hash
  <2>5. ChainBefore(w, i) = ChainBefore(lines, i)
    BY <2>1 DEF ChainBefore
  <2>6. lines[i].chain = Append(ChainBefore(lines, i), e)
    BY <2>3, <2>4, <2>5
  <2>7. e = t(i)
    BY <1>4, <2>6
  <2>8. QED
    BY <1>2, <1>6, <2>7
<1>7. ASSUME NEW i \in 2 .. Len(lines), NEW j \in i + 1 .. Len(lines), Verifies(Exchanged(lines, i, j))
      PROVE  FALSE
  <2> DEFINE w == Exchanged(lines, i, j)
  <2>1. Len(w) = Len(lines) /\ (i # 2 => w[i - 1] = lines[i - 1])
    BY <1>1 DEF Exchanged
  <2>2. w[i] = lines[j] /\ j \in 2 .. Len(lines) /\ i # j
    BY <1>1 DEF Exchanged
  <2>3. <<w[i].chain>> = <<Append(ChainBefore(w, i), w[i].text[1])>>
    BY <1>7, <2>1 DEF Verifies, Hash
  <2>4. ChainBefore(w, i) = ChainBefore(lines, i)
    BY <2>1 DEF ChainBefore
  <2>5. lines[j].chain = Append(ChainBefore(lines, i), t(j))
    BY <2>2, <2>3, <2>4
  <2>6. QED
    BY <1>2, <1>4, <2>2, <2>5
<1>8. QED
  BY <1>1, <1>5, <1>6, <1>7 DEF TamperEvident

\* One server process: as long as no write failed and it did not crash, the
\* file verifies, however its threads take turns and it is restarted, while
\* removing a row that is not the last, rewriting a row or exchanging two never
\* leaves a file that verifies, whatever the rows are and however many.
THEOREM TamperingShows ==
    ASSUME OneProcess
    PROVE  Spec => []TamperEvident
<1> DEFINE SoundSoFar == faults = 0 => Sound
           CountedSoFar == faults = 0 => Counted
<1>1. TypeInv /\ ChainInv /\ [Next]_vars => ChainInv'
  BY ChainStep
<1>2. TypeInv /\ ChainInv /\ SoundSoFar /\ [Next]_vars => SoundSoFar'
  BY SoundStep, FaultsStay DEF TypeInv
<1>3. /\ TypeInv /\ TypeInv' /\ ChainInv' /\ SoundSoFar' /\ CountedSoFar
      /\ [Next]_vars
      => CountedSoFar'
  BY CountStep, FaultsStay DEF TypeInv
<1>4. TypeInv /\ ChainInv /\ SoundSoFar /\ CountedSoFar => TamperEvident
  <2>1. CASE faults = 0
    BY <2>1, SoundVerifies, EditsShow DEF TypeInv, ChainInv
  <2>2. CASE faults # 0
    BY <2>2 DEF TamperEvident
  <2>3. QED
    BY <2>1, <2>2
<1>5. Init => SoundSoFar /\ CountedSoFar
  BY SoundInit, CountInit
<1> HIDE DEF SoundSoFar, CountedSoFar
<1>6. QED
  BY <1>1, <1>2, <1>3, <1>4, <1>5, ChainInit, TypeInvariant, PTL DEF Spec

-----------------------------------------------------------------------------
(* Until something fails the logger implements the abstract log.           *)

\* The trail gains what a row line at the end of the file says.
LEMMA RecordedGrows ==
    ASSUME TypeOK, lines # <<>>, NEW r \in [text : Events, chain : Hashes],
           lines' = Append(lines, RowLine(r))
    PROVE  Recorded' = Append(Recorded, r.text)
<1> DEFINE n == Len(lines)
           all == Append(lines, RowLine(r))
<1>1. lines \in Seq(Line \ {Empty}) /\ n \in Nat /\ n > 0
  <2>1. lines \in Seq(Line \ {Empty}) /\ n \in Nat
    BY DEF TypeOK
  <2>2. n # 0
    BY <2>1
  <2> HIDE DEF n
  <2>3. n \in Nat /\ n > 0
    BY <2>1, <2>2
  <2>4. QED
    BY <2>1, <2>3
<1>2. Len(all) = n + 1 /\ \A k \in 1 .. n : all[k] = lines[k]
  BY <1>1
<1>3. all[n + 1].text[1] = r.text
  BY <1>1 DEF RowLine
<1>4. Recorded' = [i \in 1 .. n |-> all[i + 1].text[1]]
  <2>1. Recorded' = [i \in 1 .. Len(all) - 1 |-> all[i + 1].text[1]]
    BY DEF Recorded
  <2>2. Len(all) - 1 = n
    BY <1>1, <1>2
  <2>3. QED
    BY <2>1, <2>2
<1>5. Recorded = [i \in 1 .. n - 1 |-> lines[i + 1].text[1]]
  BY DEF Recorded
<1>6. Len(Recorded) = n - 1
  <2> HIDE DEF n
  <2>1. n - 1 \in Nat
    BY <1>1
  <2>2. QED
    BY <1>5, <2>1
<1>7. Append(Recorded, r.text) = [i \in 1 .. n |-> IF i < n THEN lines[i + 1].text[1] ELSE r.text]
  <2> HIDE DEF n
  <2>1. Append(Recorded, r.text)
          = [i \in 1 .. Len(Recorded) + 1 |-> IF i = Len(Recorded) + 1 THEN r.text ELSE Recorded[i]]
    OBVIOUS
  <2>2. QED
    BY <1>1, <1>5, <1>6, <2>1
<1>8. \A i \in 1 .. n : all[i + 1].text[1] = IF i < n THEN lines[i + 1].text[1] ELSE r.text
  <2> HIDE DEF n, all
  <2>1. QED
    BY <1>1, <1>2, <1>3
<1>9. QED
  <2> HIDE DEF n, all
  <2>1. QED
    BY <1>4, <1>7, <1>8

LEMMA TrailStep ==
    ASSUME OneProcess, faults' = 0, TypeInv, ChainInv, Sound, [Next]_vars
    PROVE  [Trail!Next]_(Trail!vars)
<1>0. \A c \in Callers : c[1] \in Processes
  OBVIOUS
<1>0a. faults' # faults + 1 /\ \A ln : ~PutPiece(ln)
  BY NoPieces DEF TypeInv
<1>0b. /\ pc \in [Callers -> {"out", "wait", "in", "wrote"}]
       /\ row \in [Callers -> [text : Events, chain : Hashes]]
  BY DEF TypeInv, TypeOK
<1>1. ASSUME NEW p \in Processes, Run(p)
      PROVE  UNCHANGED Trail!vars
  <2>1. UNCHANGED <<pc, row>>
    BY <1>0a, <1>1 DEF Run, Probe, Create, Resume, Close, Crash
  <2>2. Stage' = Stage /\ Asked' = Asked
    BY <2>1 DEF Stage, Asked
  <2>3. Recorded' = Recorded
    <3>1. CASE UNCHANGED lines
      BY <3>1 DEF Recorded
    <3>2. CASE Create(p)
      <4>1. lines = <<>> /\ tail = Empty /\ Put(Bare("header"))
        BY <1>0a, <3>2 DEF Create, Sound, LoggerSound
      <4>2. lines' = <<Bare("header")>>
        BY <4>1 DEF Put, Glue, Empty, Bare
      <4>3. Recorded = <<>>
        BY <4>1 DEF Recorded
      <4>4. Recorded' = <<>>
        BY <4>2 DEF Recorded
      <4>5. QED
        BY <4>3, <4>4
    <3>3. QED
      BY <1>0a, <1>1, <3>1, <3>2 DEF Run, Probe, Resume, Close, Crash
  <2>4. QED
    BY <2>2, <2>3 DEF Trail!vars
<1>2. ASSUME NEW c \in Callers, NEW e \in Events, Call(c, e)
      PROVE  Trail!Ask(c, e)
  <2>1. Stage[c] = "out" /\ Stage' = [Stage EXCEPT ![c] = "asked"]
    BY <1>0b, <1>2 DEF Call, Stage
  <2>2. Asked' = [Asked EXCEPT ![c] = e]
    BY <1>0b, <1>2 DEF Call, Asked
  <2>3. Recorded' = Recorded
    BY <1>2 DEF Call, Recorded
  <2>4. QED
    BY <2>1, <2>2, <2>3 DEF Trail!Ask
<1>3. ASSUME NEW c \in Callers, Lock(c)
      PROVE  UNCHANGED Trail!vars
  <2>1. Stage' = Stage
    BY <1>0b, <1>3 DEF Lock, Stage
  <2>2. Asked' = Asked
    BY <1>0b, <1>3 DEF Lock, Asked
  <2>3. Recorded' = Recorded
    BY <1>3 DEF Lock, Recorded
  <2>4. QED
    BY <2>1, <2>2, <2>3 DEF Trail!vars
<1>4. ASSUME NEW c \in Callers, Write(c)
      PROVE  Trail!Record(c)
  <2>1. lines # <<>> /\ tail = Empty
    BY <1>0, <1>4 DEF Write, ChainInv, WhileOpen, Sound, LoggerSound
  <2>2. lines' = Append(lines, RowLine(row[c]))
    BY <1>4, <2>1 DEF Write, Put, Glue, Empty, Bare
  <2>3. Recorded' = Append(Recorded, row[c].text)
    BY <1>0b, <2>1, <2>2, RecordedGrows DEF TypeInv
  <2>4. Asked[c] = row[c].text /\ Asked' = Asked
    BY <1>4 DEF Write, Asked
  <2>5. Stage[c] = "asked" /\ Stage' = [Stage EXCEPT ![c] = "recorded"]
    BY <1>0b, <1>4 DEF Write, Stage
  <2>6. QED
    BY <2>3, <2>4, <2>5 DEF Trail!Record
<1>5. ASSUME NEW c \in Callers, WriteIgnored(c)
      PROVE  FALSE
  BY <1>0, <1>5 DEF WriteIgnored, Sound, LoggerSound, ChainInv, WhileOpen
<1>6. ASSUME NEW c \in Callers, Return(c)
      PROVE  Trail!Return(c)
  <2>1. Stage[c] = "recorded" /\ Stage' = [Stage EXCEPT ![c] = "out"]
    BY <1>0b, <1>6 DEF Return, Stage
  <2>2. Asked' = Asked /\ Recorded' = Recorded
    BY <1>6 DEF Return, Asked, Recorded
  <2>3. QED
    BY <2>1, <2>2 DEF Trail!Return
<1>7. CASE UNCHANGED vars
  BY <1>7 DEF vars, Trail!vars, Recorded, Stage, Asked
<1>8. QED
  BY <1>0a, <1>1, <1>2, <1>3, <1>4, <1>5, <1>6, <1>7 DEF Next, Log, WriteFails, Trail!Next

\* One server process: every step until a write fails or the process dies is a
\* step of the log its callers are promised, or one they do not see.
THEOREM ImplementsTrail ==
    ASSUME OneProcess
    PROVE  Spec => TrailSpec
<1> DEFINE SoundSoFar == faults = 0 => Sound
<1>1. TypeInv /\ ChainInv /\ [Next]_vars => ChainInv'
  BY ChainStep
<1>2. TypeInv /\ ChainInv /\ SoundSoFar /\ [Next]_vars => SoundSoFar'
  BY SoundStep, FaultsStay DEF TypeInv
<1>3. Init => SoundSoFar
  BY SoundInit
<1>4. Init => Trail!Init
  <2> SUFFICES ASSUME Init PROVE Trail!Init
    OBVIOUS
  <2>1. Recorded = <<>>
    BY DEF Init, Recorded
  <2>2. Stage = [c \in Callers |-> "out"]
    BY DEF Init, Stage
  <2>3. Asked \in [Callers -> Events]
    BY DEF Init, Asked
  <2>4. QED
    BY <2>1, <2>2, <2>3 DEF Trail!Init
<1>5. TypeInv /\ ChainInv /\ SoundSoFar /\ [Next]_vars
      => (faults' = 0 => [Trail!Next]_(Trail!vars))
  BY TrailStep, FaultsStay DEF TypeInv
<1> HIDE DEF SoundSoFar
<1>6. QED
  BY <1>1, <1>2, <1>3, <1>4, <1>5, ChainInit, TypeInvariant, PTL DEF Spec, TrailSpec
=============================================================================
