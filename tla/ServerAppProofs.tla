--------------------------- MODULE ServerAppProofs ---------------------------
(***************************************************************************)
(* Theorems about ServerApp, for every finite set of connections, every    *)
(* set of accounts and every session cap.                                  *)
(***************************************************************************)
EXTENDS ServerApp, FiniteSetTheorems, SequenceTheorems, TLAPS

-----------------------------------------------------------------------------
(* The accept loop, the session slots and the listener.                    *)

USE ConnsAssumption, MaxSessionsAssumption
USE DEF host, server, runVars, lstVars, grants, effects

\* A connection that moves to a phase, or causes a row, leaves the types alone.
LEMMA GotoType ==
    ASSUME ShapeOK, NEW c \in Conns, NEW p \in Phases, Goto(c, p)
    PROVE  phase' \in [Conns -> Phases]
  BY DEF ShapeOK, Goto

\* A row of a connection leaves the rows rows.
LEMMA LogType ==
    ASSUME ShapeOK, NEW c \in Conns, NEW row \in Rows, Log(c, row)
    PROVE  rows' \in [Conns -> Seq(Rows)]
<1>1. Append(rows[c], row) \in Seq(Rows)
  BY DEF ShapeOK
<1> QED
  BY <1>1 DEF ShapeOK, Log

\* A step that writes one row of a connection and moves it on.
LEMMA RowStep ==
    ASSUME ShapeOK, NEW c \in Conns, NEW p \in Phases, NEW row \in Rows,
           Goto(c, p), Log(c, row), UNCHANGED <<server, active, gone, grants, effects>>
    PROVE  ShapeOK'
<1>1. phase' \in [Conns -> Phases]
  BY GotoType
<1>2. rows' \in [Conns -> Seq(Rows)]
  BY LogType
<1> QED
  BY <1>1, <1>2 DEF ShapeOK

\* What run() holds when it decides about a connection.
InHand ==
    runPc \in {"gate", "over", "admit"} => cur \in Conns /\ phase[cur] = "held"


\* Every step keeps the shape of the variables.
LEMMA ShapeInductive ==
    ASSUME ShapeOK, InHand, [Next]_vars
    PROVE  ShapeOK'
<1> USE DEF ShapeOK
<1>1. CASE Boot
  BY <1>1 DEF Boot
<1>2. CASE BootFails
  BY <1>2 DEF BootFails
<1>3. CASE LoopTest
  BY <1>3 DEF LoopTest
<1>4. CASE AcceptClosed
  BY <1>4 DEF AcceptClosed, AcceptReturnsNothing
<1>5. CASE RejectPeer
  <2>1. phase' \in [Conns -> Phases]
    BY <1>5, GotoType DEF RejectPeer, InHand, Phases, Session, Bounded
  <2>2. rows' \in [Conns -> Seq(Rows)]
    BY <1>5, LogType DEF RejectPeer, InHand, Rows
  <2> QED
    BY <1>5, <2>1, <2>2 DEF RejectPeer
<1>6. CASE TakeSlot
  BY <1>6 DEF TakeSlot
<1>7. CASE RejectOver
  <2>1. phase' \in [Conns -> Phases]
    BY <1>7, GotoType DEF RejectOver, InHand, Phases, Session, Bounded
  <2>2. rows' \in [Conns -> Seq(Rows)]
    BY <1>7, LogType DEF RejectOver, InHand, Rows
  <2> QED
    BY <1>7, <2>1, <2>2 DEF RejectOver
<1>8. CASE Admit
  <2>1. phase' \in [Conns -> Phases]
    BY <1>8, GotoType DEF Admit, InHand, Phases, Session, Bounded
  <2>2. rows' \in [Conns -> Seq(Rows)]
    BY <1>8, LogType DEF Admit, InHand, Rows
  <2> QED
    BY <1>8, <2>1, <2>2 DEF Admit
<1>9. CASE WrapFails
  <2>1. phase' \in [Conns -> Phases]
    BY <1>9, GotoType DEF WrapFails, InHand, Phases, Session, Bounded
  <2>2. rows' \in [Conns -> Seq(Rows)]
    BY <1>9, LogType DEF WrapFails, InHand, Rows
  <2> QED
    BY <1>9, <2>1, <2>2 DEF WrapFails
<1>10. CASE RunClose
  <2>1. /\ fd' \in BOOLEAN
        /\ handle' \in {"none", "open", "closed"}
    <3>1. fd' \in BOOLEAN
      BY <1>10 DEF RunClose, CloseSocket
    <3>2. handle' \in {"none", "open", "closed"}
      BY <1>10 DEF RunClose, CloseSocket
    <3> QED
      BY <3>1, <3>2
  <2>2. runPc' \in {"boot", "loop", "accept", "gate", "over", "admit", "close",
                       "closing", "closed", "returned"}
    BY <1>10 DEF RunClose
  <2>3. running' \in BOOLEAN
    BY <1>10 DEF RunClose
  <2> QED
    BY <1>10, <2>1, <2>2, <2>3 DEF RunClose
<1>11. CASE AcceptFails
  BY <1>11 DEF AcceptFails, AcceptReturnsNothing
<1>12. CASE Stop
  <2>1. /\ fd' \in BOOLEAN
        /\ handle' \in {"none", "open", "closed"}
    <3>1. fd' \in BOOLEAN
      BY <1>12 DEF Stop, CloseSocket
    <3>2. handle' \in {"none", "open", "closed"}
      BY <1>12 DEF Stop, CloseSocket
    <3> QED
      BY <3>1, <3>2
  <2>2. stopPc' \in {"idle", "close", "closing", "closed", "done"}
    BY <1>12 DEF Stop
  <2>3. running' \in BOOLEAN
    BY <1>12 DEF Stop
  <2> QED
    BY <1>12, <2>1, <2>2, <2>3 DEF Stop
<1>13. ASSUME NEW c \in Conns, Accept(c)
      PROVE  ShapeOK'
  BY <1>13, GotoType DEF Accept, Phases
<1>14. ASSUME NEW c \in Conns, Connect(c)
      PROVE  ShapeOK'
  BY <1>14, GotoType DEF Connect, Phases, Session, Bounded
<1>15. ASSUME NEW c \in Conns, Hangup(c)
      PROVE  ShapeOK'
  BY <1>15, GotoType DEF Hangup, Phases, Session, Bounded
<1>16. ASSUME NEW c \in Conns, HandshakeFails(c)
      PROVE  ShapeOK'
  <2>1. "auth failed" \in Rows /\ "leaving" \in Phases
    BY DEF Rows, Phases, Session
  <2> HIDE DEF ShapeOK
  <2> QED
    BY <1>16, <2>1, RowStep DEF HandshakeFails
<1>17. ASSUME NEW c \in Conns, GiveUp(c)
      PROVE  ShapeOK'
  BY <1>17, GotoType DEF GiveUp, Phases, Session, Bounded
<1>18. ASSUME NEW c \in Conns, AuditAuth(c)
      PROVE  ShapeOK'
  <2>1. /\ "auth ok" \in Rows /\ "mode" \in Phases
        /\ "auth failed" \in Rows /\ "leaving" \in Phases
    BY DEF Rows, Phases, Session, Bounded
  <2> HIDE DEF ShapeOK
  <2>2. CASE Log(c, "auth ok") /\ Goto(c, "mode")
    BY <1>18, <2>1, <2>2, RowStep DEF AuditAuth
  <2>3. CASE Log(c, "auth failed") /\ Goto(c, "leaving")
    BY <1>18, <2>1, <2>3, RowStep DEF AuditAuth
  <2> QED
    BY <1>18, <2>2, <2>3 DEF AuditAuth
<1>19. ASSUME NEW c \in Conns, ShowOverlay(c)
      PROVE  ShapeOK'
  BY <1>19, GotoType DEF ShowOverlay, Phases, Session, Bounded
<1>20. ASSUME NEW c \in Conns, AuditStart(c)
      PROVE  ShapeOK'
  <2>1. "start" \in Rows /\ "open" \in Phases
    BY DEF Rows, Phases, Session
  <2> HIDE DEF ShapeOK
  <2> QED
    BY <1>20, <2>1, RowStep DEF AuditStart
<1>21. ASSUME NEW c \in Conns, LoopEnds(c)
      PROVE  ShapeOK'
  BY <1>21, GotoType DEF LoopEnds, Phases, Session, Bounded
<1>22. ASSUME NEW c \in Conns, AuditEnd(c)
      PROVE  ShapeOK'
  <2>1. "end" \in Rows /\ "hide" \in Phases
    BY DEF Rows, Phases, Session
  <2> HIDE DEF ShapeOK
  <2> QED
    BY <1>22, <2>1, RowStep DEF AuditEnd
<1>23. ASSUME NEW c \in Conns, HideOverlay(c)
      PROVE  ShapeOK'
  BY <1>23, GotoType DEF HideOverlay, Phases, Session, Bounded
<1>24. ASSUME NEW c \in Conns, Leave(c)
      PROVE  ShapeOK'
  BY <1>24, GotoType DEF Leave, Phases, Session, Bounded
<1>25. ASSUME NEW c \in Conns, HandshakeOk(c)
      PROVE  ShapeOK'
  BY <1>25, GotoType DEF HandshakeOk, Phases, Session, Bounded
<1>26. ASSUME NEW c \in Conns, Hello(c)
      PROVE  ShapeOK'
  BY <1>26, GotoType DEF Hello, Phases, Session, Bounded
<1>27. ASSUME NEW c \in Conns, AuthFails(c)
      PROVE  ShapeOK'
  BY <1>27, GotoType DEF AuthFails, Phases, Session, Bounded
<1>28. ASSUME NEW c \in Conns, Input(c)
      PROVE  ShapeOK'
  BY <1>28, GotoType DEF Input, Phases, Session, Bounded
<1>29. ASSUME NEW c \in Conns, Stream(c)
      PROVE  ShapeOK'
  BY <1>29, GotoType DEF Stream, Phases, Session, Bounded
<1>30. ASSUME NEW c \in Conns, FrameBegins(c)
      PROVE  ShapeOK'
  BY <1>30, GotoType DEF FrameBegins, Phases, Session, Bounded
<1>31. ASSUME NEW c \in Conns, FrameEnds(c)
      PROVE  ShapeOK'
  BY <1>31, GotoType DEF FrameEnds, Phases, Session, Bounded
<1>32. ASSUME NEW c \in Conns, Bye(c)
      PROVE  ShapeOK'
  BY <1>32, GotoType DEF Bye, Phases, Session, Bounded
<1>33. ASSUME NEW c \in Conns, NEW r \in Accounts, AuthOk(c, r)
      PROVE  ShapeOK'
  BY <1>33, GotoType DEF AuthOk, Phases, Session, Bounded
<1>34. ASSUME NEW c \in Conns, NEW m \in Modes, StartSession(c, m)
      PROVE  ShapeOK'
  BY <1>34, GotoType DEF StartSession, Phases, Session, Bounded
<1>35. ASSUME NEW c \in Conns, NEW m \in Modes, Deny(c, m)
      PROVE  ShapeOK'
  <2>1. "denied" \in Rows /\ "leaving" \in Phases
    BY DEF Rows, Phases, Session
  <2> HIDE DEF ShapeOK
  <2> QED
    BY <1>35, <2>1, RowStep DEF Deny
<1>36. ASSUME NEW how \in {"exited", "terminated"}, Die(how)
      PROVE  ShapeOK'
  BY <1>36 DEF Die, Phases
<1>37. CASE UNCHANGED vars
  BY <1>37 DEF vars
<1>38. ASSUME NEW c \in Conns, BannerComes(c)
      PROVE  ShapeOK'
  BY <1>38 DEF BannerComes
<1>39. ASSUME NEW c \in Conns, HideFindsNothing(c)
      PROVE  ShapeOK'
  BY <1>39, GotoType DEF HideFindsNothing, Phases, Session, Bounded
<1> QED
  BY <1>1, <1>2, <1>3, <1>4, <1>5, <1>6, <1>7, <1>8, <1>9, <1>10, <1>11, <1>12, <1>13, <1>14, <1>15, <1>16, <1>17, <1>18, <1>19, <1>20, <1>21, <1>22, <1>23, <1>24, <1>25, <1>26, <1>27, <1>28, <1>29, <1>30, <1>31, <1>32, <1>33, <1>34, <1>35, <1>36, <1>37, <1>38, <1>39
     DEF Next, AcceptLoop, SessionStep, SessionEvent, Exit, Throw, Ended

\* Every step keeps in the phase "held" what the accept loop decides about.
LEMMA InHandInductive ==
    ASSUME ShapeOK, InHand, [Next]_vars
    PROVE  InHand'
<1> USE DEF ShapeOK, InHand
<1>1. CASE Boot
  BY <1>1 DEF Boot
<1>2. CASE BootFails
  BY <1>2 DEF BootFails
<1>3. CASE LoopTest
  BY <1>3 DEF LoopTest
<1>4. CASE AcceptClosed
  BY <1>4 DEF AcceptClosed, AcceptReturnsNothing
<1>5. CASE RejectPeer
  BY <1>5 DEF RejectPeer, Goto
<1>6. CASE TakeSlot
  BY <1>6 DEF TakeSlot
<1>7. CASE RejectOver
  BY <1>7 DEF RejectOver, Goto
<1>8. CASE Admit
  BY <1>8 DEF Admit, Goto
<1>9. CASE WrapFails
  BY <1>9 DEF WrapFails, Goto
<1>10. CASE RunClose
  BY <1>10 DEF RunClose, CloseSocket
<1>11. CASE AcceptFails
  BY <1>11 DEF AcceptFails, AcceptReturnsNothing
<1>12. CASE Stop
  BY <1>12 DEF Stop, CloseSocket
<1>13. ASSUME NEW c \in Conns, Accept(c)
      PROVE  InHand'
  BY <1>13 DEF Accept, Goto
<1>14. ASSUME NEW c \in Conns, Connect(c)
      PROVE  InHand'
  BY <1>14 DEF Connect, Goto
<1>15. ASSUME NEW c \in Conns, Hangup(c)
      PROVE  InHand'
  BY <1>15 DEF Hangup, Goto
<1>16. ASSUME NEW c \in Conns, HandshakeFails(c)
      PROVE  InHand'
  BY <1>16 DEF HandshakeFails, Goto
<1>17. ASSUME NEW c \in Conns, GiveUp(c)
      PROVE  InHand'
  BY <1>17 DEF GiveUp, Goto
<1>18. ASSUME NEW c \in Conns, AuditAuth(c)
      PROVE  InHand'
  BY <1>18 DEF AuditAuth, Goto
<1>19. ASSUME NEW c \in Conns, ShowOverlay(c)
      PROVE  InHand'
  BY <1>19 DEF ShowOverlay, Goto
<1>20. ASSUME NEW c \in Conns, AuditStart(c)
      PROVE  InHand'
  BY <1>20 DEF AuditStart, Goto
<1>21. ASSUME NEW c \in Conns, LoopEnds(c)
      PROVE  InHand'
  BY <1>21 DEF LoopEnds, Goto
<1>22. ASSUME NEW c \in Conns, AuditEnd(c)
      PROVE  InHand'
  BY <1>22 DEF AuditEnd, Goto
<1>23. ASSUME NEW c \in Conns, HideOverlay(c)
      PROVE  InHand'
  BY <1>23 DEF HideOverlay, Goto
<1>24. ASSUME NEW c \in Conns, Leave(c)
      PROVE  InHand'
  BY <1>24 DEF Leave, Goto
<1>25. ASSUME NEW c \in Conns, HandshakeOk(c)
      PROVE  InHand'
  BY <1>25 DEF HandshakeOk, Goto
<1>26. ASSUME NEW c \in Conns, Hello(c)
      PROVE  InHand'
  BY <1>26 DEF Hello, Goto
<1>27. ASSUME NEW c \in Conns, AuthFails(c)
      PROVE  InHand'
  BY <1>27 DEF AuthFails, Goto
<1>28. ASSUME NEW c \in Conns, Input(c)
      PROVE  InHand'
  BY <1>28 DEF Input, Goto
<1>29. ASSUME NEW c \in Conns, Stream(c)
      PROVE  InHand'
  BY <1>29 DEF Stream, Goto
<1>30. ASSUME NEW c \in Conns, FrameBegins(c)
      PROVE  InHand'
  BY <1>30 DEF FrameBegins, Goto
<1>31. ASSUME NEW c \in Conns, FrameEnds(c)
      PROVE  InHand'
  BY <1>31 DEF FrameEnds, Goto
<1>32. ASSUME NEW c \in Conns, Bye(c)
      PROVE  InHand'
  BY <1>32 DEF Bye, Goto
<1>33. ASSUME NEW c \in Conns, NEW r \in Accounts, AuthOk(c, r)
      PROVE  InHand'
  BY <1>33 DEF AuthOk, Goto
<1>34. ASSUME NEW c \in Conns, NEW m \in Modes, StartSession(c, m)
      PROVE  InHand'
  BY <1>34 DEF StartSession, Goto
<1>35. ASSUME NEW c \in Conns, NEW m \in Modes, Deny(c, m)
      PROVE  InHand'
  BY <1>35 DEF Deny, Goto
<1>36. ASSUME NEW how \in {"exited", "terminated"}, Die(how)
      PROVE  InHand'
  BY <1>36 DEF Die
<1>37. CASE UNCHANGED vars
  BY <1>37 DEF vars
<1>38. ASSUME NEW c \in Conns, BannerComes(c)
      PROVE  InHand'
  BY <1>38 DEF BannerComes
<1>39. ASSUME NEW c \in Conns, HideFindsNothing(c)
      PROVE  InHand'
  BY <1>39 DEF HideFindsNothing, Goto
<1> QED
  BY <1>1, <1>2, <1>3, <1>4, <1>5, <1>6, <1>7, <1>8, <1>9, <1>10, <1>11, <1>12, <1>13, <1>14, <1>15, <1>16, <1>17, <1>18, <1>19, <1>20, <1>21, <1>22, <1>23, <1>24, <1>25, <1>26, <1>27, <1>28, <1>29, <1>30, <1>31, <1>32, <1>33, <1>34, <1>35, <1>36, <1>37, <1>38, <1>39
     DEF Next, AcceptLoop, SessionStep, SessionEvent, Exit, Throw, Ended

-----------------------------------------------------------------------------
(* The slots.  The counter equals the sessions that hold one; below the     *)
(* cap when run() decides to admit, hence at the cap at most afterwards.    *)
SlotInv ==
    /\ active >= 0
    /\ SlotsExact
    /\ SessionCap
    /\ runPc = "admit" => Cardinality(Holding) < MaxSessions
    /\ process # "up" => runPc = "returned" /\ Holding = {}

\* The sessions that hold slots are finitely many.
LEMMA HoldingFinite == IsFiniteSet(Holding) /\ Cardinality(Holding) \in Nat
<1>1. Holding \subseteq Conns
  BY DEF Holding
<1> QED
  BY <1>1, FS_Subset, FS_CardinalityType

\* What a move from one phase to another does to the sessions that hold slots.
LEMMA HoldingSame ==
    ASSUME ShapeOK, NEW c \in Conns, NEW p \in Phases, Goto(c, p),
           phase[c] \in Session <=> p \in Session
    PROVE  Holding' = Holding
  BY DEF ShapeOK, Goto, Holding

\* A connection that becomes a session is one more of them.
LEMMA HoldingGains ==
    ASSUME ShapeOK, NEW c \in Conns, NEW p \in Session, Goto(c, p),
           phase[c] \notin Session
    PROVE  Cardinality(Holding)' = Cardinality(Holding) + 1
<1>1. Holding' = Holding \cup {c} /\ c \notin Holding
  BY DEF ShapeOK, Goto, Holding
<1> QED
  BY <1>1, HoldingFinite, FS_AddElement

\* A session that leaves was one of them.
LEMMA HoldingLoses ==
    ASSUME ShapeOK, NEW c \in Conns, NEW p \in Phases, Goto(c, p),
           phase[c] \in Session, p \notin Session
    PROVE  /\ Cardinality(Holding)' = Cardinality(Holding) - 1
           /\ Cardinality(Holding) >= 1
<1>1. Holding' = Holding \ {c} /\ c \in Holding
  BY DEF ShapeOK, Goto, Holding
<1>2. Cardinality(Holding) # 0
  BY <1>1, HoldingFinite, FS_EmptySet
<1>3. Cardinality(Holding \ {c}) = Cardinality(Holding) - 1
  BY <1>1, HoldingFinite, FS_RemoveElement
<1> QED
  BY <1>1, <1>2, <1>3, HoldingFinite

\* A step that neither counts nor admits nor leaves.
LEMMA QuietStep ==
    ASSUME SlotInv, UNCHANGED <<process, active, Holding>>,
           \/ runPc' = runPc
           \/ /\ runPc \notin {"over", "admit", "returned"}
              /\ runPc' \notin {"over", "admit"}
    PROVE  SlotInv'
  BY DEF SlotInv, SlotsExact, SessionCap

\* Every step keeps the count of the slots and the cap.
LEMMA SlotInductive ==
    ASSUME ShapeOK, InHand, SlotInv, [Next]_vars
    PROVE  SlotInv'
<1> USE DEF Phases, Session, Bounded
<1>1. CASE Boot
  <2>1. Holding' = Holding
    BY <1>1 DEF Boot, Holding
  <2> QED
    BY <1>1, <2>1, QuietStep DEF Boot
<1>2. CASE BootFails
  <2>1. Holding' = Holding
    BY <1>2 DEF BootFails, Holding
  <2> QED
    BY <1>2, <2>1, QuietStep DEF BootFails
<1>3. CASE LoopTest
  <2>1. Holding' = Holding
    BY <1>3 DEF LoopTest, Holding
  <2> QED
    BY <1>3, <2>1, QuietStep DEF LoopTest
<1>4. CASE AcceptClosed
  <2>1. Holding' = Holding
    BY <1>4 DEF AcceptClosed, AcceptReturnsNothing, Holding
  <2> QED
    BY <1>4, <2>1, QuietStep DEF AcceptClosed, AcceptReturnsNothing
<1>5. CASE RejectPeer
  <2>1. Holding' = Holding
    BY <1>5, HoldingSame DEF RejectPeer, InHand
  <2> QED
    BY <1>5, <2>1, QuietStep DEF RejectPeer
<1>6. CASE TakeSlot
  <2>1. Holding' = Holding
    BY <1>6 DEF TakeSlot, Holding
  <2> QED
    BY <1>6, <2>1, HoldingFinite DEF TakeSlot, SlotInv, SlotsExact, SessionCap, ShapeOK
<1>7. CASE RejectOver
  <2>1. Holding' = Holding
    BY <1>7, HoldingSame DEF RejectOver, InHand
  <2>2. process = "up" /\ active = Cardinality(Holding) + 1
    BY <1>7 DEF RejectOver, SlotInv, SlotsExact
  <2>3. /\ process' = process /\ runPc' = "loop"
        /\ active' = active - 1 /\ Cardinality(Holding)' = Cardinality(Holding)
    BY <1>7, <2>1 DEF RejectOver
  <2> QED
    BY <2>1, <2>2, <2>3, HoldingFinite DEF SlotInv, SlotsExact, SessionCap
<1>8. CASE Admit
  <2>1. Cardinality(Holding)' = Cardinality(Holding) + 1
    BY <1>8, HoldingGains DEF Admit, InHand
  <2> QED
    BY <1>8, <2>1, HoldingFinite DEF Admit, SlotInv, SlotsExact, SessionCap, ShapeOK
<1>9. CASE WrapFails
  <2>1. Holding' = Holding
    BY <1>9, HoldingSame DEF WrapFails, InHand
  <2>2. process = "up" /\ active = Cardinality(Holding) + 1
    BY <1>9 DEF WrapFails, SlotInv, SlotsExact
  <2>3. /\ process' = process /\ runPc' = "loop"
        /\ active' = active - 1 /\ Cardinality(Holding)' = Cardinality(Holding)
    BY <1>9, <2>1 DEF WrapFails
  <2> QED
    BY <2>1, <2>2, <2>3, HoldingFinite DEF SlotInv, SlotsExact, SessionCap
<1>10. CASE RunClose
  <2>1. Holding' = Holding
    BY <1>10 DEF RunClose, CloseSocket, Holding
  <2> QED
    BY <1>10, <2>1, QuietStep DEF RunClose, CloseSocket
<1>11. CASE AcceptFails
  <2>1. Holding' = Holding
    BY <1>11 DEF AcceptFails, AcceptReturnsNothing, Holding
  <2> QED
    BY <1>11, <2>1, QuietStep DEF AcceptFails, AcceptReturnsNothing
<1>12. CASE Stop
  <2>1. Holding' = Holding
    BY <1>12 DEF Stop, CloseSocket, Holding
  <2> QED
    BY <1>12, <2>1, QuietStep DEF Stop, CloseSocket
<1>13. ASSUME NEW c \in Conns, Accept(c)
      PROVE  SlotInv'
  <2>1. Holding' = Holding
    BY <1>13, HoldingSame DEF Accept
  <2> QED
    BY <1>13, <2>1, QuietStep DEF Accept
<1>14. ASSUME NEW c \in Conns, Connect(c)
      PROVE  SlotInv'
  <2>1. Holding' = Holding
    BY <1>14, HoldingSame DEF Connect
  <2> QED
    BY <1>14, <2>1, QuietStep DEF Connect
<1>15. ASSUME NEW c \in Conns, Hangup(c)
      PROVE  SlotInv'
  <2>1. Holding' = Holding
    BY <1>15 DEF Hangup, Holding
  <2> QED
    BY <1>15, <2>1, QuietStep DEF Hangup
<1>16. ASSUME NEW c \in Conns, HandshakeFails(c)
      PROVE  SlotInv'
  <2>1. Holding' = Holding
    BY <1>16, HoldingSame DEF HandshakeFails
  <2> QED
    BY <1>16, <2>1, QuietStep DEF HandshakeFails
<1>17. ASSUME NEW c \in Conns, GiveUp(c)
      PROVE  SlotInv'
  <2>1. Holding' = Holding
    BY <1>17, HoldingSame DEF GiveUp
  <2> QED
    BY <1>17, <2>1, QuietStep DEF GiveUp
<1>18. ASSUME NEW c \in Conns, AuditAuth(c)
      PROVE  SlotInv'
  <2>1. Holding' = Holding
    <3>1. \E p \in {"mode", "leaving"} : Goto(c, p) /\ phase[c] \in {"grant", "refuse"}
      BY <1>18 DEF AuditAuth
    <3> QED
      BY <3>1, HoldingSame
  <2> QED
    BY <1>18, <2>1, QuietStep DEF AuditAuth
<1>19. ASSUME NEW c \in Conns, ShowOverlay(c)
      PROVE  SlotInv'
  <2>1. Holding' = Holding
    BY <1>19, HoldingSame DEF ShowOverlay
  <2> QED
    BY <1>19, <2>1, QuietStep DEF ShowOverlay
<1>20. ASSUME NEW c \in Conns, AuditStart(c)
      PROVE  SlotInv'
  <2>1. Holding' = Holding
    BY <1>20, HoldingSame DEF AuditStart
  <2> QED
    BY <1>20, <2>1, QuietStep DEF AuditStart
<1>21. ASSUME NEW c \in Conns, LoopEnds(c)
      PROVE  SlotInv'
  <2>1. Holding' = Holding
    BY <1>21, HoldingSame DEF LoopEnds
  <2> QED
    BY <1>21, <2>1, QuietStep DEF LoopEnds
<1>22. ASSUME NEW c \in Conns, AuditEnd(c)
      PROVE  SlotInv'
  <2>1. Holding' = Holding
    BY <1>22, HoldingSame DEF AuditEnd
  <2> QED
    BY <1>22, <2>1, QuietStep DEF AuditEnd
<1>23. ASSUME NEW c \in Conns, HideOverlay(c)
      PROVE  SlotInv'
  <2>1. Holding' = Holding
    BY <1>23, HoldingSame DEF HideOverlay
  <2> QED
    BY <1>23, <2>1, QuietStep DEF HideOverlay
<1>24. ASSUME NEW c \in Conns, Leave(c)
      PROVE  SlotInv'
  <2>1. /\ Cardinality(Holding)' = Cardinality(Holding) - 1
        /\ Cardinality(Holding) >= 1
    BY <1>24, HoldingLoses DEF Leave
  <2>2. process = "up"
    BY <1>24 DEF Leave, SlotInv, Holding
  <2> QED
    BY <1>24, <2>1, <2>2, HoldingFinite
       DEF Leave, SlotInv, SlotsExact, SessionCap, ShapeOK
<1>25. ASSUME NEW c \in Conns, HandshakeOk(c)
      PROVE  SlotInv'
  <2>1. Holding' = Holding
    BY <1>25, HoldingSame DEF HandshakeOk
  <2> QED
    BY <1>25, <2>1, QuietStep DEF HandshakeOk
<1>26. ASSUME NEW c \in Conns, Hello(c)
      PROVE  SlotInv'
  <2>1. Holding' = Holding
    BY <1>26, HoldingSame DEF Hello
  <2> QED
    BY <1>26, <2>1, QuietStep DEF Hello
<1>27. ASSUME NEW c \in Conns, AuthFails(c)
      PROVE  SlotInv'
  <2>1. Holding' = Holding
    BY <1>27, HoldingSame DEF AuthFails
  <2> QED
    BY <1>27, <2>1, QuietStep DEF AuthFails
<1>28. ASSUME NEW c \in Conns, Input(c)
      PROVE  SlotInv'
  <2>1. Holding' = Holding
    BY <1>28 DEF Input, Holding
  <2> QED
    BY <1>28, <2>1, QuietStep DEF Input
<1>29. ASSUME NEW c \in Conns, Stream(c)
      PROVE  SlotInv'
  <2>1. Holding' = Holding
    BY <1>29 DEF Stream, Holding
  <2> QED
    BY <1>29, <2>1, QuietStep DEF Stream
<1>30. ASSUME NEW c \in Conns, FrameBegins(c)
      PROVE  SlotInv'
  <2>1. Holding' = Holding
    BY <1>30, HoldingSame DEF FrameBegins
  <2> QED
    BY <1>30, <2>1, QuietStep DEF FrameBegins
<1>31. ASSUME NEW c \in Conns, FrameEnds(c)
      PROVE  SlotInv'
  <2>1. Holding' = Holding
    BY <1>31, HoldingSame DEF FrameEnds
  <2> QED
    BY <1>31, <2>1, QuietStep DEF FrameEnds
<1>32. ASSUME NEW c \in Conns, Bye(c)
      PROVE  SlotInv'
  <2>1. Holding' = Holding
    BY <1>32, HoldingSame DEF Bye
  <2> QED
    BY <1>32, <2>1, QuietStep DEF Bye
<1>33. ASSUME NEW c \in Conns, NEW r \in Accounts, AuthOk(c, r)
      PROVE  SlotInv'
  <2>1. Holding' = Holding
    BY <1>33, HoldingSame DEF AuthOk
  <2> QED
    BY <1>33, <2>1, QuietStep DEF AuthOk
<1>34. ASSUME NEW c \in Conns, NEW m \in Modes, StartSession(c, m)
      PROVE  SlotInv'
  <2>1. Holding' = Holding
    BY <1>34, HoldingSame DEF StartSession
  <2> QED
    BY <1>34, <2>1, QuietStep DEF StartSession
<1>35. ASSUME NEW c \in Conns, NEW m \in Modes, Deny(c, m)
      PROVE  SlotInv'
  <2>1. Holding' = Holding
    BY <1>35, HoldingSame DEF Deny
  <2> QED
    BY <1>35, <2>1, QuietStep DEF Deny
<1>36. ASSUME NEW how \in {"exited", "terminated"}, Die(how)
      PROVE  SlotInv'
  <2>1. Holding' = {}
    BY <1>36 DEF Die, Holding
  <2>2. Cardinality(Holding)' = 0
    BY <2>1, FS_EmptySet
  <2> QED
    BY <1>36, <2>1, <2>2 DEF Die, SlotInv, SlotsExact, SessionCap
<1>37. CASE UNCHANGED vars
  <2>1. Holding' = Holding
    BY <1>37 DEF vars, Holding
  <2> QED
    BY <1>37, <2>1, QuietStep DEF vars
<1>38. ASSUME NEW c \in Conns, BannerComes(c)
      PROVE  SlotInv'
  <2>1. Holding' = Holding
    BY <1>38 DEF BannerComes, Holding
  <2> QED
    BY <1>38, <2>1, QuietStep DEF BannerComes
<1>39. ASSUME NEW c \in Conns, HideFindsNothing(c)
      PROVE  SlotInv'
  <2>1. Holding' = Holding
    BY <1>39, HoldingSame DEF HideFindsNothing
  <2> QED
    BY <1>39, <2>1, QuietStep DEF HideFindsNothing
<1> QED
  BY <1>1, <1>2, <1>3, <1>4, <1>5, <1>6, <1>7, <1>8, <1>9, <1>10, <1>11, <1>12, <1>13, <1>14, <1>15, <1>16, <1>17, <1>18, <1>19, <1>20, <1>21, <1>22, <1>23, <1>24, <1>25, <1>26, <1>27, <1>28, <1>29, <1>30, <1>31, <1>32, <1>33, <1>34, <1>35, <1>36, <1>37, <1>38, <1>39
     DEF Next, AcceptLoop, SessionStep, SessionEvent, Exit, Throw, Ended

-----------------------------------------------------------------------------
(* The listener.  fd_ is cleared only after the socket is closed, by        *)
(* whichever thread, so a socket that is open is one run() still sees.      *)
ListenerInv ==
    /\ handle = "open" => fd
    /\ runPc = "boot" => ~fd /\ stopPc \notin {"closing", "closed"}
    /\ runPc \in {"closed", "returned"} => handle # "open"
    /\ stopPc = "closed" => handle # "open"

\* A step that leaves the listener and stop() alone, and run() in its loop.
LEMMA QuietListener ==
    ASSUME ListenerInv, UNCHANGED <<fd, handle, stopPc>>,
           runPc' = runPc \/ runPc' \notin {"boot", "closed", "returned"}
    PROVE  ListenerInv'
  BY DEF ListenerInv

\* Every step of run() and stop() keeps what they know of the socket.
LEMMA ListenerInductive ==
    ASSUME ShapeOK, ListenerInv, [Next]_vars
    PROVE  ListenerInv'
<1>1. CASE Boot
  BY <1>1 DEF Boot, ListenerInv
<1>2. CASE BootFails
  BY <1>2 DEF BootFails, ListenerInv
<1>3. CASE LoopTest
  BY <1>3, QuietListener DEF LoopTest
<1>4. CASE AcceptClosed
  BY <1>4, QuietListener DEF AcceptClosed, AcceptReturnsNothing
<1>5. CASE RejectPeer
  BY <1>5, QuietListener DEF RejectPeer
<1>6. CASE TakeSlot
  BY <1>6, QuietListener DEF TakeSlot
<1>7. CASE RejectOver
  BY <1>7, QuietListener DEF RejectOver
<1>8. CASE Admit
  BY <1>8, QuietListener DEF Admit
<1>9. CASE WrapFails
  BY <1>9, QuietListener DEF WrapFails
<1>10. CASE RunClose
  BY <1>10 DEF RunClose, CloseSocket, ListenerInv
<1>11. CASE AcceptFails
  BY <1>11, QuietListener DEF AcceptFails, AcceptReturnsNothing
<1>12. CASE Stop
  BY <1>12 DEF Stop, CloseSocket, ListenerInv
<1>13. ASSUME NEW c \in Conns, Accept(c)
      PROVE  ListenerInv'
  BY <1>13, QuietListener DEF Accept
<1>14. ASSUME NEW c \in Conns, Connect(c)
      PROVE  ListenerInv'
  BY <1>14, QuietListener DEF Connect
<1>15. ASSUME NEW c \in Conns, Hangup(c)
      PROVE  ListenerInv'
  BY <1>15, QuietListener DEF Hangup
<1>16. ASSUME NEW c \in Conns, HandshakeFails(c)
      PROVE  ListenerInv'
  BY <1>16, QuietListener DEF HandshakeFails
<1>17. ASSUME NEW c \in Conns, GiveUp(c)
      PROVE  ListenerInv'
  BY <1>17, QuietListener DEF GiveUp
<1>18. ASSUME NEW c \in Conns, AuditAuth(c)
      PROVE  ListenerInv'
  BY <1>18, QuietListener DEF AuditAuth
<1>19. ASSUME NEW c \in Conns, ShowOverlay(c)
      PROVE  ListenerInv'
  BY <1>19, QuietListener DEF ShowOverlay
<1>20. ASSUME NEW c \in Conns, AuditStart(c)
      PROVE  ListenerInv'
  BY <1>20, QuietListener DEF AuditStart
<1>21. ASSUME NEW c \in Conns, LoopEnds(c)
      PROVE  ListenerInv'
  BY <1>21, QuietListener DEF LoopEnds
<1>22. ASSUME NEW c \in Conns, AuditEnd(c)
      PROVE  ListenerInv'
  BY <1>22, QuietListener DEF AuditEnd
<1>23. ASSUME NEW c \in Conns, HideOverlay(c)
      PROVE  ListenerInv'
  BY <1>23, QuietListener DEF HideOverlay
<1>24. ASSUME NEW c \in Conns, Leave(c)
      PROVE  ListenerInv'
  BY <1>24, QuietListener DEF Leave
<1>25. ASSUME NEW c \in Conns, HandshakeOk(c)
      PROVE  ListenerInv'
  BY <1>25, QuietListener DEF HandshakeOk
<1>26. ASSUME NEW c \in Conns, Hello(c)
      PROVE  ListenerInv'
  BY <1>26, QuietListener DEF Hello
<1>27. ASSUME NEW c \in Conns, AuthFails(c)
      PROVE  ListenerInv'
  BY <1>27, QuietListener DEF AuthFails
<1>28. ASSUME NEW c \in Conns, Input(c)
      PROVE  ListenerInv'
  BY <1>28, QuietListener DEF Input
<1>29. ASSUME NEW c \in Conns, Stream(c)
      PROVE  ListenerInv'
  BY <1>29, QuietListener DEF Stream
<1>30. ASSUME NEW c \in Conns, FrameBegins(c)
      PROVE  ListenerInv'
  BY <1>30, QuietListener DEF FrameBegins
<1>31. ASSUME NEW c \in Conns, FrameEnds(c)
      PROVE  ListenerInv'
  BY <1>31, QuietListener DEF FrameEnds
<1>32. ASSUME NEW c \in Conns, Bye(c)
      PROVE  ListenerInv'
  BY <1>32, QuietListener DEF Bye
<1>33. ASSUME NEW c \in Conns, NEW r \in Accounts, AuthOk(c, r)
      PROVE  ListenerInv'
  BY <1>33, QuietListener DEF AuthOk
<1>34. ASSUME NEW c \in Conns, NEW m \in Modes, StartSession(c, m)
      PROVE  ListenerInv'
  BY <1>34, QuietListener DEF StartSession
<1>35. ASSUME NEW c \in Conns, NEW m \in Modes, Deny(c, m)
      PROVE  ListenerInv'
  BY <1>35, QuietListener DEF Deny
<1>36. ASSUME NEW how \in {"exited", "terminated"}, Die(how)
      PROVE  ListenerInv'
  BY <1>36 DEF Die, ListenerInv
<1>37. CASE UNCHANGED vars
  BY <1>37, QuietListener DEF vars
<1>38. ASSUME NEW c \in Conns, BannerComes(c)
      PROVE  ListenerInv'
  BY <1>38, QuietListener DEF BannerComes
<1>39. ASSUME NEW c \in Conns, HideFindsNothing(c)
      PROVE  ListenerInv'
  BY <1>39, QuietListener DEF HideFindsNothing
<1> QED
  BY <1>1, <1>2, <1>3, <1>4, <1>5, <1>6, <1>7, <1>8, <1>9, <1>10, <1>11, <1>12, <1>13, <1>14, <1>15, <1>16, <1>17, <1>18, <1>19, <1>20, <1>21, <1>22, <1>23, <1>24, <1>25, <1>26, <1>27, <1>28, <1>29, <1>30, <1>31, <1>32, <1>33, <1>34, <1>35, <1>36, <1>37, <1>38, <1>39
     DEF Next, AcceptLoop, SessionStep, SessionEvent, Exit, Throw, Ended

-----------------------------------------------------------------------------
IInv == ShapeOK /\ InHand /\ SlotInv /\ ListenerInv

\* The slots and the listener together are an invariant.
LEMMA Inductive == Spec => []IInv
<1>1. Init => IInv
  <2> SUFFICES ASSUME Init PROVE IInv
    OBVIOUS
  <2>1. ShapeOK
    <3>1. /\ phase \in [Conns -> Phases]
          /\ rights \in [Conns -> Accounts \cup {{}}]
          /\ mode \in [Conns -> Modes]
          /\ rows \in [Conns -> Seq(Rows)]
          /\ banner \in [Conns -> {"none", "coming", "shown", "failed"}]
      BY DEF Init, Phases, Modes
    <3>2. running \in BOOLEAN /\ fd \in BOOLEAN /\ allowed \subseteq Conns
      BY DEF Init
    <3>3. /\ active \in Int
          /\ cur \in Conns \cup {None}
      BY DEF Init
    <3>4. /\ process = "up" /\ handle = "none" /\ runPc = "boot" /\ stopPc = "idle"
          /\ gone = {} /\ injected = {} /\ watched = {}
      BY DEF Init
    <3> QED
      BY <3>1, <3>2, <3>3, <3>4 DEF ShapeOK
  <2>2. Holding = {}
    BY DEF Init, Holding, Session, Bounded
  <2>3. Cardinality(Holding) = 0
    BY <2>2, FS_EmptySet
  <2> QED
    BY <2>1, <2>2, <2>3 DEF IInv, InHand, SlotInv, ListenerInv, SlotsExact, SessionCap, Init
<1>2. IInv /\ [Next]_vars => IInv'
  BY ShapeInductive, InHandInductive, SlotInductive, ListenerInductive DEF IInv
<1> QED
  BY <1>1, <1>2, PTL DEF Spec

\* The variables keep their types; in particular activeSessions_, an unsigned
\* counter that many threads decrement, never passes below zero.
THEOREM TypeCorrect == Spec => []TypeOK
<1>1. IInv => TypeOK
  BY DEF IInv, SlotInv, TypeOK
<1> QED
  BY <1>1, Inductive, PTL

\* The slot counter counts the session threads, exactly and in every state, and
\* there are never more of them than maxSessions.
THEOREM SlotsCorrect == Spec => []SlotsKept
<1>1. IInv => SlotsKept
  BY DEF IInv, SlotInv, SlotsKept
<1> QED
  BY <1>1, Inductive, PTL

\* When run() has returned nothing listens on the port any more, in whatever
\* order run() and stop() tested, closed and cleared the shared fd_.
THEOREM PortFreed == Spec => []PortFreeOnReturn
<1>1. IInv => PortFreeOnReturn
  BY DEF IInv, ListenerInv, PortFreeOnReturn
<1> QED
  BY <1>1, Inductive, PTL

-----------------------------------------------------------------------------
(* What a session may do, and what the log says of it.                     *)

Turned   == << "reject" >>
Came     == << "accept" >>
NoLogin  == << "accept", "auth failed" >>
LoggedIn == << "accept", "auth ok" >>
Refused  == << "accept", "auth ok", "denied" >>
Started  == << "accept", "auth ok", "start" >>
Whole    == << "accept", "auth ok", "start", "end" >>

\* The rows a connection may have caused when it is in a phase.
Trails(p) ==
    CASE p \in {"away", "backlog", "held"} -> { << >> }
      [] p \in {"handshake", "hello", "login", "grant", "refuse"} -> {Came}
      [] p \in {"mode", "banner", "record"} -> {LoggedIn}
      [] p \in {"open", "midframe", "ending"} -> {Started}
      [] p \in {"hide", "joining"} -> {Whole}
      [] p = "leaving" -> {Came, NoLogin, LoggedIn, Refused, Whole}
      [] p = "done" -> {Turned, Came, NoLogin, LoggedIn, Refused, Whole}
      [] OTHER -> { << >>, Turned, Came, NoLogin, LoggedIn, Refused, Started, Whole}

\* Where a session can be that has sent the screen or taken input.
Past == {"open", "midframe", "ending", "hide", "joining", "leaving", "done", "killed"}

\* What is true of one connection.  Rights are set at the login and the mode
\* when the session starts, both before the session can act.
Story(c) ==
    /\ rows[c] \in Trails(phase[c])
    /\ phase[c] \in Session => c \in allowed
    /\ c \in injected \cup watched =>
          /\ c \in allowed /\ phase[c] \in Past
          /\ rows[c] \in {Started, Whole}
    /\ c \in injected => CanControl(c)
    /\ c \in watched => CanView(c)

\* run() counts a slot only for a peer the filter has let through.
StoryInv ==
    /\ runPc \in {"over", "admit"} => cur \in allowed
    /\ \A c \in Conns : Story(c)

-----------------------------------------------------------------------------
\* A row added to the one sequence makes the other.
LEMMA Extends ==
    ASSUME NEW s \in Seq(Rows), NEW t \in Seq(Rows), NEW row \in Rows,
           Len(t) = Len(s) + 1, \A i \in 1 .. Len(s) : t[i] = s[i], t[Len(s) + 1] = row
    PROVE  Append(s, row) = t
<1>1. /\ Append(s, row) \in Seq(Rows)
      /\ Len(Append(s, row)) = Len(t)
      /\ \A i \in 1 .. Len(t) : Append(s, row)[i] = t[i]
  OBVIOUS
<1> QED
  BY <1>1, SeqEqual

\* The stories are sequences of rows.
LEMMA Stories ==
    /\ << >> \in Seq(Rows) /\ Turned \in Seq(Rows) /\ Came \in Seq(Rows)
    /\ NoLogin \in Seq(Rows) /\ LoggedIn \in Seq(Rows) /\ Refused \in Seq(Rows)
    /\ Started \in Seq(Rows) /\ Whole \in Seq(Rows)
  BY DEF Turned, Came, LoggedIn, NoLogin, Refused, Started, Whole, Rows

\* How long each story is.
LEMMA Lengths ==
    /\ Len(<< >>) = 0 /\ Len(Turned) = 1 /\ Len(Came) = 1
    /\ Len(NoLogin) = 2 /\ Len(LoggedIn) = 2
    /\ Len(Refused) = 3 /\ Len(Started) = 3 /\ Len(Whole) = 4
  BY DEF Turned, Came, LoggedIn, NoLogin, Refused, Started, Whole

\* Which story follows another by one row.
LEMMA Appends ==
    /\ Append(<< >>, "reject") = Turned
    /\ Append(<< >>, "accept") = Came
    /\ Append(Came, "auth ok") = LoggedIn
    /\ Append(Came, "auth failed") = NoLogin
    /\ Append(LoggedIn, "denied") = Refused
    /\ Append(LoggedIn, "start") = Started
    /\ Append(Started, "end") = Whole
<1>1. Append(<< >>, "reject") = Turned
  <2>1. "reject" \in Rows
    BY DEF Rows
  <2>2. (\A i \in 1 .. 0 : Turned[i] = << >>[i]) /\ Turned[1] = "reject"
    BY DEF Turned
  <2>3. Len(Turned) = Len(<< >>) + 1 /\ (\A i \in 1 .. Len(<< >>) : Turned[i] = << >>[i])
    BY <2>2, Lengths
  <2>4. Turned[Len(<< >>) + 1] = "reject"
    BY <2>2, Lengths
  <2> QED
    BY <2>1, <2>3, <2>4, Stories, Extends
<1>2. Append(<< >>, "accept") = Came
  <2>1. "accept" \in Rows
    BY DEF Rows
  <2>2. (\A i \in 1 .. 0 : Came[i] = << >>[i]) /\ Came[1] = "accept"
    BY DEF Came
  <2>3. Len(Came) = Len(<< >>) + 1 /\ (\A i \in 1 .. Len(<< >>) : Came[i] = << >>[i])
    BY <2>2, Lengths
  <2>4. Came[Len(<< >>) + 1] = "accept"
    BY <2>2, Lengths
  <2> QED
    BY <2>1, <2>3, <2>4, Stories, Extends
<1>3. Append(Came, "auth ok") = LoggedIn
  <2>1. "auth ok" \in Rows
    BY DEF Rows
  <2>2. LoggedIn[1] = Came[1] /\ LoggedIn[2] = "auth ok"
    BY DEF Came, LoggedIn
  <2>3. Len(LoggedIn) = Len(Came) + 1 /\ (\A i \in 1 .. Len(Came) : LoggedIn[i] = Came[i])
    <3>1. Len(Came) = 1 /\ Len(LoggedIn) = 2
      BY Lengths
    <3>2. ASSUME NEW i \in 1 .. Len(Came) PROVE LoggedIn[i] = Came[i]
      <4>1. i = 1
        BY <3>1
      <4> QED
        BY <2>2, <4>1
    <3> QED
      BY <3>1, <3>2
  <2>4. LoggedIn[Len(Came) + 1] = "auth ok"
    <3>1. Len(Came) + 1 = 2
      BY Lengths
    <3> QED
      BY <2>2, <3>1
  <2> QED
    BY <2>1, <2>3, <2>4, Stories, Extends
<1>4. Append(Came, "auth failed") = NoLogin
  <2>1. "auth failed" \in Rows
    BY DEF Rows
  <2>2. NoLogin[1] = Came[1] /\ NoLogin[2] = "auth failed"
    BY DEF Came, NoLogin
  <2>3. Len(NoLogin) = Len(Came) + 1 /\ (\A i \in 1 .. Len(Came) : NoLogin[i] = Came[i])
    <3>1. Len(Came) = 1 /\ Len(NoLogin) = 2
      BY Lengths
    <3>2. ASSUME NEW i \in 1 .. Len(Came) PROVE NoLogin[i] = Came[i]
      <4>1. i = 1
        BY <3>1
      <4> QED
        BY <2>2, <4>1
    <3> QED
      BY <3>1, <3>2
  <2>4. NoLogin[Len(Came) + 1] = "auth failed"
    <3>1. Len(Came) + 1 = 2
      BY Lengths
    <3> QED
      BY <2>2, <3>1
  <2> QED
    BY <2>1, <2>3, <2>4, Stories, Extends
<1>5. Append(LoggedIn, "denied") = Refused
  <2>1. "denied" \in Rows
    BY DEF Rows
  <2>2. (\A i \in 1 .. 2 : Refused[i] = LoggedIn[i]) /\ Refused[3] = "denied"
    BY DEF LoggedIn, Refused
  <2>3. Len(Refused) = Len(LoggedIn) + 1 /\ (\A i \in 1 .. Len(LoggedIn) : Refused[i] = LoggedIn[i])
    BY <2>2, Lengths
  <2>4. Refused[Len(LoggedIn) + 1] = "denied"
    BY <2>2, Lengths
  <2> QED
    BY <2>1, <2>3, <2>4, Stories, Extends
<1>6. Append(LoggedIn, "start") = Started
  <2>1. "start" \in Rows
    BY DEF Rows
  <2>2. (\A i \in 1 .. 2 : Started[i] = LoggedIn[i]) /\ Started[3] = "start"
    BY DEF LoggedIn, Started
  <2>3. Len(Started) = Len(LoggedIn) + 1 /\ (\A i \in 1 .. Len(LoggedIn) : Started[i] = LoggedIn[i])
    BY <2>2, Lengths
  <2>4. Started[Len(LoggedIn) + 1] = "start"
    BY <2>2, Lengths
  <2> QED
    BY <2>1, <2>3, <2>4, Stories, Extends
<1>7. Append(Started, "end") = Whole
  <2>1. "end" \in Rows
    BY DEF Rows
  <2>2. (\A i \in 1 .. 3 : Whole[i] = Started[i]) /\ Whole[4] = "end"
    BY DEF Started, Whole
  <2>3. Len(Whole) = Len(Started) + 1 /\ (\A i \in 1 .. Len(Started) : Whole[i] = Started[i])
    BY <2>2, Lengths
  <2>4. Whole[Len(Started) + 1] = "end"
    BY <2>2, Lengths
  <2> QED
    BY <2>1, <2>3, <2>4, Stories, Extends
<1> QED
  BY <1>1, <1>2, <1>3, <1>4, <1>5, <1>6, <1>7

\* Each of them is the beginning of one of the four full stories.
LEMMA Beginnings ==
    \A s \in { << >>, Turned, Came, NoLogin, LoggedIn, Refused, Started, Whole} :
        \E t \in FullTrails : Len(s) <= Len(t) /\ s = SubSeq(t, 1, Len(s))
<1>1. /\ Turned \in FullTrails /\ NoLogin \in FullTrails
      /\ Refused \in FullTrails /\ Whole \in FullTrails
  BY DEF FullTrails, Turned, NoLogin, Refused, Whole
<1>2. Len(<< >>) <= Len(Turned) /\ << >> = SubSeq(Turned, 1, Len(<< >>))
  <2>1. << >> = SubSeq(Turned, 1, 0)
    BY DEF Turned
  <2> QED
    BY <2>1, Lengths
<1>3. Len(Turned) <= Len(Turned) /\ Turned = SubSeq(Turned, 1, Len(Turned))
  <2>1. Turned = SubSeq(Turned, 1, 1)
    BY DEF Turned
  <2> QED
    BY <2>1, Lengths
<1>4. Len(Came) <= Len(NoLogin) /\ Came = SubSeq(NoLogin, 1, Len(Came))
  <2>1. Came = SubSeq(NoLogin, 1, 1)
    BY DEF Came, NoLogin
  <2> QED
    BY <2>1, Lengths
<1>5. Len(NoLogin) <= Len(NoLogin) /\ NoLogin = SubSeq(NoLogin, 1, Len(NoLogin))
  <2>1. NoLogin = SubSeq(NoLogin, 1, 2)
    BY DEF NoLogin
  <2> QED
    BY <2>1, Lengths
<1>6. Len(LoggedIn) <= Len(Refused) /\ LoggedIn = SubSeq(Refused, 1, Len(LoggedIn))
  <2>1. LoggedIn = SubSeq(Refused, 1, 2)
    BY DEF LoggedIn, Refused
  <2> QED
    BY <2>1, Lengths
<1>7. Len(Refused) <= Len(Refused) /\ Refused = SubSeq(Refused, 1, Len(Refused))
  <2>1. Refused = SubSeq(Refused, 1, 3)
    BY DEF Refused
  <2> QED
    BY <2>1, Lengths
<1>8. Len(Started) <= Len(Whole) /\ Started = SubSeq(Whole, 1, Len(Started))
  <2>1. Started = SubSeq(Whole, 1, 3)
    BY DEF Started, Whole
  <2> QED
    BY <2>1, Lengths
<1>9. Len(Whole) <= Len(Whole) /\ Whole = SubSeq(Whole, 1, Len(Whole))
  <2>1. Whole = SubSeq(Whole, 1, 4)
    BY DEF Whole
  <2> QED
    BY <2>1, Lengths
<1> QED
  BY <1>1, <1>2, <1>3, <1>4, <1>5, <1>6, <1>7, <1>8, <1>9

\* Those of a session that has acted tell of its login and its start.
LEMMA ActedOnRecord ==
    \A s \in {Started, Whole} : \A row \in {"auth ok", "start"} :
        \E i \in 1 .. Len(s) : s[i] = row
<1>1. Started[2] = "auth ok" /\ Started[3] = "start"
  BY DEF Started
<1>2. Whole[2] = "auth ok" /\ Whole[3] = "start"
  BY DEF Whole
<1>3. Len(Started) = 3 /\ Len(Whole) = 4
  BY Lengths
<1>4. 2 \in 1 .. 3 /\ 3 \in 1 .. 3 /\ 2 \in 1 .. 4 /\ 3 \in 1 .. 4
  OBVIOUS
<1> QED
  BY <1>1, <1>2, <1>3, <1>4

\* A step that moves one connection, whose rows then fit its phase, and that
\* lets nobody act.
LEMMA Moves ==
    ASSUME ShapeOK, NEW c \in Conns, \A d \in Conns : Story(d),
           NEW p \in Phases, Goto(c, p),
           NEW r \in Trails(p), rows' = [rows EXCEPT ![c] = r],
           p \in Session => c \in allowed,
           phase[c] \in Past => p \in Past /\ (rows[c] \in {Started, Whole} => r \in {Started, Whole}),
           UNCHANGED <<allowed, injected, watched>>,
           \A d \in injected \cup watched : rights'[d] = rights[d] /\ mode'[d] = mode[d]
    PROVE  \A d \in Conns : Story(d)'
<1> SUFFICES ASSUME NEW d \in Conns PROVE Story(d)'
  OBVIOUS
<1>1. rows'[c] = r /\ phase'[c] = p
  BY DEF ShapeOK, Goto
<1>2. d # c => rows'[d] = rows[d] /\ phase'[d] = phase[d]
  BY DEF ShapeOK, Goto
<1>3. (d \in injected => CanControl(d)') /\ (d \in watched => CanView(d)')
  BY DEF Story, CanControl, CanView
<1>4. CASE d = c
  BY <1>1, <1>3, <1>4 DEF Story
<1>5. CASE d # c
  BY <1>2, <1>3, <1>5 DEF Story
<1> QED
  BY <1>4, <1>5

\* A step of one connection without a row keeps every story.
LEMMA MovesSilently ==
    ASSUME ShapeOK, NEW c \in Conns, \A d \in Conns : Story(d),
           NEW p \in Phases, Goto(c, p), rows[c] \in Trails(p),
           p \in Session => c \in allowed,
           phase[c] \in Past => p \in Past,
           UNCHANGED <<allowed, injected, watched, rows>>,
           \A d \in injected \cup watched : rights'[d] = rights[d] /\ mode'[d] = mode[d]
    PROVE  \A d \in Conns : Story(d)'
<1>1. rows' = [rows EXCEPT ![c] = rows[c]]
  BY DEF ShapeOK
<1> QED
  BY <1>1, Moves

\* Every step keeps every connection's story.
LEMMA StoryInductive ==
    ASSUME ShapeOK, InHand, StoryInv, [Next]_vars
    PROVE  StoryInv'
<1>1. CASE Boot
  BY <1>1 DEF Boot, StoryInv, Story, CanControl, CanView
<1>2. CASE BootFails
  BY <1>2 DEF BootFails, StoryInv, Story, CanControl, CanView
<1>3. CASE LoopTest
  BY <1>3 DEF LoopTest, StoryInv, Story, CanControl, CanView
<1>4. CASE AcceptClosed
  BY <1>4 DEF AcceptClosed, AcceptReturnsNothing, StoryInv, Story, CanControl, CanView
<1>5. CASE AcceptFails
  BY <1>5 DEF AcceptFails, AcceptReturnsNothing, StoryInv, Story, CanControl, CanView
<1>6. CASE TakeSlot
  BY <1>6 DEF TakeSlot, StoryInv, Story, CanControl, CanView
<1>7. CASE RunClose
  BY <1>7 DEF RunClose, CloseSocket, StoryInv, Story, CanControl, CanView
<1>8. CASE Stop
  BY <1>8 DEF Stop, CloseSocket, StoryInv, Story, CanControl, CanView
<1>9. CASE RejectPeer
  <2>1. rows[cur] = << >> /\ phase[cur] \notin Past
    BY <1>9 DEF RejectPeer, StoryInv, Story, InHand, Trails, Past
  <2>2. rows' = [rows EXCEPT ![cur] = Turned] /\ Goto(cur, "done")
    BY <1>9, <2>1, Appends DEF RejectPeer, Log
  <2>3. cur \in Conns /\ Turned \in Trails("done") /\ "done" \in Phases /\ ("done" \in Session => cur \in allowed)
    BY <1>9 DEF RejectPeer, StoryInv, Story, InHand, Trails, Phases, Session, Bounded
  <2>4. \A d \in Conns : Story(d)'
    BY <1>9, <2>1, <2>2, <2>3, Moves DEF RejectPeer, StoryInv
  <2> QED
    BY <1>9, <2>4 DEF RejectPeer, StoryInv
<1>10. CASE RejectOver
  <2>1. rows[cur] = << >> /\ phase[cur] \notin Past
    BY <1>10 DEF RejectOver, StoryInv, Story, InHand, Trails, Past
  <2>2. rows' = [rows EXCEPT ![cur] = Turned] /\ Goto(cur, "done")
    BY <1>10, <2>1, Appends DEF RejectOver, Log
  <2>3. cur \in Conns /\ Turned \in Trails("done") /\ "done" \in Phases /\ ("done" \in Session => cur \in allowed)
    BY <1>10 DEF RejectOver, StoryInv, Story, InHand, Trails, Phases, Session, Bounded
  <2>4. \A d \in Conns : Story(d)'
    BY <1>10, <2>1, <2>2, <2>3, Moves DEF RejectOver, StoryInv
  <2> QED
    BY <1>10, <2>4 DEF RejectOver, StoryInv
<1>11. CASE Admit
  <2>1. rows[cur] = << >> /\ phase[cur] \notin Past
    BY <1>11 DEF Admit, StoryInv, Story, InHand, Trails, Past
  <2>2. rows' = [rows EXCEPT ![cur] = Came] /\ Goto(cur, "handshake")
    BY <1>11, <2>1, Appends DEF Admit, Log
  <2>3. cur \in Conns /\ Came \in Trails("handshake") /\ "handshake" \in Phases /\ ("handshake" \in Session => cur \in allowed)
    BY <1>11 DEF Admit, StoryInv, Story, InHand, Trails, Phases, Session, Bounded
  <2>4. \A d \in Conns : Story(d)'
    BY <1>11, <2>1, <2>2, <2>3, Moves DEF Admit, StoryInv
  <2> QED
    BY <1>11, <2>4 DEF Admit, StoryInv
<1>12. CASE WrapFails
  <2>1. rows[cur] = << >> /\ phase[cur] \notin Past
    BY <1>12 DEF WrapFails, StoryInv, Story, InHand, Trails, Past
  <2>2. rows' = [rows EXCEPT ![cur] = Came] /\ Goto(cur, "done")
    BY <1>12, <2>1, Appends DEF WrapFails, Log
  <2>3. cur \in Conns /\ Came \in Trails("done") /\ "done" \in Phases /\ ("done" \in Session => cur \in allowed)
    BY <1>12 DEF WrapFails, StoryInv, Story, InHand, Trails, Phases, Session, Bounded
  <2>4. \A d \in Conns : Story(d)'
    BY <1>12, <2>1, <2>2, <2>3, Moves DEF WrapFails, StoryInv
  <2> QED
    BY <1>12, <2>4 DEF WrapFails, StoryInv
<1>13. ASSUME NEW c \in Conns, Accept(c)
      PROVE  StoryInv'
  <2>1. \A d \in Conns : Story(d)'
    BY <1>13, MovesSilently DEF Accept, StoryInv, Story, Phases, Session, Bounded, Past, Trails
  <2> QED
    BY <1>13, <2>1 DEF Accept, StoryInv
<1>14. ASSUME NEW c \in Conns, Connect(c)
      PROVE  StoryInv'
  <2>1. \A d \in Conns : Story(d)'
    BY <1>14, MovesSilently DEF Connect, StoryInv, Story, Phases, Session, Bounded, Past, Trails
  <2> QED
    BY <1>14, <2>1 DEF Connect, StoryInv
<1>15. ASSUME NEW c \in Conns, Hangup(c)
      PROVE  StoryInv'
  BY <1>15 DEF Hangup, StoryInv, Story, CanControl, CanView
<1>16. ASSUME NEW c \in Conns, HandshakeFails(c)
      PROVE  StoryInv'
  <2>1. rows[c] = Came /\ phase[c] \notin Past
    BY <1>16 DEF HandshakeFails, StoryInv, Story, InHand, Trails, Past
  <2>2. rows' = [rows EXCEPT ![c] = NoLogin] /\ Goto(c, "leaving")
    BY <1>16, <2>1, Appends DEF HandshakeFails, Log
  <2>3. c \in Conns /\ NoLogin \in Trails("leaving") /\ "leaving" \in Phases /\ ("leaving" \in Session => c \in allowed)
    BY <1>16 DEF HandshakeFails, StoryInv, Story, Trails, Phases, Session, Bounded
  <2>4. \A d \in Conns : Story(d)'
    BY <1>16, <2>1, <2>2, <2>3, Moves DEF HandshakeFails, StoryInv
  <2> QED
    BY <1>16, <2>4 DEF HandshakeFails, StoryInv
<1>17. ASSUME NEW c \in Conns, HandshakeOk(c)
      PROVE  StoryInv'
  <2>1. \A d \in Conns : Story(d)'
    BY <1>17, MovesSilently DEF HandshakeOk, StoryInv, Story, Phases, Session, Bounded, Past, Trails
  <2> QED
    BY <1>17, <2>1 DEF HandshakeOk, StoryInv
<1>18. ASSUME NEW c \in Conns, Hello(c)
      PROVE  StoryInv'
  <2>1. \A d \in Conns : Story(d)'
    BY <1>18, MovesSilently DEF Hello, StoryInv, Story, Phases, Session, Bounded, Past, Trails
  <2> QED
    BY <1>18, <2>1 DEF Hello, StoryInv
<1>19. ASSUME NEW c \in Conns, GiveUp(c)
      PROVE  StoryInv'
  <2>1. \A d \in Conns : Story(d)'
    BY <1>19, MovesSilently DEF GiveUp, StoryInv, Story, Phases, Session, Bounded, Past, Trails
  <2> QED
    BY <1>19, <2>1 DEF GiveUp, StoryInv
<1>20. ASSUME NEW c \in Conns, AuthFails(c)
      PROVE  StoryInv'
  <2>1. \A d \in Conns : Story(d)'
    BY <1>20, MovesSilently DEF AuthFails, StoryInv, Story, Phases, Session, Bounded, Past, Trails
  <2> QED
    BY <1>20, <2>1 DEF AuthFails, StoryInv
<1>21. ASSUME NEW c \in Conns, NEW r \in Accounts, AuthOk(c, r)
      PROVE  StoryInv'
  <2>1. \A d \in injected \cup watched : rights'[d] = rights[d] /\ mode'[d] = mode[d]
    BY <1>21 DEF AuthOk, ShapeOK, StoryInv, Story, Past
  <2>2. \A d \in Conns : Story(d)'
    BY <1>21, <2>1, MovesSilently DEF AuthOk, StoryInv, Story, Phases, Session, Bounded, Past, Trails
  <2> QED
    BY <1>21, <2>2 DEF AuthOk, StoryInv
<1>22. ASSUME NEW c \in Conns, AuditAuth(c)
      PROVE  StoryInv'
  <2>1. ASSUME phase[c] = "grant" PROVE \A d \in Conns : Story(d)'
    <3>1. rows[c] = Came /\ phase[c] \notin Past
      BY <2>1 DEF StoryInv, Story, Trails, Past
    <3>2. rows' = [rows EXCEPT ![c] = LoggedIn] /\ Goto(c, "mode")
      BY <1>22, <2>1, <3>1, Appends DEF AuditAuth, Log
    <3>3. LoggedIn \in Trails("mode") /\ "mode" \in Phases /\ c \in allowed
      BY <2>1 DEF StoryInv, Story, Trails, Phases, Session, Bounded
    <3> QED
      BY <1>22, <3>1, <3>2, <3>3, Moves DEF AuditAuth, StoryInv
  <2>2. ASSUME phase[c] = "refuse" PROVE \A d \in Conns : Story(d)'
    <3>1. rows[c] = Came /\ phase[c] \notin Past
      BY <2>2 DEF StoryInv, Story, Trails, Past
    <3>2. rows' = [rows EXCEPT ![c] = NoLogin] /\ Goto(c, "leaving")
      BY <1>22, <2>2, <3>1, Appends DEF AuditAuth, Log
    <3>3. NoLogin \in Trails("leaving") /\ "leaving" \in Phases /\ c \in allowed
      BY <2>2 DEF StoryInv, Story, Trails, Phases, Session, Bounded
    <3> QED
      BY <1>22, <3>1, <3>2, <3>3, Moves DEF AuditAuth, StoryInv
  <2> QED
    BY <1>22, <2>1, <2>2 DEF AuditAuth, StoryInv
<1>23. ASSUME NEW c \in Conns, NEW m \in Modes, StartSession(c, m)
      PROVE  StoryInv'
  <2>1. \A d \in injected \cup watched : rights'[d] = rights[d] /\ mode'[d] = mode[d]
    BY <1>23 DEF StartSession, ShapeOK, StoryInv, Story, Past
  <2>2. \A d \in Conns : Story(d)'
    BY <1>23, <2>1, MovesSilently DEF StartSession, StoryInv, Story, Phases, Session, Bounded, Past, Trails
  <2> QED
    BY <1>23, <2>2 DEF StartSession, StoryInv
<1>24. ASSUME NEW c \in Conns, NEW m \in Modes, Deny(c, m)
      PROVE  StoryInv'
  <2>1. rows[c] = LoggedIn /\ phase[c] \notin Past
    BY <1>24 DEF Deny, StoryInv, Story, InHand, Trails, Past
  <2>2. rows' = [rows EXCEPT ![c] = Refused] /\ Goto(c, "leaving")
    BY <1>24, <2>1, Appends DEF Deny, Log
  <2>3. c \in Conns /\ Refused \in Trails("leaving") /\ "leaving" \in Phases /\ ("leaving" \in Session => c \in allowed)
    BY <1>24 DEF Deny, StoryInv, Story, Trails, Phases, Session, Bounded
  <2>4. \A d \in Conns : Story(d)'
    BY <1>24, <2>1, <2>2, <2>3, Moves DEF Deny, StoryInv
  <2> QED
    BY <1>24, <2>4 DEF Deny, StoryInv
<1>25. ASSUME NEW c \in Conns, ShowOverlay(c)
      PROVE  StoryInv'
  <2>1. \A d \in Conns : Story(d)'
    BY <1>25, MovesSilently DEF ShowOverlay, StoryInv, Story, Phases, Session, Bounded, Past, Trails
  <2> QED
    BY <1>25, <2>1 DEF ShowOverlay, StoryInv
<1>26. ASSUME NEW c \in Conns, AuditStart(c)
      PROVE  StoryInv'
  <2>1. rows[c] = LoggedIn /\ phase[c] \notin Past
    BY <1>26 DEF AuditStart, StoryInv, Story, InHand, Trails, Past
  <2>2. rows' = [rows EXCEPT ![c] = Started] /\ Goto(c, "open")
    BY <1>26, <2>1, Appends DEF AuditStart, Log
  <2>3. c \in Conns /\ Started \in Trails("open") /\ "open" \in Phases /\ ("open" \in Session => c \in allowed)
    BY <1>26 DEF AuditStart, StoryInv, Story, Trails, Phases, Session, Bounded
  <2>4. \A d \in Conns : Story(d)'
    BY <1>26, <2>1, <2>2, <2>3, Moves DEF AuditStart, StoryInv
  <2> QED
    BY <1>26, <2>4 DEF AuditStart, StoryInv
<1>27. ASSUME NEW c \in Conns, Input(c)
      PROVE  StoryInv'
  BY <1>27 DEF Input, Trails, Past, Session, Bounded, StoryInv, Story, CanControl, CanView
<1>28. ASSUME NEW c \in Conns, Stream(c)
      PROVE  StoryInv'
  BY <1>28 DEF Stream, Trails, Past, Session, Bounded, StoryInv, Story, CanControl, CanView
<1>29. ASSUME NEW c \in Conns, FrameBegins(c)
      PROVE  StoryInv'
  <2>1. \A d \in Conns : Story(d)'
    BY <1>29, MovesSilently DEF FrameBegins, StoryInv, Story, Phases, Session, Bounded, Past, Trails
  <2> QED
    BY <1>29, <2>1 DEF FrameBegins, StoryInv
<1>30. ASSUME NEW c \in Conns, FrameEnds(c)
      PROVE  StoryInv'
  <2>1. \A d \in Conns : Story(d)'
    BY <1>30, MovesSilently DEF FrameEnds, StoryInv, Story, Phases, Session, Bounded, Past, Trails
  <2> QED
    BY <1>30, <2>1 DEF FrameEnds, StoryInv
<1>31. ASSUME NEW c \in Conns, LoopEnds(c)
      PROVE  StoryInv'
  <2>1. \A d \in Conns : Story(d)'
    BY <1>31, MovesSilently DEF LoopEnds, StoryInv, Story, Phases, Session, Bounded, Past, Trails
  <2> QED
    BY <1>31, <2>1 DEF LoopEnds, StoryInv
<1>32. ASSUME NEW c \in Conns, Bye(c)
      PROVE  StoryInv'
  <2>1. \A d \in Conns : Story(d)'
    BY <1>32, MovesSilently DEF Bye, StoryInv, Story, Phases, Session, Bounded, Past, Trails
  <2> QED
    BY <1>32, <2>1 DEF Bye, StoryInv
<1>33. ASSUME NEW c \in Conns, AuditEnd(c)
      PROVE  StoryInv'
  <2>1. rows[c] = Started
    BY <1>33 DEF AuditEnd, StoryInv, Story, Trails
  <2>2. rows' = [rows EXCEPT ![c] = Whole] /\ Goto(c, "hide")
    BY <1>33, <2>1, Appends DEF AuditEnd, Log
  <2>3. c \in Conns /\ Whole \in Trails("hide") /\ "hide" \in Phases /\ ("hide" \in Session => c \in allowed)
    BY <1>33 DEF AuditEnd, StoryInv, Story, Trails, Phases, Session, Bounded
  <2>4. \A d \in Conns : Story(d)'
    <3>1. "hide" \in Past /\ Whole \in {Started, Whole}
      BY DEF Past
    <3> QED
      BY <1>33, <2>1, <2>2, <2>3, <3>1, Moves DEF AuditEnd, StoryInv
  <2> QED
    BY <1>33, <2>4 DEF AuditEnd, StoryInv
<1>34. ASSUME NEW c \in Conns, HideOverlay(c)
      PROVE  StoryInv'
  <2>1. \A d \in Conns : Story(d)'
    BY <1>34, MovesSilently DEF HideOverlay, StoryInv, Story, Phases, Session, Bounded, Past, Trails
  <2> QED
    BY <1>34, <2>1 DEF HideOverlay, StoryInv
<1>35. ASSUME NEW c \in Conns, Leave(c)
      PROVE  StoryInv'
  <2>1. \A d \in Conns : Story(d)'
    BY <1>35, MovesSilently DEF Leave, StoryInv, Story, Phases, Session, Bounded, Past, Trails
  <2> QED
    BY <1>35, <2>1 DEF Leave, StoryInv
<1>36. ASSUME NEW how \in {"exited", "terminated"}, Die(how)
      PROVE  StoryInv'
  <2>1. ASSUME NEW d \in Conns PROVE Story(d)'
    <3>1. phase'[d] \in {"done", "killed"} /\ (phase'[d] = "done" => phase[d] = "done")
      BY <1>36 DEF Die, ShapeOK
    <3>2. rows[d] \in Trails(phase'[d])
      BY <3>1 DEF StoryInv, Story, ShapeOK, Trails, Phases, Session, Bounded
    <3> QED
      BY <1>36, <3>1, <3>2 DEF Die, StoryInv, Story, Past, Session, Bounded, CanControl, CanView
  <2> QED
    BY <1>36, <2>1 DEF Die, StoryInv
<1>37. CASE UNCHANGED vars
  BY <1>37 DEF vars, StoryInv, Story, CanControl, CanView
<1>38. ASSUME NEW c \in Conns, BannerComes(c)
      PROVE  StoryInv'
  BY <1>38 DEF BannerComes, StoryInv, Story, CanControl, CanView
<1>39. ASSUME NEW c \in Conns, HideFindsNothing(c)
      PROVE  StoryInv'
  <2>1. \A d \in Conns : Story(d)'
    BY <1>39, MovesSilently DEF HideFindsNothing, StoryInv, Story, Phases, Session, Bounded, Past, Trails
  <2> QED
    BY <1>39, <2>1 DEF HideFindsNothing, StoryInv
<1> QED
  BY <1>1, <1>2, <1>3, <1>4, <1>5, <1>6, <1>7, <1>8, <1>9, <1>10, <1>11, <1>12, <1>13, <1>14, <1>15, <1>16, <1>17, <1>18, <1>19, <1>20, <1>21, <1>22, <1>23, <1>24, <1>25, <1>26, <1>27, <1>28, <1>29, <1>30, <1>31, <1>32, <1>33, <1>34, <1>35, <1>36, <1>37, <1>38, <1>39
     DEF Next, AcceptLoop, SessionStep, SessionEvent, Exit, Throw, Ended

\* Every connection has its story, always.
LEMMA StoryAlways == Spec => [](ShapeOK /\ StoryInv)
<1>1. Init => StoryInv
  BY DEF Init, StoryInv, Story, Trails, Session, Bounded
<1>2. IInv => ShapeOK /\ InHand
  BY DEF IInv
<1>3. (ShapeOK /\ InHand) /\ StoryInv /\ [Next]_vars => StoryInv'
  BY StoryInductive
<1> QED
  BY <1>1, <1>2, <1>3, Inductive, PTL DEF Spec

-----------------------------------------------------------------------------
\* The rows of every connection are the beginning of one of four stories, and
\* when its thread has returned the story is complete.
THEOREM TrailsCorrect == Spec => []AuditTrail
<1>1. ASSUME NEW c \in Conns, Story(c), ShapeOK
      PROVE  /\ \E t \in FullTrails : Len(rows[c]) <= Len(t) /\ rows[c] = SubSeq(t, 1, Len(rows[c]))
             /\ phase[c] = "done" => rows[c] \in FullTrails \cup GivenUp
  <2>1. rows[c] \in { << >>, Turned, Came, NoLogin, LoggedIn, Refused, Started, Whole}
    BY <1>1 DEF Story, Trails
  <2>2. phase[c] = "done" => rows[c] \in FullTrails \cup GivenUp
    BY <1>1 DEF Story, Trails, FullTrails, GivenUp, Turned, Came, NoLogin, LoggedIn, Refused, Whole
  <2> QED
    BY <2>1, <2>2, Beginnings
<1>2. ShapeOK /\ StoryInv => AuditTrail
  BY <1>1 DEF StoryInv, AuditTrail
<1> QED
  BY <1>2, StoryAlways, PTL

\* Whoever moved the mouse or was sent the screen was inside the allow-list,
\* logged in with a right that permits it, and is on record as having started.
THEOREM RightsRespected == Spec => []ActedByRight
<1>1. ASSUME ShapeOK, StoryInv PROVE ActedByRight
  <2>0. ASSUME NEW c \in injected \cup watched
        PROVE  /\ c \in allowed /\ Logged(c, "auth ok") /\ Logged(c, "start")
               /\ c \in injected => CanControl(c)
               /\ c \in watched => CanView(c)
    <3>1. c \in Conns
      BY <1>1, <2>0 DEF ShapeOK
    <3>2. Story(c)
      BY <1>1, <3>1 DEF StoryInv
    <3>3. /\ c \in allowed /\ rows[c] \in {Started, Whole}
          /\ c \in injected => CanControl(c)
          /\ c \in watched => CanView(c)
      BY <2>0, <3>2 DEF Story
    <3>4. Logged(c, "auth ok") /\ Logged(c, "start")
      BY <3>3, ActedOnRecord DEF Logged
    <3> QED
      BY <3>3, <3>4
  <2>1. ASSUME NEW c \in injected
        PROVE  /\ c \in allowed /\ Logged(c, "auth ok") /\ Logged(c, "start")
               /\ HasRight(rights[c], "RemoteScreenControl") /\ mode[c] = "FullControl"
    BY <2>0 DEF CanControl
  <2>2. ASSUME NEW c \in watched
        PROVE  /\ c \in allowed /\ Logged(c, "auth ok") /\ Logged(c, "start")
               /\ MayView(rights[c]) /\ mode[c] # "FileOnly"
    BY <2>0 DEF CanView
  <2> QED
    BY <2>1, <2>2 DEF ActedByRight
<1> QED
  BY <1>1, StoryAlways, PTL

\* The log is true: whole stories in order, and nobody acted who is not on record
\* with the right to it.
THEOREM RecordCorrect == Spec => []RecordTrue
<1>1. AuditTrail /\ ActedByRight => RecordTrue
  BY DEF RecordTrue
<1> QED
  BY <1>1, TrailsCorrect, RightsRespected, PTL

-----------------------------------------------------------------------------
(* The promise of RemoteAccess is kept.                                    *)

\* Where the overlay of a session has been ordered and is not taken down.
Bannered == {"record", "open", "midframe", "ending", "hide", "joining"}

\* What a session has been granted and shown when it gets to a phase.
GrantInv ==
    \A c \in Conns :
        /\ phase[c] \notin {"done", "killed"} => (banner[c] # "none" <=> phase[c] \in Bannered)
        /\ phase[c] = "grant" => rights[c] \in Accounts
        /\ phase[c] \in {"banner", "record", "open", "midframe"} => Authorized(rights[c], mode[c])

\* A step that moves one connection and grants and shows nothing.
LEMMA GrantMoves ==
    ASSUME ShapeOK, GrantInv, NEW c \in Conns, NEW p \in Phases, Goto(c, p),
           p \notin {"done", "killed"} => (banner[c] # "none" <=> p \in Bannered),
           p # "grant",
           p \in {"banner", "record", "open", "midframe"} => Authorized(rights[c], mode[c]),
           UNCHANGED <<banner, rights, mode>>
    PROVE  GrantInv'
<1> SUFFICES ASSUME NEW d \in Conns
             PROVE  /\ phase'[d] \notin {"done", "killed"} => (banner[d] # "none" <=> phase'[d] \in Bannered)
                    /\ phase'[d] = "grant" => rights[d] \in Accounts
                    /\ phase'[d] \in {"banner", "record", "open", "midframe"} => Authorized(rights[d], mode[d])
  BY DEF GrantInv, Authorized
<1>1. CASE d = c
  BY <1>1 DEF ShapeOK, Goto
<1>2. CASE d # c
  <2>1. phase'[d] = phase[d]
    BY <1>2 DEF ShapeOK, Goto
  <2> QED
    BY <2>1 DEF GrantInv
<1> QED
  BY <1>1, <1>2

\* Every step keeps the rights and the mode those that were granted.
LEMMA GrantInductive ==
    ASSUME ShapeOK, InHand, GrantInv, [Next]_vars
    PROVE  GrantInv'
<1> USE DEF Phases, Session, Bounded, Bannered
<1>1. CASE UNCHANGED <<phase, banner, rights, mode>>
  BY <1>1 DEF GrantInv, Authorized
<1>2. CASE RejectPeer \/ RejectOver \/ Admit \/ WrapFails
  <2>1. cur \in Conns /\ phase[cur] = "held"
    BY <1>2 DEF RejectPeer, RejectOver, Admit, WrapFails, InHand
  <2>2. banner[cur] = "none"
    BY <2>1 DEF GrantInv
  <2>3. Goto(cur, "done") \/ Goto(cur, "handshake")
    BY <1>2 DEF RejectPeer, RejectOver, Admit, WrapFails
  <2>4. UNCHANGED <<banner, rights, mode>>
    BY <1>2 DEF RejectPeer, RejectOver, Admit, WrapFails
  <2> QED
    BY <2>1, <2>2, <2>3, <2>4, GrantMoves
<1>3. ASSUME NEW c \in Conns, Accept(c) \/ Connect(c)
      PROVE  GrantInv'
  <2>1. phase[c] \in {"away", "backlog"} /\ (Goto(c, "held") \/ Goto(c, "backlog"))
    BY <1>3 DEF Accept, Connect
  <2>2. UNCHANGED <<banner, rights, mode>>
    BY <1>3 DEF Accept, Connect
  <2>3. banner[c] = "none"
    BY <2>1 DEF GrantInv
  <2> QED
    BY <2>1, <2>2, <2>3, GrantMoves
<1>4. ASSUME NEW c \in Conns,
             HandshakeOk(c) \/ HandshakeFails(c) \/ Hello(c) \/ GiveUp(c) \/ AuthFails(c) \/ AuditAuth(c)
               \/ (\E m \in Modes : Deny(c, m))
      PROVE  GrantInv'
  <2>1. phase[c] \in {"handshake", "hello", "login", "grant", "refuse", "mode"}
    BY <1>4 DEF HandshakeOk, HandshakeFails, Hello, GiveUp, AuthFails, AuditAuth, Deny
  <2>2. Goto(c, "hello") \/ Goto(c, "leaving") \/ Goto(c, "login") \/ Goto(c, "refuse") \/ Goto(c, "mode")
    BY <1>4 DEF HandshakeOk, HandshakeFails, Hello, GiveUp, AuthFails, AuditAuth, Deny
  <2>3. UNCHANGED <<banner, rights, mode>>
    BY <1>4 DEF HandshakeOk, HandshakeFails, Hello, GiveUp, AuthFails, AuditAuth, Deny
  <2>4. banner[c] = "none"
    BY <2>1 DEF GrantInv
  <2> QED
    BY <2>2, <2>3, <2>4, GrantMoves
<1>5. ASSUME NEW c \in Conns, NEW r \in Accounts, AuthOk(c, r)
      PROVE  GrantInv'
  BY <1>5 DEF AuthOk, ShapeOK, GrantInv, Goto, Authorized
<1>6. ASSUME NEW c \in Conns, NEW m \in Modes, StartSession(c, m)
      PROVE  GrantInv'
  BY <1>6 DEF StartSession, ShapeOK, GrantInv, Goto, Authorized
<1>7. ASSUME NEW c \in Conns, ShowOverlay(c) \/ HideOverlay(c)
      PROVE  GrantInv'
  BY <1>7 DEF ShowOverlay, HideOverlay, ShapeOK, GrantInv, Goto, Authorized
<1>8. ASSUME NEW c \in Conns,
             AuditStart(c) \/ FrameBegins(c) \/ FrameEnds(c) \/ LoopEnds(c) \/ Bye(c) \/ AuditEnd(c)
      PROVE  GrantInv'
  <2>1. \/ phase[c] \in {"record", "open", "midframe"} /\ (Goto(c, "open") \/ Goto(c, "midframe") \/ Goto(c, "ending"))
        \/ phase[c] = "ending" /\ Goto(c, "hide")
    BY <1>8 DEF AuditStart, FrameBegins, FrameEnds, LoopEnds, Bye, AuditEnd
  <2>2. UNCHANGED <<banner, rights, mode>>
    BY <1>8 DEF AuditStart, FrameBegins, FrameEnds, LoopEnds, Bye, AuditEnd
  <2>3. banner[c] # "none" /\ (phase[c] # "ending" => Authorized(rights[c], mode[c]))
    BY <2>1 DEF GrantInv
  <2> QED
    BY <2>1, <2>2, <2>3, GrantMoves
<1>9. ASSUME NEW c \in Conns, Leave(c)
      PROVE  GrantInv'
  <2>1. Goto(c, "done") /\ UNCHANGED <<banner, rights, mode>>
    BY <1>9 DEF Leave
  <2> QED
    BY <2>1, GrantMoves
<1>10. ASSUME NEW how \in {"exited", "terminated"}, Die(how)
      PROVE  GrantInv'
  <2>1. \A d \in Conns : phase'[d] \in {"done", "killed"}
    BY <1>10 DEF Die
  <2> QED
    BY <2>1 DEF GrantInv
<1>11. CASE Boot \/ BootFails \/ LoopTest \/ AcceptClosed \/ AcceptFails \/ TakeSlot \/ RunClose \/ Stop
  BY <1>1, <1>11 DEF Boot, BootFails, LoopTest, AcceptClosed, AcceptFails, AcceptReturnsNothing,
                     TakeSlot, RunClose, Stop, GrantInv
<1>12. ASSUME NEW c \in Conns, Hangup(c) \/ Input(c) \/ Stream(c)
      PROVE  GrantInv'
  BY <1>1, <1>12 DEF Hangup, Input, Stream
<1>13. CASE UNCHANGED vars
  BY <1>1, <1>13 DEF vars
<1>14. ASSUME NEW c \in Conns, BannerComes(c)
      PROVE  GrantInv'
  <2>1. \A d \in Conns : banner'[d] = "none" <=> banner[d] = "none"
    BY <1>14 DEF BannerComes, ShapeOK
  <2> QED
    BY <1>14, <2>1 DEF BannerComes, GrantInv, Authorized
<1>15. ASSUME NEW c \in Conns, HideFindsNothing(c)
      PROVE  GrantInv'
  <2>1. phase[c] = "hide" /\ Goto(c, "joining") /\ UNCHANGED <<banner, rights, mode>>
    BY <1>15 DEF HideFindsNothing
  <2> QED
    BY <2>1, GrantMoves DEF GrantInv
<1> QED
  BY <1>2, <1>3, <1>4, <1>5, <1>6, <1>7, <1>8, <1>9, <1>10, <1>11, <1>12, <1>13, <1>14, <1>15
     DEF Next, AcceptLoop, SessionStep, SessionEvent, Exit, Throw, Ended

-----------------------------------------------------------------------------
\* What a connection's rows say.
Has(t, row) == \E i \in 1 .. Len(t) : t[i] = row

\* Which stories tell of a login, and which of a start.
LEMMA Tells ==
    /\ \A t \in { << >>, Turned, Came, NoLogin} : ~Has(t, "auth ok") /\ ~Has(t, "start")
    /\ \A t \in {LoggedIn, Refused} : Has(t, "auth ok") /\ ~Has(t, "start")
    /\ \A t \in {Started, Whole} : Has(t, "auth ok") /\ Has(t, "start")
<1>1. ~Has(<< >>, "auth ok") /\ ~Has(<< >>, "start")
  BY Lengths DEF Has
<1>2. ~Has(Turned, "auth ok") /\ ~Has(Turned, "start")
  <2>1. \A i \in 1 .. 1 : Turned[i] = "reject"
    BY DEF Turned
  <2> QED
    BY <2>1, Lengths DEF Has
<1>3. ~Has(Came, "auth ok") /\ ~Has(Came, "start")
  <2>1. \A i \in 1 .. 1 : Came[i] = "accept"
    BY DEF Came
  <2> QED
    BY <2>1, Lengths DEF Has
<1>4. ~Has(NoLogin, "auth ok") /\ ~Has(NoLogin, "start")
  <2>1. NoLogin[1] = "accept" /\ NoLogin[2] = "auth failed"
    BY DEF NoLogin
  <2>2. \A i \in 1 .. 2 : i = 1 \/ i = 2
    OBVIOUS
  <2> QED
    BY <2>1, <2>2, Lengths DEF Has
<1>5. Has(LoggedIn, "auth ok") /\ ~Has(LoggedIn, "start")
  <2>1. LoggedIn[2] = "auth ok" /\ \A i \in 1 .. 2 : LoggedIn[i] \in {"accept", "auth ok"}
    BY DEF LoggedIn
  <2>2. 2 \in 1 .. 2
    OBVIOUS
  <2> QED
    BY <2>1, <2>2, Lengths DEF Has
<1>6. Has(Refused, "auth ok") /\ ~Has(Refused, "start")
  <2>1. Refused[2] = "auth ok" /\ \A i \in 1 .. 3 : Refused[i] \in {"accept", "auth ok", "denied"}
    BY DEF Refused
  <2>2. 2 \in 1 .. 3
    OBVIOUS
  <2> QED
    BY <2>1, <2>2, Lengths DEF Has
<1>7. \A t \in {Started, Whole} : Has(t, "auth ok") /\ Has(t, "start")
  BY ActedOnRecord DEF Has
<1> QED
  BY <1>1, <1>2, <1>3, <1>4, <1>5, <1>6, <1>7

\* A row of one connection changes what is on record of its account and purpose
\* only when it is the row that puts them there.
LEMMA OnRecord ==
    ASSUME ShapeOK, NEW c \in Conns, NEW t, rows' = [rows EXCEPT ![c] = t], UNCHANGED grants
    PROVE  /\ (Has(t, "auth ok") <=> Has(rows[c], "auth ok")) => Account' = Account
           /\ Has(t, "auth ok") => Account' = [Account EXCEPT ![c] = rights[c]]
           /\ (Has(t, "start") <=> Has(rows[c], "start")) => Purpose' = Purpose
           /\ Has(t, "start") => Purpose' = [Purpose EXCEPT ![c] = mode[c]]
<1>1. rows'[c] = t /\ \A d \in Conns : d # c => rows'[d] = rows[d]
  BY DEF ShapeOK
<1>2. /\ Account = [d \in Conns |-> IF Has(rows[d], "auth ok") THEN rights[d] ELSE {}]
      /\ Account' = [d \in Conns |-> IF Has(rows'[d], "auth ok") THEN rights[d] ELSE {}]
  BY DEF Account, Logged, Has
<1>3. /\ Purpose = [d \in Conns |-> IF Has(rows[d], "start") THEN mode[d] ELSE "unknown"]
      /\ Purpose' = [d \in Conns |-> IF Has(rows'[d], "start") THEN mode[d] ELSE "unknown"]
  BY DEF Purpose, Logged, Has
<1> QED
  BY <1>1, <1>2, <1>3

\* Without a row, rights and mode may change only where they are not on record.
LEMMA OffRecord ==
    ASSUME ShapeOK, UNCHANGED rows,
           \A d \in Conns : rights'[d] = rights[d] \/ ~Has(rows[d], "auth ok"),
           \A d \in Conns : mode'[d] = mode[d] \/ ~Has(rows[d], "start")
    PROVE  Account' = Account /\ Purpose' = Purpose
<1>1. /\ Account = [d \in Conns |-> IF Has(rows[d], "auth ok") THEN rights[d] ELSE {}]
      /\ Account' = [d \in Conns |-> IF Has(rows[d], "auth ok") THEN rights'[d] ELSE {}]
  BY DEF Account, Logged, Has
<1>2. /\ Purpose = [d \in Conns |-> IF Has(rows[d], "start") THEN mode[d] ELSE "unknown"]
      /\ Purpose' = [d \in Conns |-> IF Has(rows[d], "start") THEN mode'[d] ELSE "unknown"]
  BY DEF Purpose, Logged, Has
<1> QED
  BY <1>1, <1>2

\* The two ways of saying which right a purpose needs agree.
LEMMA RightsAgree ==
    ASSUME NEW r, NEW m
    PROVE  /\ Authorized(r, m) => m \in Access!Purposes /\ Access!Permits(r, m)
           /\ HasRight(r, "RemoteScreenControl") => Access!Permits(r, "FullControl")
           /\ MayView(r) => Access!Permits(r, "ViewOnly")
<1>1. /\ Access!Needed("FullControl") = {"AllAccess", "RemoteScreenControl"}
      /\ Access!Needed("ViewOnly") = {"AllAccess", "RemoteScreenControl", "RemoteScreenView"}
      /\ Access!Needed("FileOnly") = {"AllAccess", "FileTransfer"}
  BY DEF Access!Needed
<1> QED
  BY <1>1 DEF Authorized, MayView, HasRight, Access!Permits, Access!Purposes

\* Counting is counting in both modules.
LEMMA CountsAgree ==
    ASSUME NEW S
    PROVE  Access!Cardinality(S) = Cardinality(S)
  BY Zenon DEF Access!Cardinality, Cardinality

\* A step nobody outside can tell of.
LEMMA Unseen ==
    ASSUME ShapeOK, UNCHANGED <<allowed, banner, injected, watched, rows, Holding>>,
           \A d \in Conns : rights'[d] = rights[d] \/ ~Has(rows[d], "auth ok"),
           \A d \in Conns : mode'[d] = mode[d] \/ ~Has(rows[d], "start")
    PROVE  UNCHANGED Access!vars
<1>1. Account' = Account /\ Purpose' = Purpose
  BY OffRecord
<1> QED
  BY <1>1 DEF Access!vars, Announced, Shown


\* Every step is a step of RemoteAccess, or leaves it as it is.
LEMMA AccessStep ==
    ASSUME ShapeOK, InHand, SlotInv, StoryInv, GrantInv, [Next]_vars
    PROVE  [Access!Next]_(Access!vars)
<1> DEFINE Step == Access!Next \/ UNCHANGED Access!vars
<1> SUFFICES Step
  BY DEF Step
<1> HIDE DEF Step
<1>1. ASSUME UNCHANGED <<allowed, phase, banner, injected, watched, rows, grants>>
      PROVE  Step
  <2>1. Holding' = Holding
    BY <1>1 DEF Holding
  <2> QED
    BY <1>1, <2>1, Unseen DEF Step
<1>2. CASE Boot \/ BootFails \/ LoopTest \/ AcceptClosed \/ AcceptFails \/ TakeSlot \/ RunClose \/ Stop
  BY <1>1, <1>2 DEF Boot, BootFails, LoopTest, AcceptClosed, AcceptFails, AcceptReturnsNothing,
                    TakeSlot, RunClose, Stop
<1>3. ASSUME NEW c \in Conns, Hangup(c)
      PROVE  Step
  BY <1>1, <1>3 DEF Hangup
<1>4. CASE UNCHANGED vars
  BY <1>1, <1>4 DEF vars
<1>5. ASSUME NEW c \in Conns,
             Accept(c) \/ Connect(c) \/ HandshakeOk(c) \/ Hello(c) \/ GiveUp(c) \/ AuthFails(c)
               \/ FrameBegins(c) \/ FrameEnds(c) \/ LoopEnds(c) \/ Bye(c) \/ HideFindsNothing(c)
      PROVE  Step
  <2>1. PICK p \in Phases : Goto(c, p) /\ (phase[c] \in Session <=> p \in Session)
    BY <1>5 DEF Accept, Connect, HandshakeOk, Hello, GiveUp, AuthFails, FrameBegins, FrameEnds,
                LoopEnds, Bye, HideFindsNothing, Phases, Session, Bounded
  <2>2. Holding' = Holding
    BY <2>1, HoldingSame
  <2>3. UNCHANGED <<allowed, banner, injected, watched, rows, grants>>
    BY <1>5 DEF Accept, Connect, HandshakeOk, Hello, GiveUp, AuthFails, FrameBegins, FrameEnds,
                LoopEnds, Bye, HideFindsNothing
  <2> QED
    BY <2>2, <2>3, Unseen DEF Step
<1>6. ASSUME NEW c \in Conns, NEW r \in Accounts, AuthOk(c, r)
      PROVE  Step
  <2>1. Goto(c, "grant") /\ phase[c] = "login"
    BY <1>6 DEF AuthOk
  <2>2. Holding' = Holding
    BY <2>1, HoldingSame DEF Phases, Session, Bounded
  <2>3. ~Has(rows[c], "auth ok")
    BY <2>1, Tells DEF StoryInv, Story, Trails
  <2>4. \A d \in Conns : rights'[d] = rights[d] \/ ~Has(rows[d], "auth ok")
    BY <1>6, <2>3 DEF AuthOk, ShapeOK
  <2>5. UNCHANGED <<allowed, banner, injected, watched, rows, mode>>
    BY <1>6 DEF AuthOk
  <2> QED
    BY <2>2, <2>4, <2>5, Unseen DEF Step
<1>7. ASSUME NEW c \in Conns, NEW m \in Modes, StartSession(c, m)
      PROVE  Step
  <2>1. Goto(c, "banner") /\ phase[c] = "mode"
    BY <1>7 DEF StartSession
  <2>2. Holding' = Holding
    BY <2>1, HoldingSame DEF Phases, Session, Bounded
  <2>3. ~Has(rows[c], "start")
    BY <2>1, Tells DEF StoryInv, Story, Trails
  <2>4. \A d \in Conns : mode'[d] = mode[d] \/ ~Has(rows[d], "start")
    BY <1>7, <2>3 DEF StartSession, ShapeOK
  <2>5. UNCHANGED <<allowed, banner, injected, watched, rows, rights>>
    BY <1>7 DEF StartSession
  <2> QED
    BY <2>2, <2>4, <2>5, Unseen DEF Step
<1>8. CASE RejectPeer \/ RejectOver
  <2>1. cur \in Conns /\ phase[cur] = "held" /\ Goto(cur, "done") /\ Log(cur, "reject")
    BY <1>8 DEF RejectPeer, RejectOver, InHand
  <2>2. rows[cur] = << >>
    BY <2>1 DEF StoryInv, Story, Trails
  <2>3. rows' = [rows EXCEPT ![cur] = Turned]
    BY <2>1, <2>2, Appends DEF Log
  <2>4. UNCHANGED <<allowed, banner, injected, watched, grants>>
    BY <1>8 DEF RejectPeer, RejectOver
  <2>5. Account' = Account /\ Purpose' = Purpose
    BY <2>1, <2>2, <2>3, <2>4, OnRecord, Tells
  <2>6. Holding' = Holding
    BY <2>1, HoldingSame DEF Phases, Session, Bounded
  <2>7. Access!TurnAway(cur)
    BY <2>1, <2>2, <2>4, <2>5, <2>6 DEF Access!TurnAway, Access!Put, Log, Announced, Shown
  <2> QED
    BY <2>1, <2>7 DEF Step, Access!Next
<1>9. CASE Admit \/ WrapFails
  <2>1. /\ cur \in Conns /\ phase[cur] = "held" /\ Log(cur, "accept")
        /\ cur \in allowed /\ Cardinality(Holding) < MaxSessions
        /\ Goto(cur, "handshake") \/ Goto(cur, "done")
    BY <1>9 DEF Admit, WrapFails, InHand, StoryInv, SlotInv
  <2>2. rows[cur] = << >> /\ banner[cur] = "none"
    BY <2>1 DEF StoryInv, Story, Trails, GrantInv, Bannered
  <2>3. rows' = [rows EXCEPT ![cur] = Came]
    BY <2>1, <2>2, Appends DEF Log
  <2>4. UNCHANGED <<allowed, banner, injected, watched, grants>>
    BY <1>9 DEF Admit, WrapFails
  <2>5. Account' = Account /\ Purpose' = Purpose
    BY <2>1, <2>2, <2>3, <2>4, OnRecord, Tells
  <2>6. Holding' \in {Holding, Holding \cup {cur}}
    BY <2>1 DEF Holding, Goto, ShapeOK, Session, Bounded
  <2>7. Announced' = Announced /\ Shown' = Shown
    BY <2>2, <2>4, <2>6 DEF Announced, Shown
  <2>8. Access!Enter(cur)
    BY <2>1, <2>2, <2>4, <2>5, <2>6, <2>7, CountsAgree DEF Access!Enter, Access!Put, Log
  <2> QED
    BY <2>1, <2>8 DEF Step, Access!Next
<1>10. ASSUME NEW c \in Conns, HandshakeFails(c) \/ (AuditAuth(c) /\ phase[c] = "refuse") \/ \E m \in Modes : Deny(c, m)
      PROVE  Step
  <2>1. /\ phase[c] \in {"handshake", "refuse", "mode"} /\ Goto(c, "leaving")
        /\ phase[c] # "mode" => Log(c, "auth failed")
        /\ phase[c] = "mode" => Log(c, "denied")
    BY <1>10 DEF HandshakeFails, AuditAuth, Deny
  <2>2. /\ phase[c] # "mode" => rows[c] = Came
        /\ phase[c] = "mode" => rows[c] = LoggedIn
        /\ banner[c] = "none"
    BY <2>1 DEF StoryInv, Story, Trails, GrantInv, Bannered
  <2>3. /\ phase[c] # "mode" => rows' = [rows EXCEPT ![c] = NoLogin]
        /\ phase[c] = "mode" => rows' = [rows EXCEPT ![c] = Refused]
    BY <2>1, <2>2, Appends DEF Log
  <2>4. UNCHANGED <<allowed, banner, injected, watched, grants>>
    BY <1>10 DEF HandshakeFails, AuditAuth, Deny
  <2>5. Account' = Account /\ Purpose' = Purpose
    <3>1. CASE phase[c] = "mode"
      <4>1. /\ Has(Refused, "auth ok") /\ Has(LoggedIn, "auth ok")
            /\ ~Has(Refused, "start") /\ ~Has(LoggedIn, "start")
        BY Tells
      <4>2. rows[c] = LoggedIn /\ rows' = [rows EXCEPT ![c] = Refused]
        BY <3>1, <2>2, <2>3
      <4> QED
        BY <4>1, <4>2, <2>4, OnRecord
    <3>2. CASE phase[c] # "mode"
      <4>1. /\ ~Has(NoLogin, "auth ok") /\ ~Has(Came, "auth ok")
            /\ ~Has(NoLogin, "start") /\ ~Has(Came, "start")
        BY Tells
      <4>2. rows[c] = Came /\ rows' = [rows EXCEPT ![c] = NoLogin]
        BY <3>2, <2>2, <2>3
      <4> QED
        BY <4>1, <4>2, <2>4, OnRecord
    <3> QED
      BY <3>1, <3>2
  <2>6. Holding' = Holding /\ c \in Holding
    BY <2>1, HoldingSame DEF Phases, Session, Bounded, Holding
  <2>7. Announced' = Announced /\ Shown' = Shown /\ c \notin Announced
    BY <2>2, <2>4, <2>6 DEF Announced, Shown
  <2>8. \/ rows[c] = <<"accept">> /\ Log(c, "auth failed")
        \/ rows[c] = <<"accept", "auth ok">> /\ Log(c, "denied")
    BY <2>1, <2>2 DEF Came, LoggedIn
  <2>9. Access!Refuse(c)
    BY <2>4, <2>5, <2>6, <2>7, <2>8 DEF Access!Refuse, Access!Put, Log
  <2> QED
    BY <2>9 DEF Step, Access!Next
<1>11. ASSUME NEW c \in Conns, AuditAuth(c), phase[c] = "grant"
      PROVE  Step
  <2>1. Goto(c, "mode") /\ Log(c, "auth ok")
    BY <1>11 DEF AuditAuth
  <2>2. rows[c] = Came /\ rights[c] \in Accounts
    BY <1>11 DEF StoryInv, Story, Trails, GrantInv
  <2>3. rows' = [rows EXCEPT ![c] = LoggedIn]
    BY <2>1, <2>2, Appends DEF Log
  <2>4. UNCHANGED <<allowed, banner, injected, watched, grants>>
    BY <1>11 DEF AuditAuth
  <2>5. Account' = [Account EXCEPT ![c] = rights[c]] /\ Purpose' = Purpose
    BY <2>2, <2>3, <2>4, OnRecord, Tells
  <2>6. Holding' = Holding /\ c \in Holding
    BY <1>11, <2>1, HoldingSame DEF Phases, Session, Bounded, Holding
  <2>7. rows[c] = <<"accept">>
    BY <2>2 DEF Came
  <2>8. Access!LogIn(c, rights[c])
    BY <2>1, <2>4, <2>5, <2>6, <2>7 DEF Access!LogIn, Access!Put, Log, Announced, Shown
  <2> QED
    BY <2>2, <2>8 DEF Step, Access!Next
<1>12. ASSUME NEW c \in Conns, ShowOverlay(c)
      PROVE  Step
  <2>1. /\ phase[c] = "banner" /\ Goto(c, "record")
        /\ \E outcome \in {"coming", "shown", "failed"} : banner' = [banner EXCEPT ![c] = outcome]
        /\ UNCHANGED <<allowed, injected, watched, rows, grants>>
    BY <1>12 DEF ShowOverlay
  <2>2. rows[c] = <<"accept", "auth ok">> /\ banner[c] = "none"
    BY <2>1 DEF StoryInv, Story, Trails, GrantInv, Bannered, LoggedIn
  <2>3. Account' = Account /\ Purpose' = Purpose
    BY <2>1, OffRecord
  <2>4. Holding' = Holding /\ c \in Holding
    BY <2>1, HoldingSame DEF Phases, Session, Bounded, Holding
  <2>5. Announced' = Announced \cup {c} /\ Shown' \in {Shown, Shown \cup {c}}
    <3>1. PICK outcome \in {"coming", "shown", "failed"} : banner' = [banner EXCEPT ![c] = outcome]
      BY <2>1
    <3>2. c \in Conns /\ banner'[c] = outcome /\ \A d \in Conns \ {c} : banner'[d] = banner[d]
      BY <3>1 DEF ShapeOK
    <3>3. Announced' = Announced \cup {c}
      BY <2>4, <3>2 DEF Announced, Holding
    <3>4. CASE outcome = "shown"
      <4>1. Shown' = Shown \cup {c}
        BY <2>4, <3>2, <3>4 DEF Shown, Holding
      <4> QED
        BY <3>3, <4>1
    <3>5. CASE outcome # "shown"
      <4>1. Shown' = Shown
        BY <2>2, <2>4, <3>2, <3>5 DEF Shown, Holding
      <4> QED
        BY <3>3, <4>1
    <3> QED
      BY <3>4, <3>5
  <2>6. Access!Announce(c)
    BY <2>1, <2>2, <2>3, <2>4, <2>5 DEF Access!Announce
  <2> QED
    BY <2>6 DEF Step, Access!Next
<1>13. ASSUME NEW c \in Conns, AuditStart(c)
      PROVE  Step
  <2>1. Goto(c, "open") /\ phase[c] = "record" /\ Log(c, "start")
    BY <1>13 DEF AuditStart
  <2>2. rows[c] = LoggedIn /\ banner[c] # "none" /\ Authorized(rights[c], mode[c])
    BY <2>1 DEF StoryInv, Story, Trails, GrantInv, Bannered
  <2>3. rows' = [rows EXCEPT ![c] = Started]
    BY <2>1, <2>2, Appends DEF Log
  <2>4. UNCHANGED <<allowed, banner, injected, watched, grants>>
    BY <1>13 DEF AuditStart
  <2>5. Account' = Account /\ Purpose' = [Purpose EXCEPT ![c] = mode[c]]
    BY <2>2, <2>3, <2>4, OnRecord, Tells
  <2>6. Holding' = Holding /\ c \in Holding
    BY <2>1, HoldingSame DEF Phases, Session, Bounded, Holding
  <2>7. Account[c] = rights[c]
    <3>1. Has(rows[c], "auth ok")
      BY <2>2, Tells
    <3> QED
      BY <3>1 DEF Account, Logged, Has
  <2>8. mode[c] \in Access!Purposes /\ Access!Permits(Account[c], mode[c])
    BY <2>2, <2>7, RightsAgree
  <2>9. rows[c] = <<"accept", "auth ok">> /\ c \in Announced
    BY <2>2, <2>6 DEF LoggedIn, Announced, Shown
  <2>10. Access!Start(c, mode[c])
    BY <2>1, <2>4, <2>5, <2>6, <2>8, <2>9 DEF Access!Start, Access!Put, Log, Announced, Shown
  <2> QED
    BY <2>8, <2>10 DEF Step, Access!Next
<1>14. ASSUME NEW c \in Conns, phase[c] \in {"open", "ending"}
      PROVE  /\ Access!Live(c)
             /\ Account[c] = rights[c] /\ Purpose[c] = mode[c]
             /\ phase[c] = "open" => mode[c] \in Access!Purposes
  <2>1. rows[c] = Started /\ banner[c] # "none" /\ (phase[c] = "open" => Authorized(rights[c], mode[c]))
    BY <1>14 DEF StoryInv, Story, Trails, GrantInv, Bannered
  <2>2. c \in Holding
    BY <1>14 DEF Holding, Session
  <2>3. rows[c] = <<"accept", "auth ok", "start">>
    BY <2>1 DEF Started
  <2>4. Has(rows[c], "auth ok") /\ Has(rows[c], "start")
    BY <2>1, Tells
  <2>5. Account[c] = rights[c] /\ Purpose[c] = mode[c]
    BY <2>4 DEF Account, Purpose, Logged, Has
  <2> QED
    BY <2>1, <2>2, <2>3, <2>5, RightsAgree DEF Access!Live, Announced, Shown
<1>15. ASSUME NEW c \in Conns, Input(c) \/ Stream(c)
      PROVE  Step
  <2>1. phase[c] = "open" /\ UNCHANGED <<allowed, phase, rows, banner, grants>>
    BY <1>15 DEF Input, Stream
  <2>2. Holding' = Holding
    BY <2>1 DEF Holding
  <2>3. Account' = Account /\ Purpose' = Purpose /\ Announced' = Announced /\ Shown' = Shown
    BY <2>1, <2>2, OffRecord DEF Announced, Shown
  <2>4. Access!Live(c) /\ Account[c] = rights[c] /\ Purpose[c] = mode[c] /\ mode[c] \in Access!Purposes
    BY <2>1, <1>14
  <2>5. CASE Input(c)
    <3>1. /\ Purpose[c] = "FullControl" /\ Access!Permits(Account[c], "FullControl")
          /\ injected' = injected \cup {c} /\ UNCHANGED watched
      BY <2>4, <2>5, RightsAgree DEF Input, CanControl
    <3>2. Access!Control(c)
      BY <2>1, <2>2, <2>3, <2>4, <3>1 DEF Access!Control
    <3> QED
      BY <3>2 DEF Step, Access!Next
  <2>6. CASE Stream(c)
    <3>1. /\ Purpose[c] \in {"FullControl", "ViewOnly"} /\ Access!Permits(Account[c], "ViewOnly")
          /\ watched' = watched \cup {c} /\ UNCHANGED injected
      BY <2>4, <2>6, RightsAgree DEF Stream, CanView, Access!Purposes
    <3>2. Access!See(c)
      BY <2>1, <2>2, <2>3, <2>4, <3>1 DEF Access!See
    <3> QED
      BY <3>2 DEF Step, Access!Next
  <2> QED
    BY <1>15, <2>5, <2>6
<1>16. ASSUME NEW c \in Conns, AuditEnd(c)
      PROVE  Step
  <2>1. Goto(c, "hide") /\ phase[c] = "ending" /\ Log(c, "end")
    BY <1>16 DEF AuditEnd
  <2>2. rows[c] = Started
    BY <2>1 DEF StoryInv, Story, Trails
  <2>3. rows' = [rows EXCEPT ![c] = Whole]
    BY <2>1, <2>2, Appends DEF Log
  <2>4. UNCHANGED <<allowed, banner, injected, watched, grants>>
    BY <1>16 DEF AuditEnd
  <2>5. Account' = Account /\ Purpose' = Purpose
    BY <2>2, <2>3, <2>4, OnRecord, Tells
  <2>6. Holding' = Holding
    BY <2>1, HoldingSame DEF Phases, Session, Bounded
  <2>7. Access!Live(c)
    BY <2>1, <1>14
  <2>8. Access!Finish(c)
    BY <2>1, <2>4, <2>5, <2>6, <2>7 DEF Access!Finish, Access!Put, Log, Announced, Shown
  <2> QED
    BY <2>8 DEF Step, Access!Next
<1>17. ASSUME NEW c \in Conns, Leave(c)
      PROVE  Step
  <2>1. Goto(c, "done") /\ phase[c] = "leaving" /\ UNCHANGED <<allowed, rows, grants, banner, injected, watched>>
    BY <1>17 DEF Leave
  <2>2. banner[c] = "none" /\ rows[c] \in {Came, NoLogin, LoggedIn, Refused, Whole}
    BY <2>1 DEF StoryInv, Story, Trails, GrantInv, Bannered
  <2>3. Holding' = Holding \ {c} /\ c \in Holding
    BY <2>1 DEF Holding, Goto, ShapeOK, Session, Bounded
  <2>4. Account' = Account /\ Purpose' = Purpose
    BY <2>1, OffRecord
  <2>5. Announced' = Announced /\ Shown' = Shown /\ c \notin Announced
    BY <2>1, <2>2, <2>3 DEF Announced, Shown
  <2>6. rows[c] # <<"accept", "auth ok", "start">>
    <3>1. Len(rows[c]) # 3 \/ rows[c] = Refused
      BY <2>2, Lengths
    <3>2. Refused[3] = "denied" /\ Started[3] = "start"
      BY DEF Refused, Started
    <3>3. rows[c] # Started
      BY <3>1, <3>2, Lengths
    <3> QED
      BY <3>3 DEF Started
  <2>7. Access!Leave(c)
    BY <2>1, <2>3, <2>4, <2>5, <2>6 DEF Access!Leave
  <2> QED
    BY <2>7 DEF Step, Access!Next
<1>18. ASSUME NEW how \in {"exited", "terminated"}, Die(how)
      PROVE  Step
  <2>1. UNCHANGED <<allowed, rows, grants, banner, injected, watched>>
    BY <1>18 DEF Die
  <2>2. Holding' = {}
    BY <1>18 DEF Die, Holding, Session, Bounded
  <2>3. Account' = Account /\ Purpose' = Purpose
    BY <2>1, OffRecord
  <2>4. Access!Shutdown
    BY <2>1, <2>2, <2>3 DEF Access!Shutdown, Announced, Shown
  <2> QED
    BY <2>4 DEF Step, Access!Next
<1>19. ASSUME NEW c \in Conns, AuditAuth(c)
      PROVE  Step
  <2>1. phase[c] \in {"grant", "refuse"}
    BY <1>19 DEF AuditAuth
  <2> QED
    BY <1>19, <2>1, <1>10, <1>11
<1>20. ASSUME NEW c \in Conns, HideOverlay(c)
      PROVE  Step
  <2>1. /\ phase[c] \in {"hide", "joining"} /\ Goto(c, "leaving")
        /\ banner' = [banner EXCEPT ![c] = "none"]
        /\ UNCHANGED <<allowed, injected, watched, rows, grants>>
    BY <1>20 DEF HideOverlay
  <2>2. rows[c] = <<"accept", "auth ok", "start", "end">> /\ banner[c] # "none"
    BY <2>1 DEF StoryInv, Story, Trails, GrantInv, Bannered, Whole
  <2>3. Account' = Account /\ Purpose' = Purpose
    BY <2>1, OffRecord
  <2>4. Holding' = Holding /\ c \in Holding
    BY <2>1, HoldingSame DEF Phases, Session, Bounded, Holding
  <2>5. c \in Announced /\ Announced' = Announced \ {c} /\ Shown' = Shown \ {c}
    BY <2>1, <2>2, <2>4 DEF Announced, Shown, ShapeOK, Holding
  <2>6. Access!Hide(c)
    BY <2>1, <2>2, <2>3, <2>4, <2>5 DEF Access!Hide
  <2> QED
    BY <2>6 DEF Step, Access!Next
<1>21. ASSUME NEW c \in Conns, BannerComes(c)
      PROVE  Step
  <2>1. /\ phase[c] \in Session /\ banner[c] = "coming"
        /\ UNCHANGED <<allowed, phase, injected, watched, rows, grants>>
    BY <1>21 DEF BannerComes
  <2>2. Account' = Account /\ Purpose' = Purpose
    BY <2>1, OffRecord
  <2>3. Holding' = Holding /\ c \in Announced
    BY <2>1 DEF Holding, Announced
  <2>4. banner' = [banner EXCEPT ![c] = "shown"] \/ banner' = [banner EXCEPT ![c] = "failed"]
    BY <1>21 DEF BannerComes
  <2>5. Announced' = Announced /\ Shown' \in {Shown, Shown \cup {c}}
    BY <2>1, <2>3, <2>4 DEF Announced, Shown, ShapeOK, Holding
  <2>6. CASE Shown' = Shown \cup {c}
    <3>1. Access!Appear(c)
      BY <2>1, <2>2, <2>3, <2>5, <2>6 DEF Access!Appear
    <3> QED
      BY <3>1 DEF Step, Access!Next
  <2>7. CASE Shown' = Shown
    BY <2>1, <2>2, <2>3, <2>5, <2>7 DEF Step, Access!vars
  <2> QED
    BY <2>5, <2>6, <2>7
<1> QED
  BY <1>2, <1>3, <1>4, <1>5, <1>6, <1>7, <1>8, <1>9, <1>10, <1>12, <1>13, <1>15, <1>16, <1>17, <1>18, <1>19, <1>20, <1>21
     DEF Next, AcceptLoop, SessionStep, SessionEvent, Exit, Throw, Ended

\* The sessions of the server do what RemoteAccess promises: only peers of the
\* allow-list come in, and never more than there is room for; each is on record
\* before it goes on; nobody sees or moves anything before its banner was ordered,
\* its start is on record and it has the right; a banner that came stays until the
\* end is on record.  That every banner comes is not said: its window may fail.
THEOREM ImplementsRemoteAccess == Spec => PromiseKept
<1>1. Init => Access!Init
  <2> SUFFICES ASSUME Init PROVE Access!Init
    OBVIOUS
  <2>1. Holding = {} /\ Announced = {} /\ Shown = {}
    BY DEF Init, Holding, Announced, Shown, Session, Bounded
  <2>2. \A c \in Conns : ~Logged(c, "auth ok") /\ ~Logged(c, "start")
    BY Tells DEF Init, Logged, Has
  <2>3. Account = [c \in Conns |-> {}] /\ Purpose = [c \in Conns |-> "unknown"]
    BY <2>2 DEF Account, Purpose
  <2> QED
    BY <2>1, <2>3 DEF Init, Access!Init
<1>2. Init => GrantInv
  BY DEF Init, GrantInv, Bannered
<1>3. ShapeOK /\ InHand /\ GrantInv /\ [Next]_vars => GrantInv'
  BY GrantInductive
<1>4. IInv => ShapeOK /\ InHand /\ SlotInv
  BY DEF IInv
<1>5. ShapeOK /\ InHand /\ SlotInv /\ StoryInv /\ GrantInv /\ [Next]_vars => [Access!Next]_(Access!vars)
  BY AccessStep
<1> QED
  BY <1>1, <1>2, <1>3, <1>4, <1>5, Inductive, StoryAlways, PTL DEF Spec, PromiseKept, Access!Spec
=============================================================================
