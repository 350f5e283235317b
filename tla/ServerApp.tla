------------------------------ MODULE ServerApp ------------------------------
(***************************************************************************)
(* server/ServerApp.{h,cpp}: the accept loop of run(), stop() called from  *)
(* another thread, and the detached session thread of every admitted       *)
(* connection, from TLS handshake to the release of its slot, as the       *)
(* console server (server/main.cpp) runs them.                             *)
(*                                                                         *)
(* The steps are what one thread does between two points another thread    *)
(* can see: the atomic running_ and activeSessions_, the listener's fd_,   *)
(* the audit log and the screen.  What the file operations of handle() do  *)
(* to the shared directory is module FileTransfer, authenticate() is       *)
(* module SecurityManager, and the audit file is module AuditLogger; here  *)
(* the log is the rows each connection has caused.                         *)
(***************************************************************************)
EXTENDS Integers, Sequences, FiniteSets

CONSTANTS
    Conns,        \* the connections clients make, each once
    Malformed,    \* those whose client may send a frame that does not decode
    Accounts,     \* the rights the configured users have, a set of sets
    MaxSessions,  \* ServerConfig::maxSessions
    None          \* no connection in the accept loop's hands

ASSUME ConnsAssumption == /\ IsFiniteSet(Conns) /\ None \notin Conns
ASSUME MaxSessionsAssumption == MaxSessions \in Nat

VARIABLES
    process,   \* "up", "exited" (main returned), "terminated" (std::terminate)
    running,   \* running_
    allowed,   \* the connections whose address is inside the allow-list
    fd,        \* listener_.fd_ # kInvalidSocket
    handle,    \* the OS socket behind fd_: "none", "open", "closed"
    runPc,     \* where run() is
    stopPc,    \* where the thread that calls stop() is
    cur,       \* the connection run() holds
    active,    \* activeSessions_
    phase,     \* where each connection is
    gone,      \* the sessions whose client has closed its end
    rights,    \* `rights` of each session that authenticated
    mode,      \* `mode` of each session that was authorized
    rows,      \* the audit rows each connection has caused, in order
    banner,    \* what has become of each session's overlay
    injected,  \* history: sessions whose input reached SendInput
    watched    \* history: sessions that were sent the screen

runVars == <<runPc, cur>>
lstVars == <<fd, handle>>
host    == <<process, running, allowed, lstVars, stopPc>>  \* all of the server but run()
server  == <<host, runVars>>
grants  == <<rights, mode>>
effects == <<banner, injected, watched>>
vars == <<process, running, allowed, fd, handle, runPc, stopPc, cur, active, phase,
          gone, rights, mode, rows, banner, injected, watched>>

-----------------------------------------------------------------------------
(* Rights and modes (common/Protocol.h)                                     *)
Modes == {"FullControl", "ViewOnly", "FileOnly", "unknown"}

HasRight(granted, need) == "AllAccess" \in granted \/ need \in granted

MayView(r) == HasRight(r, "RemoteScreenControl") \/ HasRight(r, "RemoteScreenView")

\* The switch over the requested mode; a value of no case authorizes nothing.
Authorized(r, m) ==
    \/ m = "FullControl" /\ HasRight(r, "RemoteScreenControl")
    \/ m = "ViewOnly" /\ MayView(r)
    \/ m = "FileOnly" /\ HasRight(r, "FileTransfer")

CanControl(c) == mode[c] = "FullControl" /\ HasRight(rights[c], "RemoteScreenControl")
CanView(c)    == mode[c] # "FileOnly" /\ MayView(rights[c])

-----------------------------------------------------------------------------
(* Before a session is authorized every read has the 15 s receive timeout.  *)
Bounded  == {"handshake", "hello", "login", "mode"}
\* The phases of a session thread, in order; each holds a slot.
Session  == Bounded \cup {"grant", "refuse", "banner", "record", "open", "midframe",
                          "ending", "hide", "joining", "leaving"}
Phases   == Session \cup {"away", "backlog", "held", "done", "killed"}

\* The kinds of rows a connection causes.
Rows == {"reject", "accept", "auth ok", "auth failed", "denied", "start", "end"}

Holding == {c \in Conns : phase[c] \in Session}

Log(c, row) == rows' = [rows EXCEPT ![c] = Append(@, row)]
Goto(c, p)  == phase' = [phase EXCEPT ![c] = p]

Init ==
    /\ process = "up"
    /\ running = TRUE
    /\ allowed \in SUBSET Conns
    /\ fd = FALSE /\ handle = "none"
    /\ runPc = "boot" /\ stopPc = "idle" /\ cur = None
    /\ active = 0
    /\ phase = [c \in Conns |-> "away"]
    /\ gone = {}
    /\ rights = [c \in Conns |-> {}]
    /\ mode = [c \in Conns |-> "unknown"]
    /\ rows = [c \in Conns |-> <<>>]
    /\ banner = [c \in Conns |-> "none"] /\ injected = {} /\ watched = {}

-----------------------------------------------------------------------------
(* Clients                                                                  *)
Connect(c) ==
    /\ phase[c] = "away" /\ handle = "open"
    /\ Goto(c, "backlog")
    /\ UNCHANGED <<server, active, gone, grants, rows, effects>>

\* The client closes its end, or its host vanishes and TCP notices.
Hangup(c) ==
    /\ phase[c] \in Session /\ c \notin gone
    /\ gone' = gone \cup {c}
    /\ UNCHANGED <<server, active, phase, grants, rows, effects>>

-----------------------------------------------------------------------------
(* run(): configuration is refused fail-closed (return codes 2 to 6) or the *)
(* listener is open and the accept loop starts.                             *)
BootFails ==
    /\ runPc = "boot"
    /\ runPc' = "returned"
    /\ UNCHANGED <<host, cur, active, phase, gone, grants, rows, effects>>

Boot ==
    /\ runPc = "boot"
    /\ fd' = TRUE /\ handle' = "open"
    /\ runPc' = "loop"
    /\ UNCHANGED <<process, running, allowed, stopPc, cur, active, phase, gone, grants, rows, effects>>

\* while (running_.load())
LoopTest ==
    /\ runPc = "loop"
    /\ runPc' = IF running THEN "accept" ELSE "close"
    /\ UNCHANGED <<host, cur, active, phase, gone, grants, rows, effects>>

Accept(c) ==
    /\ runPc = "accept" /\ fd /\ handle = "open"
    /\ phase[c] = "backlog"
    /\ cur' = c
    /\ Goto(c, "held")
    /\ runPc' = "gate"
    /\ UNCHANGED <<host, active, gone, grants, rows, effects>>

AcceptReturnsNothing ==
    /\ runPc' = IF running THEN "loop" ELSE "close"
    /\ UNCHANGED <<host, cur, active, phase, gone, grants, rows, effects>>

\* accept() on a listener that stop() has closed or is closing.
AcceptClosed == runPc = "accept" /\ (~fd \/ handle = "closed") /\ AcceptReturnsNothing

\* accept() fails on an open listener.
AcceptFails == runPc = "accept" /\ fd /\ handle = "open" /\ AcceptReturnsNothing

\* Outside the allow-list: one row, no TLS.
RejectPeer ==
    /\ runPc = "gate" /\ cur \notin allowed
    /\ Log(cur, "reject")
    /\ Goto(cur, "done")
    /\ runPc' = "loop" /\ cur' = None
    /\ UNCHANGED <<host, active, gone, grants, effects>>

\* A mutant of TakeSlot: fetch_add's result compared with > .
TakeSlotOffByOne ==
    /\ runPc = "gate" /\ cur \in allowed
    /\ active' = active + 1
    /\ runPc' = IF active > MaxSessions THEN "over" ELSE "admit"
    /\ UNCHANGED <<host, cur, phase, gone, grants, rows, effects>>

\* activeSessions_.fetch_add(1) >= maxSessions
TakeSlot ==
    /\ runPc = "gate" /\ cur \in allowed
    /\ active' = active + 1
    /\ runPc' = IF active >= MaxSessions THEN "over" ELSE "admit"
    /\ UNCHANGED <<host, cur, phase, gone, grants, rows, effects>>

\* The cap is reached: give the slot back, one row, close.
RejectOver ==
    /\ runPc = "over"
    /\ active' = active - 1
    /\ Log(cur, "reject")
    /\ Goto(cur, "done")
    /\ runPc' = "loop" /\ cur' = None
    /\ UNCHANGED <<host, gone, grants, effects>>

Admit ==
    /\ runPc = "admit"
    /\ Log(cur, "accept")
    /\ Goto(cur, "handshake")
    /\ runPc' = "loop" /\ cur' = None
    /\ UNCHANGED <<host, active, gone, grants, effects>>

\* SSL_new fails after the row was written.
WrapFails ==
    /\ runPc = "admit"
    /\ Log(cur, "accept")
    /\ active' = active - 1
    /\ Goto(cur, "done")
    /\ runPc' = "loop" /\ cur' = None
    /\ UNCHANGED <<host, gone, grants, effects>>

-----------------------------------------------------------------------------
(* TcpListener::close(), which run() calls when its loop ends and stop()    *)
(* calls from the console handler's thread: test fd_, closesocket(), clear  *)
(* fd_.  fd_ is not atomic and no lock is held.                             *)
CloseSocket ==
    /\ handle' = "closed"
    /\ UNCHANGED fd

RunClose ==
    /\ \/ /\ runPc = "close"
          /\ runPc' = IF fd THEN "closing" ELSE "returned"
          /\ UNCHANGED lstVars
       \/ /\ runPc = "closing"
          /\ CloseSocket
          /\ runPc' = "closed"
       \/ /\ runPc = "closed"
          /\ fd' = FALSE
          /\ runPc' = "returned"
          /\ UNCHANGED handle
    /\ UNCHANGED <<process, running, allowed, stopPc, cur, active, phase, gone, grants, rows, effects>>

\* A mutant of Stop: the listener is left open.
StopOnlyStores ==
    /\ stopPc = "idle"
    /\ running' = FALSE /\ stopPc' = "done"
    /\ UNCHANGED <<process, allowed, lstVars, runVars, active, phase, gone, grants, rows, effects>>

\* A mutant of Stop: close() clears fd_ before it closes the socket.
StopClearsFirst ==
    /\ \/ /\ stopPc = "idle"
          /\ running' = FALSE /\ stopPc' = "close"
          /\ UNCHANGED lstVars
       \/ /\ stopPc = "close"
          /\ fd' = FALSE
          /\ stopPc' = IF fd THEN "closing" ELSE "done"
          /\ UNCHANGED <<running, handle>>
       \/ /\ stopPc = "closing"
          /\ handle' = "closed"
          /\ stopPc' = "done"
          /\ UNCHANGED <<running, fd>>
    /\ UNCHANGED <<process, allowed, runVars, active, phase, gone, grants, rows, effects>>

Stop ==
    /\ \/ /\ stopPc = "idle"
          /\ running' = FALSE
          /\ stopPc' = "close"
          /\ UNCHANGED lstVars
       \/ /\ stopPc = "close"
          /\ stopPc' = IF fd THEN "closing" ELSE "done"
          /\ UNCHANGED <<running, lstVars>>
       \/ /\ stopPc = "closing"
          /\ CloseSocket
          /\ stopPc' = "closed"
          /\ UNCHANGED running
       \/ /\ stopPc = "closed"
          /\ fd' = FALSE
          /\ stopPc' = "done"
          /\ UNCHANGED <<running, handle>>
    /\ UNCHANGED <<process, allowed, runVars, active, phase, gone, grants, rows, effects>>

-----------------------------------------------------------------------------
(* session()                                                                *)
HandshakeOk(c) ==
    /\ phase[c] = "handshake" /\ c \notin gone
    /\ Goto(c, "hello")
    /\ UNCHANGED <<server, active, gone, grants, rows, effects>>

\* SSL_accept fails: the client, its certificate, or the receive timeout.
HandshakeFails(c) ==
    /\ phase[c] = "handshake"
    /\ Log(c, "auth failed")
    /\ Goto(c, "leaving")
    /\ UNCHANGED <<server, active, gone, grants, effects>>

\* A Hello of this version; ServerHello answers it.
Hello(c) ==
    /\ phase[c] = "hello" /\ c \notin gone
    /\ Goto(c, "login")
    /\ UNCHANGED <<server, active, gone, grants, rows, effects>>

\* A mutant of GiveUp: no timeout while the mode is awaited.
GiveUpEarly(c) ==
    /\ phase[c] \in {"hello", "login"}
    /\ Goto(c, "leaving")
    /\ UNCHANGED <<server, active, gone, grants, rows, effects>>

\* Where Hello, AuthRequest or SessionStart is due: the read fails or times
\* out, or the message is another one, or the version is.  No row is written.
GiveUp(c) ==
    /\ phase[c] \in {"hello", "login", "mode"}
    /\ Goto(c, "leaving")
    /\ UNCHANGED <<server, active, gone, grants, rows, effects>>

\* AuthRequest, authenticate(), and AuthResult - written before the audit row.
AuthOk(c, r) ==
    /\ phase[c] = "login"
    /\ rights' = [rights EXCEPT ![c] = r]
    /\ Goto(c, "grant")
    /\ UNCHANGED <<server, active, gone, mode, rows, effects>>

AuthFails(c) ==
    /\ phase[c] = "login"
    /\ Goto(c, "refuse")
    /\ UNCHANGED <<server, active, gone, grants, rows, effects>>

AuditAuth(c) ==
    /\ \/ /\ phase[c] = "grant"
          /\ Log(c, "auth ok")
          /\ Goto(c, "mode")
       \/ /\ phase[c] = "refuse"
          /\ Log(c, "auth failed")
          /\ Goto(c, "leaving")
    /\ UNCHANGED <<server, active, gone, grants, effects>>

StartSession(c, m) ==
    /\ phase[c] = "mode" /\ c \notin gone
    /\ Authorized(rights[c], m)
    /\ mode' = [mode EXCEPT ![c] = m]
    /\ Goto(c, "banner")
    /\ UNCHANGED <<server, active, gone, rights, rows, effects>>

\* A mutant of Deny: the return after the row is missing.
DenyGoesOn(c, m) ==
    /\ phase[c] = "mode" /\ c \notin gone
    /\ ~Authorized(rights[c], m)
    /\ Log(c, "denied")
    /\ Goto(c, "banner")
    /\ UNCHANGED <<server, active, gone, grants, effects>>

Deny(c, m) ==
    /\ phase[c] = "mode" /\ c \notin gone
    /\ ~Authorized(rights[c], m)
    /\ Log(c, "denied")
    /\ Goto(c, "leaving")
    /\ UNCHANGED <<server, active, gone, grants, effects>>

\* overlay.show() starts the overlay's thread and waits a second at most: its
\* window is up, could not be made, or is still to come.  Nobody looks which, and
\* the row that says the session has started is next.
ShowOverlay(c) ==
    /\ phase[c] = "banner"
    /\ \E outcome \in {"coming", "shown", "failed"} : banner' = [banner EXCEPT ![c] = outcome]
    /\ Goto(c, "record")
    /\ UNCHANGED <<server, active, gone, grants, rows, injected, watched>>

\* The overlay's thread, after show() gave up waiting for it.
BannerComes(c) ==
    /\ phase[c] \in Session /\ banner[c] = "coming"
    /\ \E outcome \in {"shown", "failed"} : banner' = [banner EXCEPT ![c] = outcome]
    /\ UNCHANGED <<server, active, phase, gone, grants, rows, injected, watched>>

AuditStart(c) ==
    /\ phase[c] = "record"
    /\ Log(c, "start")
    /\ Goto(c, "open")
    /\ UNCHANGED <<server, active, gone, grants, effects>>

\* The event loop.  Input is injected under Full Control and ignored otherwise;
\* the screen is sent when the session may view and capture works.
Input(c) ==
    /\ phase[c] = "open"
    /\ CanControl(c)
    /\ injected' = injected \cup {c}
    /\ UNCHANGED <<server, active, phase, gone, grants, rows, banner, watched>>

Stream(c) ==
    /\ phase[c] = "open"
    /\ CanView(c)
    /\ watched' = watched \cup {c}
    /\ UNCHANGED <<server, active, phase, gone, grants, rows, banner, injected>>

\* select() says readable, and readMessage() then waits - with no timeout - for
\* a whole frame.
FrameBegins(c) ==
    /\ phase[c] = "open" /\ c \notin gone
    /\ Goto(c, "midframe")
    /\ UNCHANGED <<server, active, gone, grants, rows, effects>>

FrameEnds(c) ==
    /\ phase[c] = "midframe"
    /\ Goto(c, "open")
    /\ UNCHANGED <<server, active, gone, grants, rows, effects>>

\* A mutant of LoopEnds: only running_ ends the loop.
LoopEndsOnStop(c) ==
    /\ phase[c] = "open" /\ ~running
    /\ Goto(c, "ending")
    /\ UNCHANGED <<server, active, gone, grants, rows, effects>>

\* A mutant of LoopEnds: the overlay goes before the end is on record.
LoopEndsHidesFirst(c) ==
    /\ \/ phase[c] = "open" /\ (~running \/ c \in gone)
       \/ phase[c] = "midframe" /\ c \in gone
    /\ banner' = [banner EXCEPT ![c] = "none"]
    /\ Goto(c, "ending")
    /\ UNCHANGED <<server, active, gone, grants, rows, injected, watched>>

\* running_ is false, or a read or a video write finds the connection closed.
LoopEnds(c) ==
    /\ \/ phase[c] = "open" /\ (~running \/ c \in gone)
       \/ phase[c] = "midframe" /\ c \in gone
    /\ Goto(c, "ending")
    /\ UNCHANGED <<server, active, gone, grants, rows, effects>>

Bye(c) ==
    /\ phase[c] = "open"
    /\ Goto(c, "ending")
    /\ UNCHANGED <<server, active, gone, grants, rows, effects>>

AuditEnd(c) ==
    /\ phase[c] = "ending"
    /\ Log(c, "end")
    /\ Goto(c, "hide")
    /\ UNCHANGED <<server, active, gone, grants, effects>>

\* overlay.hide() closes the window, if there is one by then, and joins the
\* overlay's thread.
HideOverlay(c) ==
    /\ \/ phase[c] = "hide" /\ banner[c] \in {"shown", "failed"}
       \/ phase[c] = "joining" /\ banner[c] = "failed"
    /\ banner' = [banner EXCEPT ![c] = "none"]
    /\ Goto(c, "leaving")
    /\ UNCHANGED <<server, active, gone, grants, rows, injected, watched>>

\* With no window to close, it joins a thread nobody has told to end.
HideFindsNothing(c) ==
    /\ phase[c] = "hide" /\ banner[c] = "coming"
    /\ Goto(c, "joining")
    /\ UNCHANGED <<server, active, gone, grants, rows, effects>>

\* A mutant of Leave: an early return gives the slot back a second time.
LeaveTwice(c) ==
    /\ phase[c] = "leaving"
    /\ active' = active - 2
    /\ Goto(c, "done")
    /\ UNCHANGED <<server, gone, grants, rows, effects>>

\* SessionGuard's destructor, however session() returns; the transport goes with it.
Leave(c) ==
    /\ phase[c] = "leaving"
    /\ active' = active - 1
    /\ Goto(c, "done")
    /\ gone' = gone \ {c}
    /\ UNCHANGED <<server, grants, rows, effects>>

-----------------------------------------------------------------------------
(* The end of the process.  The session threads are detached: nobody waits  *)
(* for them.  Every thread stops where it is; the OS closes the sockets.    *)
Die(how) ==
    /\ process = "up"
    /\ process' = how
    /\ phase' = [c \in Conns |-> IF phase[c] = "done" THEN "done" ELSE "killed"]
    /\ handle' = IF handle = "open" THEN "closed" ELSE handle
    /\ runPc' = "returned" /\ cur' = None /\ stopPc' = "done"
    /\ UNCHANGED <<running, allowed, fd, active, gone, grants, rows, effects>>

\* main() returns what run() returned.
Exit == runPc = "returned" /\ Die("exited")

\* decode() throws DeserializeError and nothing in the thread catches it.
Throw(c) ==
    /\ c \in Malformed
    /\ phase[c] \in {"hello", "login", "mode", "open"} /\ c \notin gone
    /\ Die("terminated")

Ended == process # "up" /\ UNCHANGED vars

-----------------------------------------------------------------------------
AcceptLoop ==
    \/ Boot \/ BootFails \/ LoopTest
    \/ \E c \in Conns : Accept(c)
    \/ AcceptClosed \/ RejectPeer \/ TakeSlot \/ RejectOver \/ Admit \/ WrapFails
    \/ RunClose

\* What a session does whether or not its client goes on.
SessionStep(c) ==
    \/ HandshakeFails(c) \/ GiveUp(c) \/ AuditAuth(c)
    \/ ShowOverlay(c) \/ AuditStart(c)
    \/ LoopEnds(c) \/ AuditEnd(c) \/ HideOverlay(c) \/ HideFindsNothing(c) \/ Leave(c)

\* What it does because of what its client sends.
SessionEvent(c) ==
    \/ HandshakeOk(c) \/ Hello(c)
    \/ \E r \in Accounts : AuthOk(c, r)
    \/ AuthFails(c)
    \/ \E m \in Modes : StartSession(c, m) \/ Deny(c, m)
    \/ Input(c) \/ Stream(c) \/ FrameBegins(c) \/ FrameEnds(c) \/ Bye(c)
    \/ Throw(c)

Next ==
    \/ AcceptLoop
    \/ AcceptFails
    \/ Stop
    \/ Exit
    \/ \E c \in Conns :
          \/ Connect(c)
          \/ Hangup(c)
          \/ SessionStep(c)
          \/ SessionEvent(c)
          \/ BannerComes(c)
    \/ Ended

Spec == Init /\ [][Next]_vars

\* Threads that can take a step of their own do; timeouts and noticing a closed
\* connection are such steps.  Nothing is assumed of clients, nor that anyone
\* calls stop(); once called it finishes, and main returns when run() has.
Fairness ==
    /\ WF_vars(AcceptLoop)
    /\ WF_vars(stopPc # "idle" /\ Stop)
    /\ WF_vars(Exit)
    /\ \A c \in Conns : WF_vars(SessionStep(c)) /\ WF_vars(BannerComes(c))

FairSpec == Spec /\ Fairness

-----------------------------------------------------------------------------
ShapeOK ==
    /\ process \in {"up", "exited", "terminated"}
    /\ running \in BOOLEAN /\ fd \in BOOLEAN
    /\ allowed \subseteq Conns
    /\ handle \in {"none", "open", "closed"}
    /\ runPc \in {"boot", "loop", "accept", "gate", "over", "admit", "close", "closing",
                  "closed", "returned"}
    /\ stopPc \in {"idle", "close", "closing", "closed", "done"}
    /\ cur \in Conns \cup {None}
    /\ active \in Int
    /\ phase \in [Conns -> Phases]
    /\ gone \subseteq Conns
    /\ rights \in [Conns -> Accounts \cup {{}}]
    /\ mode \in [Conns -> Modes]
    /\ rows \in [Conns -> Seq(Rows)]
    /\ banner \in [Conns -> {"none", "coming", "shown", "failed"}]
    /\ injected \subseteq Conns /\ watched \subseteq Conns

\* activeSessions_ is a uint32_t: it never falls below zero.
TypeOK == ShapeOK /\ active >= 0

\* activeSessions_ is exact in every state: one for each session thread that
\* has not left, and one for the connection run() is deciding about.
SlotsExact ==
    process = "up" =>
        active = Cardinality(Holding) + (IF runPc \in {"over", "admit"} THEN 1 ELSE 0)

\* No more than maxSessions sessions at once, whatever ends while run() counts.
SessionCap == Cardinality(Holding) <= MaxSessions

\* Both: the count that the cap is held with is the number of sessions.
SlotsKept == SlotsExact /\ SessionCap

\* What the log may say of one connection, from first to last row.
FullTrails == { <<"reject">>,
                <<"accept", "auth failed">>,
                <<"accept", "auth ok", "denied">>,
                <<"accept", "auth ok", "start", "end">> }

\* Where it may stop although its session's thread has returned: a client that
\* said nothing after the connection was accepted, or nothing after its login.
GivenUp == { <<"accept">>, <<"accept", "auth ok">> }

\* The rows of a connection tell a story an auditor can read: nothing twice,
\* nothing out of order, no session without a login, no end without a start -
\* and to the end: a session that was on record as started has its end row
\* when its thread is gone (unless the process went first).
AuditTrail ==
    \A c \in Conns :
        /\ \E t \in FullTrails : Len(rows[c]) <= Len(t) /\ rows[c] = SubSeq(t, 1, Len(rows[c]))
        /\ phase[c] = "done" => rows[c] \in FullTrails \cup GivenUp

Logged(c, row) == \E i \in 1 .. Len(rows[c]) : rows[c][i] = row

\* Whoever moved the mouse or saw the screen was inside the allow-list, logged
\* in with a right that permits it, and is on record as having started.
ActedByRight ==
    /\ \A c \in injected : /\ c \in allowed /\ Logged(c, "auth ok") /\ Logged(c, "start")
                           /\ HasRight(rights[c], "RemoteScreenControl")
                           /\ mode[c] = "FullControl"
    /\ \A c \in watched : /\ c \in allowed /\ Logged(c, "auth ok") /\ Logged(c, "start")
                          /\ MayView(rights[c])
                          /\ mode[c] # "FileOnly"

\* The log is true: each connection's story is whole and in order, and nobody
\* has acted who is not on record with the right to it.
RecordTrue == AuditTrail /\ ActedByRight

\* Refinement: what a session does, with its threads, phases and slots left out,
\* is what RemoteAccess promises.  Rights and mode count from the row that puts
\* them on record; a banner lasts as long as its session.
Account == [c \in Conns |-> IF Logged(c, "auth ok") THEN rights[c] ELSE {}]
Purpose == [c \in Conns |-> IF Logged(c, "start") THEN mode[c] ELSE "unknown"]
Announced == {c \in Holding : banner[c] # "none"}
Shown     == {c \in Holding : banner[c] = "shown"}

Access == INSTANCE RemoteAccess WITH
    served <- Holding, record <- rows, account <- Account, purpose <- Purpose,
    announced <- Announced, shown <- Shown, controlled <- injected, seen <- watched

PromiseKept == Access!Spec

\* "A client that connects but never completes the TLS+auth exchange cannot
\* pin this thread indefinitely."
HandshakeBounded == \A c \in Conns : phase[c] \in Bounded ~> phase[c] \notin Bounded

\* When the client is gone the slot is free again, wherever the session was -
\* unless hide() came before the window: that one waits for a banner nobody will
\* take down.
Stuck(c) == phase[c] = "joining" /\ banner[c] = "shown"
SlotReleased ==
    \A c \in Conns :
        (phase[c] \in Session /\ c \in gone) ~> (phase[c] \in {"done", "killed"} \/ Stuck(c))

\* stop() makes run() return, whenever it is called: before the listener is
\* open, while accept() blocks, or while a connection is being admitted.
StopReturns == ~running ~> runPc = "returned"

\* When run() has returned the listening socket is closed, whichever of run()
\* and stop() got to close it: what starts next on the port finds it free.
PortFreeOnReturn == runPc = "returned" => handle # "open"
=============================================================================
