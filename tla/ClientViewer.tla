---------------------------- MODULE ClientViewer ----------------------------
(***************************************************************************)
(* client/ClientApp.cpp: the two threads of runViewer() and the connection *)
(* they share, net/SocketTransport.cpp.  The UI thread runs the window's   *)
(* message loop, sends input when it has control, and at the end closes    *)
(* the connection and joins the reader thread, which reads messages until  *)
(* a read fails.                                                           *)
(*                                                                         *)
(* An SSL object is not made for two threads.  Once both have been inside  *)
(* it at a time, and when one uses it after it was freed, the behaviour is *)
(* undefined: a call may do its work, fail, or end the process.            *)
(***************************************************************************)
EXTENDS Naturals

CONSTANTS
    Control,        \* the viewer was started for full control
    UserCloses,     \* the user may close the window
    MaxMessages     \* bound: messages from the server not read yet

ASSUME ViewerAssumption ==
    Control \in BOOLEAN /\ UserCloses \in BOOLEAN /\ MaxMessages \in Nat

VARIABLES
    ui,         \* where the UI thread is
    reader,     \* where the reader thread is
    running,    \* ViewerState::running
    ssl,        \* the SSL object: live, or freed with ssl_ dangling, or null
    socket,     \* fd_ is open
    closing,    \* WM_CLOSE is in the window's queue
    server,     \* the server has not closed the connection
    inbox,      \* messages that wait to be read
    damaged,    \* two threads have been inside the SSL object at a time
    crashed,    \* the process has ended, in undefined behaviour or an exception
    acted       \* history: the user has sent input or closed the window

viewerVars == <<ui, reader, running, ssl, socket, closing, server, inbox, damaged, crashed, acted>>

ViewerInit ==
    /\ ui = "loop" /\ reader = "testing"
    /\ running = TRUE
    /\ ssl = "live" /\ socket = TRUE
    /\ closing = FALSE
    /\ server = TRUE /\ inbox = 0
    /\ damaged = FALSE /\ crashed = FALSE /\ acted = FALSE

\* Threads inside a call of OpenSSL on the connection's object.
UIInSSL == ui \in {"writing", "shutting", "freeing"}
ReaderInSSL == reader = "reading"

\* A thread enters the object; the other may be inside.
EnterBeside(inside) == damaged' = (damaged \/ inside)

-----------------------------------------------------------------------------
(* The UI thread.                                                          *)

UIStep(from, to) == ~crashed /\ ui = from /\ ui' = to

\* sendMouse or WM_KEYDOWN, with control: writeMessage; its result is ignored.
\* Posted messages come before input.
Input ==
    /\ Control /\ ~closing
    /\ UIStep("loop", "writing")
    /\ EnterBeside(ReaderInSSL)
    /\ acted' = TRUE
    /\ UNCHANGED <<reader, running, ssl, socket, closing, server, inbox, crashed>>

Written ==
    /\ UIStep("writing", "loop")
    /\ UNCHANGED <<reader, running, ssl, socket, closing, server, inbox, damaged, crashed, acted>>

\* The user closes the window: WM_CLOSE.
UserClose ==
    /\ UserCloses
    /\ ~crashed /\ ui = "loop" /\ ~closing
    /\ closing' = TRUE
    /\ acted' = TRUE
    /\ UNCHANGED <<ui, reader, running, ssl, socket, server, inbox, damaged, crashed>>

\* WM_CLOSE destroys the window, WM_DESTROY ends the loop.
LoopEnds ==
    /\ closing
    /\ UIStep("loop", "stopping")
    /\ closing' = FALSE
    /\ UNCHANGED <<reader, running, ssl, socket, server, inbox, damaged, crashed, acted>>

StopReader ==
    /\ UIStep("stopping", "closing")
    /\ running' = FALSE
    /\ UNCHANGED <<reader, ssl, socket, closing, server, inbox, damaged, crashed, acted>>

\* t_->close(): SSL_shutdown...
Shutdown ==
    /\ UIStep("closing", "shutting")
    /\ EnterBeside(ReaderInSSL)
    /\ UNCHANGED <<reader, running, ssl, socket, closing, server, inbox, crashed, acted>>

\* ...SSL_free, before ssl_ is cleared...
Free ==
    /\ UIStep("shutting", "freeing")
    /\ ssl' = "freed"
    /\ UNCHANGED <<reader, running, socket, closing, server, inbox, damaged, crashed, acted>>

\* A mutant of CloseSocket: the socket is left to the destructor.
LeaveSocket ==
    /\ UIStep("freeing", "joining")
    /\ ssl' = "null"
    /\ UNCHANGED <<reader, running, socket, closing, server, inbox, damaged, crashed, acted>>

\* ...and closesocket, which ends a recv that waits.
CloseSocket ==
    /\ UIStep("freeing", "joining")
    /\ ssl' = "null"
    /\ socket' = FALSE
    /\ UNCHANGED <<reader, running, closing, server, inbox, damaged, crashed, acted>>

\* runViewer returns, and st goes with its stack frame.
Join ==
    /\ reader = "done"
    /\ UIStep("joining", "returned")
    /\ UNCHANGED <<reader, running, ssl, socket, closing, server, inbox, damaged, crashed, acted>>

-----------------------------------------------------------------------------
(* The reader thread.                                                      *)

ReaderStep(from, to) == ~crashed /\ reader = from /\ reader' = to

\* The loop's test, and into SSL_read.
TestTrue ==
    /\ running
    /\ ReaderStep("testing", "calling")
    /\ UNCHANGED <<ui, running, ssl, socket, closing, server, inbox, damaged, crashed, acted>>

TestFalse ==
    /\ ~running
    /\ ReaderStep("testing", "ending")
    /\ UNCHANGED <<ui, running, ssl, socket, closing, server, inbox, damaged, crashed, acted>>

CallRead ==
    /\ ReaderStep("calling", "reading")
    /\ EnterBeside(UIInSSL \/ ssl # "live")
    /\ UNCHANGED <<ui, running, ssl, socket, closing, server, inbox, crashed, acted>>

\* A frame message, which the loop handles without leaving it.
ReadFrame ==
    /\ inbox > 0 /\ socket
    /\ ReaderStep("reading", "testing")
    /\ inbox' = inbox - 1
    /\ UNCHANGED <<ui, running, ssl, socket, closing, server, damaged, crashed, acted>>

\* A mutant of ReadBye: the window is told, the loop goes on.
ReadByeGoesOn ==
    /\ inbox > 0 /\ socket
    /\ ReaderStep("reading", "testing")
    /\ inbox' = inbox - 1
    /\ closing' = (ui = "loop")
    /\ UNCHANGED <<ui, running, ssl, socket, server, damaged, crashed, acted>>

\* A message that is not what decode() expects, or a picture there is no memory
\* for: nothing catches what readerLoop throws, and the process ends.
DecodeThrows ==
    /\ inbox > 0 /\ socket
    /\ ReaderStep("reading", "reading")
    /\ inbox' = inbox - 1
    /\ crashed' = TRUE
    /\ UNCHANGED <<ui, running, ssl, socket, closing, server, damaged, acted>>

\* Bye or Error.
ReadBye ==
    /\ inbox > 0 /\ socket
    /\ ReaderStep("reading", "ending")
    /\ inbox' = inbox - 1
    /\ UNCHANGED <<ui, running, ssl, socket, closing, server, damaged, crashed, acted>>

\* The connection is closed at either end.
ReadFails ==
    /\ ~socket \/ (~server /\ inbox = 0)
    /\ ReaderStep("reading", "ending")
    /\ UNCHANGED <<ui, running, ssl, socket, closing, server, inbox, damaged, crashed, acted>>

\* A mutant of ReaderEnds: nobody tells the window.
ReaderEndsSilently ==
    /\ ReaderStep("ending", "done")
    /\ running' = FALSE
    /\ UNCHANGED <<ui, ssl, socket, closing, server, inbox, damaged, crashed, acted>>

\* running is cleared and WM_CLOSE posted; a window that is gone gets nothing.
ReaderEnds ==
    /\ ReaderStep("ending", "done")
    /\ running' = FALSE
    /\ closing' = (closing \/ ui \in {"loop", "writing"})
    /\ UNCHANGED <<ui, ssl, socket, server, inbox, damaged, crashed, acted>>

-----------------------------------------------------------------------------
(* The server, and undefined behaviour.                                    *)

ServerSends ==
    /\ ~crashed /\ server /\ inbox < MaxMessages
    /\ inbox' = inbox + 1
    /\ UNCHANGED <<ui, reader, running, ssl, socket, closing, server, damaged, crashed, acted>>

ServerCloses ==
    /\ ~crashed /\ server
    /\ server' = FALSE
    /\ UNCHANGED <<ui, reader, running, ssl, socket, closing, inbox, damaged, crashed, acted>>

\* What a read of a damaged object may do, besides its work.
ReadDamaged ==
    /\ damaged
    /\ ReaderStep("reading", "ending")
    /\ UNCHANGED <<ui, running, ssl, socket, closing, server, inbox, damaged, crashed, acted>>

Crash ==
    /\ ~crashed /\ damaged /\ (UIInSSL \/ ReaderInSSL)
    /\ crashed' = TRUE
    /\ UNCHANGED <<ui, reader, running, ssl, socket, closing, server, inbox, damaged, acted>>

UI == \/ Written \/ LoopEnds \/ StopReader \/ Shutdown \/ Free \/ CloseSocket \/ Join
Reader == TestTrue \/ TestFalse \/ CallRead \/ ReadFrame \/ ReadBye \/ ReadFails \/ ReaderEnds
Environment == Input \/ UserClose \/ ServerSends \/ ServerCloses \/ ReadDamaged \/ DecodeThrows \/ Crash

ViewerNext == UI \/ Reader \/ Environment

ViewerSpec == ViewerInit /\ [][ViewerNext]_viewerVars

\* Both threads are scheduled.  Input, the user and the server are not owed.
FairViewerSpec == ViewerSpec /\ WF_viewerVars(UI) /\ WF_viewerVars(Reader)

-----------------------------------------------------------------------------
(* Properties.                                                             *)

\* Every variable has its type; the object and the socket are gone only when
\* the UI thread has closed them.
ViewerTypeOK ==
    /\ ui \in {"loop", "writing", "stopping", "closing", "shutting", "freeing", "joining", "returned"}
    /\ reader \in {"testing", "calling", "reading", "ending", "done"}
    /\ running \in BOOLEAN /\ closing \in BOOLEAN /\ server \in BOOLEAN
    /\ damaged \in BOOLEAN /\ crashed \in BOOLEAN /\ acted \in BOOLEAN
    /\ ssl = IF ui = "freeing" THEN "freed" ELSE IF ui \in {"joining", "returned"} THEN "null" ELSE "live"
    /\ socket <=> ui \notin {"joining", "returned"}
    /\ inbox \in 0 .. MaxMessages

\* As long as the user neither sends input nor closes the window, the two
\* threads are never inside the SSL object at a time: the picture comes and the
\* session ends at the server's will without undefined behaviour.
DamageNeedsUser == damaged => acted

\* When the window is told to close or the server closes the connection,
\* runViewer returns (or the process has ended).
ViewerReturns == (closing \/ ~server) ~> (ui = "returned" \/ crashed)
=============================================================================
