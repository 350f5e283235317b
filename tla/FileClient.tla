----------------------------- MODULE FileClient -----------------------------
(***************************************************************************)
(* client/main.cpp and client/ClientApp.cpp: one file command of the       *)
(* client, from connecting to its exit code, with the session of the       *)
(* server that answers it.                                                 *)
(*                                                                         *)
(* What the session does about a message is one effect and a list of       *)
(* things still to be done, messages to send and rows to log, in the order *)
(* of the code; the process may end before any of them.  Other sessions    *)
(* replace and remove the file meanwhile; what they do to a temporary file *)
(* is the subject of FileTransfer.                                         *)
(*                                                                         *)
(* A file is a sequence of blocks and its own digest.  A connection keeps  *)
(* order; what is under way when it breaks arrives in part.  It breaks so  *)
(* that both ends notice.                                                  *)
(***************************************************************************)
EXTENDS Naturals, Sequences, SequencesExt, FiniteSets

CONSTANTS
    Commands,   \* of "upload", "download", "delete", "move"
    Bytes,      \* what a block of a file holds
    Contents,   \* of files
    Absent,     \* no such file
    Capacity,   \* messages a direction of the connection holds
    MaxMeddling \* bound: changes made by other sessions

ASSUME ClientAssumption ==
    /\ Commands \subseteq {"upload", "download", "delete", "move"}
    /\ Contents \subseteq Seq(Bytes) /\ Absent \notin Seq(Bytes)
    /\ Capacity \in Nat \ {0} /\ MaxMeddling \in Nat

VARIABLES
    command, pc, code,  \* the client: what it was asked, where it is, its exit code
    local,              \* the local file
    data,               \* what it read of the local file, or received so far
    sent,               \* blocks written
    announced,          \* what FileAccept said of a download
    torn,               \* a write to the local file failed
    toServer, toClient, \* messages under way
    clientOpen, serverOpen, broken, \* the connection
    spc,                \* the session: the message it waits for, or "loop"
    todo,               \* what its handler has still to do
    received,           \* of an upload under way, Absent if there is none
    running, alive,     \* of the server and its process
    remote,             \* the file under file_root
    log,                \* rows about this session's operations, and about its refusal
    effects, meddled    \* history and bound: times the request was carried out

client == <<command, pc, code, local, data, sent, announced, torn>>
connection == <<toServer, toClient, clientOpen, serverOpen, broken>>
server == <<spc, todo, received, running, alive, remote, log, effects, meddled>>
vars == <<client, connection, server>>

Init ==
    /\ command \in Commands
    /\ pc = "connect" /\ code = "none"
    /\ local \in Contents \cup {Absent}
    /\ data = <<>> /\ sent = 0 /\ announced = Absent /\ torn = FALSE
    /\ toServer = <<>> /\ toClient = <<>>
    /\ clientOpen = FALSE /\ serverOpen = FALSE /\ broken = FALSE
    /\ spc = "accept" /\ todo = <<>> /\ received = Absent
    /\ running = TRUE /\ alive = TRUE
    /\ remote \in Contents \cup {Absent}
    /\ log = <<>> /\ effects = 0 /\ meddled = 0

-----------------------------------------------------------------------------
(* The connection                                                           *)

\* A mutant: a message that does not fit is dropped.
ThroughOrDrop(queue, otherOpen, msg) ==
    queue' = IF broken \/ ~otherOpen \/ Len(queue) >= Capacity THEN queue ELSE Append(queue, msg)

\* writeMessage: waits for room; on a connection that is gone the message is,
\* whether or not the call can tell.
Through(queue, otherOpen, msg) ==
    IF broken \/ ~otherOpen THEN queue' = queue
    ELSE Len(queue) < Capacity /\ queue' = Append(queue, msg)

ClientSends(msg) == Through(toServer, serverOpen, msg) /\ UNCHANGED <<clientOpen, serverOpen, broken>>
ServerSends(msg) == Through(toClient, clientOpen, msg) /\ UNCHANGED <<clientOpen, serverOpen, broken>>

\* readMessage, when there is something to read, and when there never will be.
ClientGets == toClient # <<>>
ClientEof == toClient = <<>> /\ (broken \/ ~serverOpen)
ServerEof == toServer = <<>> /\ (broken \/ ~clientOpen)

\* The connection breaks: of what was under way a first part may arrive.
Break ==
    /\ clientOpen /\ serverOpen /\ ~broken
    /\ broken' = TRUE
    /\ toServer' \in Prefixes(toServer)
    /\ toClient' \in Prefixes(toClient)
    /\ UNCHANGED <<clientOpen, serverOpen, client, server>>

-----------------------------------------------------------------------------
(* The client                                                               *)

\* The command is over, or its user ends it; ~ClientApp closes the connection.
\* Closing one that has messages to be read resets it, and what was sent last
\* may be lost.
Return(c) ==
    /\ pc' = "done" /\ code' = c
    /\ clientOpen' = FALSE
    /\ toServer' \in IF toClient = <<>> THEN {toServer} ELSE Prefixes(toServer)
    /\ toClient' = <<>>
    /\ UNCHANGED <<command, local, data, sent, announced, torn, serverOpen, broken, server>>

\* tcpConnect and the handshake; the server may turn the peer away.
Connect ==
    /\ pc = "connect"
    /\ \/ Return("failed")
       \/ /\ spc = "accept" /\ running /\ alive
          /\ clientOpen' = TRUE /\ serverOpen' = TRUE
          /\ toServer' = <<[op |-> "Hello"]>>
          /\ pc' = "ServerHello" /\ spc' = "Hello"
          /\ UNCHANGED <<command, code, local, data, sent, announced, torn, toClient, broken,
                         todo, received, running, alive, remote, log, effects, meddled>>

\* A message taken from the connection, and where the client is then.
Takes(next) ==
    /\ toClient' = Tail(toClient)
    /\ pc' = next
    /\ UNCHANGED <<command, code, local, sent, torn, clientOpen, serverOpen, broken, server>>

\* connectAndAuth: the greeting and the result of the login.
Greeted ==
    /\ pc = "ServerHello" /\ ClientGets /\ Head(toClient).op = "ServerHello"
    /\ Takes("login")
    /\ UNCHANGED <<data, announced, toServer>>
LoggedIn ==
    /\ pc = "AuthResult" /\ ClientGets /\ Head(toClient) = [op |-> "AuthResult", status |-> "Ok"]
    /\ Takes("start")
    /\ UNCHANGED <<data, announced, toServer>>

\* A message written, and where the client is then.
Writes(msg, next) ==
    /\ ClientSends(msg)
    /\ pc' = next
    /\ UNCHANGED <<command, code, local, announced, torn, toClient, server>>
Login == pc = "login" /\ Writes([op |-> "AuthRequest"], "AuthResult") /\ UNCHANGED <<data, sent>>
Start == pc = "start" /\ Writes([op |-> "SessionStart"], "request") /\ UNCHANGED <<data, sent>>

\* The request; uploadFile reads the whole file before.
Request ==
    /\ pc = "request"
    /\ command = "upload" => local # Absent
    /\ data' = IF command = "upload" THEN local ELSE data
    /\ Writes([op |-> command, sha |-> data'], "reply")
    /\ UNCHANGED sent
NoLocalFile == pc = "request" /\ command = "upload" /\ local = Absent /\ Return("failed")

\* The answer to it.
UploadAccepted ==
    /\ pc = "reply" /\ command = "upload" /\ ClientGets /\ Head(toClient).op = "FileAccept"
    /\ Takes("sending")
    /\ UNCHANGED <<data, announced, toServer>>

\* A FileBlock, whose write is looked at, and the FileComplete, whose is not.
SendBlock ==
    /\ pc = "sending" /\ sent < Len(data)
    /\ Writes([op |-> "FileBlock", block |-> data[sent + 1]], "sending")
    /\ sent' = sent + 1
    /\ UNCHANGED data
SendFails == pc = "sending" /\ sent < Len(data) /\ (broken \/ ~serverOpen) /\ Return("failed")
SendComplete ==
    /\ pc = "sending" /\ sent = Len(data)
    /\ Writes([op |-> "FileComplete"], "FileVerify")
    /\ UNCHANGED <<data, sent>>

\* FileVerify or FileOpResult: the status is the exit code.
Answered(msg) == IF msg.status = "Ok" THEN "done" ELSE "failed"
LastAnswer ==
    /\ ClientGets
    /\ \/ pc = "FileVerify" /\ Head(toClient).op = "FileVerify"
       \/ pc = "reply" /\ command \in {"delete", "move"} /\ Head(toClient).op = "FileOpResult"
    /\ Return(Answered(Head(toClient)))

\* downloadFile truncates the local file once the server has accepted, and
\* writes what comes without looking at the stream's state.
\* A mutant: what the file held before stays in it.
Untruncated == IF local = Absent THEN <<>> ELSE local
Truncated == <<>>
DownloadAccepted ==
    /\ pc = "reply" /\ command = "download" /\ ClientGets /\ Head(toClient).op = "FileAccept"
    /\ toClient' = Tail(toClient)
    /\ pc' = "receiving"
    /\ announced' = Head(toClient).sha
    /\ local' = Truncated
    /\ UNCHANGED <<command, code, data, sent, torn, toServer, clientOpen, serverOpen, broken, server>>
CannotCreate ==
    /\ pc = "reply" /\ command = "download" /\ ClientGets /\ Head(toClient).op = "FileAccept"
    /\ Return("failed")
ReceiveBlock ==
    /\ pc = "receiving" /\ ClientGets /\ Head(toClient).op = "FileBlock"
    /\ toClient' = Tail(toClient)
    /\ data' = Append(data, Head(toClient).block)
    /\ \/ local' = Append(local, Head(toClient).block) /\ torn' = torn /\ ~torn
       \/ local' = local /\ torn' = TRUE
    /\ UNCHANGED <<command, pc, code, sent, announced, toServer, clientOpen, serverOpen, broken, server>>
ReceiveComplete ==
    /\ pc = "receiving" /\ ClientGets /\ Head(toClient).op = "FileComplete"
    /\ Takes("receipt")
    /\ UNCHANGED <<data, announced, toServer>>

\* The receipt: the blocks received are compared with what was announced.
Receipt ==
    /\ pc = "receipt"
    /\ Writes([op |-> "FileVerify", status |-> IF data = announced THEN "Ok" ELSE "HashMismatch"], "leave")
    /\ UNCHANGED <<data, sent>>
Leave == pc = "leave" /\ Return(IF data = announced THEN "done" ELSE "failed")

\* Any other message ends the command, and so does the end of the connection.
\* (Between its blocks a download ends at Error only; the session sends nothing
\* else there.)
Expected == [ServerHello |-> {"ServerHello"}, AuthResult |-> {"AuthResult"}, FileVerify |-> {"FileVerify"},
             reply |-> IF command \in {"upload", "download"} THEN {"FileAccept"} ELSE {"FileOpResult"},
             receiving |-> {"FileBlock", "FileComplete"}]
Unexpected ==
    /\ pc \in DOMAIN Expected
    /\ \/ ClientEof
       \/ ClientGets /\ Head(toClient).op \notin Expected[pc]
       \/ ClientGets /\ pc = "AuthResult" /\ Head(toClient).op = "AuthResult" /\ Head(toClient).status # "Ok"
    /\ Return("failed")

Client ==
    \/ Connect \/ Greeted \/ Login \/ LoggedIn \/ Start \/ Request \/ NoLocalFile
    \/ UploadAccepted \/ SendBlock \/ SendFails \/ SendComplete \/ LastAnswer
    \/ DownloadAccepted \/ CannotCreate \/ ReceiveBlock \/ ReceiveComplete \/ Receipt \/ Leave
    \/ Unexpected
\* Its user ends the client.
Killed == pc \notin {"connect", "done"} /\ Return("none")

-----------------------------------------------------------------------------
(* The session                                                              *)

Sends(msg) == [act |-> "send", msg |-> msg]
Logs(row) == [act |-> "log", row |-> row]
Closes == [act |-> "close"]
OpResult(status) == Sends([op |-> "FileOpResult", status |-> status])
Verify(status) == Sends([op |-> "FileVerify", status |-> status])

\* A message taken: where the session is then, and what it has to do.
Handles(op, next, things) ==
    /\ alive /\ todo = <<>> /\ toServer # <<>> /\ Head(toServer).op = op
    /\ toServer' = Tail(toServer)
    /\ spc' = next
    /\ todo' = things
    /\ UNCHANGED <<client, toClient, clientOpen, serverOpen, broken, running, alive, meddled>>
Untouched == UNCHANGED <<received, remote, log, effects>>

\* From the greeting to the loop, which stop() does not interrupt.
HandleHello ==
    /\ spc = "Hello"
    /\ Handles("Hello", "AuthRequest", <<Sends([op |-> "ServerHello"])>>)
    /\ Untouched
HandleAuthRequest ==
    /\ spc = "AuthRequest"
    /\ \E status \in {"Ok", "BadCredentials"} :
          Handles("AuthRequest", "SessionStart",
                  <<Sends([op |-> "AuthResult", status |-> status])>>
                  \o (IF status = "Ok" THEN <<>> ELSE <<Closes>>))
    /\ Untouched
HandleSessionStart ==
    /\ spc = "SessionStart"
    /\ \/ Handles("SessionStart", "loop", <<>>)
       \/ Handles("SessionStart", "loop", <<Sends([op |-> "Error"]), Logs("DENIED"), Closes>>)
    /\ Untouched

InLoop(op, things) == spc = "loop" /\ running /\ Handles(op, "loop", things)

\* FileUploadReq: the path may be rejected, the file may not open.
HandleUpload ==
    \/ /\ InLoop("upload", <<Sends([op |-> "FileAccept"])>>)
       /\ received' = [blocks |-> <<>>, sha |-> Head(toServer).sha]
       /\ UNCHANGED <<remote, log, effects>>
    \/ InLoop("upload", <<Logs("DENIED"), OpResult("BadPath")>>) /\ Untouched
    \/ InLoop("upload", <<OpResult("IoError")>>) /\ Untouched

HandleBlock ==
    /\ InLoop("FileBlock", <<>>)
    /\ received' = [received EXCEPT !.blocks = Append(@, Head(toServer).block)]
    /\ UNCHANGED <<remote, log, effects>>

\* FileComplete: what arrived is compared with what was declared, and what was
\* written of it - all, unless the disk refused some - is renamed over the file,
\* unless that fails.
HandleComplete ==
    /\ received # Absent
    /\ LET right == received.blocks = received.sha IN
       \/ /\ right /\ InLoop("FileComplete", <<Verify("Ok"), Logs("OK")>>)
          /\ remote' \in Prefixes(received.blocks) /\ effects' = effects + 1
       \/ /\ right /\ InLoop("FileComplete", <<Verify("IoError"), Logs("IO_ERROR")>>)
          /\ UNCHANGED <<remote, effects>>
       \/ /\ ~right /\ InLoop("FileComplete", <<Verify("HashMismatch"), Logs("MISMATCH")>>)
          /\ UNCHANGED <<remote, effects>>
    /\ received' = Absent
    /\ UNCHANGED log

\* FileDelete, FileMove: the file goes, or the call fails, as it does when
\* there is none.
\* A mutant: what counts is the error code, which is clear then.
RowByErrorCode(gone) == "OK"
RowOf(gone) == IF gone THEN "OK" ELSE "FAIL"
HandleRemoval ==
    /\ \E op \in {"delete", "move"}, gone \in BOOLEAN :
          /\ gone => remote # Absent
          /\ InLoop(op, <<Logs(RowOf(gone)), OpResult(IF gone THEN "Ok" ELSE "NotFound")>>)
          /\ remote' = IF gone THEN Absent ELSE remote
          /\ effects' = IF gone THEN effects + 1 ELSE effects
    /\ UNCHANGED <<received, log>>
RemovalRejected ==
    /\ \E op \in {"delete", "move"} : InLoop(op, <<Logs("DENIED"), OpResult("BadPath")>>)
    /\ Untouched

\* FileDownloadReq: the whole file is read before its digest is announced.
Blocks(content) == [i \in 1..Len(content) |-> Sends([op |-> "FileBlock", block |-> content[i]])]
HandleDownload ==
    /\ \/ /\ remote # Absent
          /\ InLoop("download", <<Sends([op |-> "FileAccept", sha |-> remote])>> \o Blocks(remote)
                                \o <<Sends([op |-> "FileComplete"]), Logs("OK")>>)
       \/ InLoop("download", <<OpResult("NotFound")>>)
       \/ InLoop("download", <<Logs("DENIED"), OpResult("BadPath")>>)
    /\ Untouched

\* FileVerify: the client's receipt.
HandleReceipt ==
    /\ InLoop("FileVerify", IF Head(toServer).status = "Ok" THEN <<>> ELSE <<Logs("MISMATCH")>>)
    /\ Untouched

\* The session closes the connection; as with Return, what it did not read
\* may cost the client what was sent last.
Close ==
    /\ serverOpen' = FALSE /\ spc' = "ended"
    /\ toClient' \in IF toServer = <<>> THEN {toClient} ELSE Prefixes(toClient)
    /\ toServer' = <<>>
    /\ todo' = <<>>
    /\ received' = Absent
    /\ UNCHANGED <<client, clientOpen, broken, running, remote, effects, meddled>>

\* The next thing a handler does.
Do ==
    /\ alive /\ todo # <<>>
    /\ \/ /\ Head(todo).act = "send" /\ ServerSends(Head(todo).msg)
          /\ todo' = Tail(todo)
          /\ UNCHANGED <<client, toServer, spc, received, running, alive, remote, log, effects, meddled>>
       \/ /\ Head(todo).act = "log" /\ log' = Append(log, Head(todo).row)
          /\ todo' = Tail(todo)
          /\ UNCHANGED <<client, connection, spc, received, running, alive, remote, effects, meddled>>
       \/ Head(todo).act = "close" /\ Close /\ UNCHANGED <<log, alive>>

\* The session ends: the client is gone, the server stops, or the 15 seconds
\* before the loop are over.
End ==
    /\ alive /\ serverOpen /\ todo = <<>>
    /\ ServerEof \/ (spc = "loop" /\ ~running)
    /\ Close /\ UNCHANGED <<log, alive>>
Timeout ==
    /\ alive /\ serverOpen /\ todo = <<>> /\ toServer = <<>> /\ spc # "loop"
    /\ Close /\ UNCHANGED <<log, alive>>

Session ==
    \/ HandleHello \/ HandleAuthRequest \/ HandleSessionStart
    \/ HandleUpload \/ HandleBlock \/ HandleComplete \/ HandleRemoval \/ RemovalRejected
    \/ HandleDownload \/ HandleReceipt \/ Do \/ End

-----------------------------------------------------------------------------
(* What surrounds it                                                        *)

\* stop(), and the end of the process, which does not wait for the session.
Stop ==
    /\ running /\ running' = FALSE
    /\ UNCHANGED <<client, connection, spc, todo, received, alive, remote, log, effects, meddled>>
Die ==
    /\ alive /\ spc \notin {"accept", "ended"}
    /\ alive' = FALSE
    /\ Close /\ UNCHANGED log

\* Another session replaces, creates or removes the file.
Meddle ==
    /\ meddled < MaxMeddling /\ spc = "loop"
    /\ remote' \in Contents \cup {Absent} /\ remote' # remote
    /\ meddled' = meddled + 1
    /\ UNCHANGED <<client, connection, spc, todo, received, running, alive, log, effects>>

Next == Client \/ Session \/ Timeout \/ Break \/ Killed \/ Stop \/ Die \/ Meddle

\* The client and the session's thread go on while they can.
Fairness == WF_vars(Client) /\ WF_vars(Session)

Spec == Init /\ [][Next]_vars /\ Fairness

-----------------------------------------------------------------------------
(* Properties                                                               *)

(***************************************************************************)
(* The command keeps its promise (FileRequest): it is carried out at most  *)
(* once, whatever breaks, and exit code 0 is given only for one that was:  *)
(* the file is replaced, deleted or moved, or the local file holds what   *)
(* the server announced, every byte the disk took.                         *)
(***************************************************************************)
Downloaded == announced # Absent /\ data = announced /\ (torn \/ local = announced)
Abstract == INSTANCE FileRequest WITH
    done <- IF command = "download" THEN (IF Downloaded THEN 1 ELSE 0) ELSE effects,
    answer <- code
RequestSpec == Abstract!Spec

(***************************************************************************)
(* The audit log tells what became of the request whenever the session is  *)
(* between two messages, or over, and its process was not killed in the    *)
(* middle: a row OK for every upload, deletion and move carried out and    *)
(* for none that was not, one for a download the client calls done, and    *)
(* never a mismatch, which only a client unlike this one can cause.        *)
(***************************************************************************)
Rows(row) == Cardinality({i \in 1 .. Len(log) : log[i] = row})
AuditTells ==
    /\ Rows("MISMATCH") = 0
    /\ alive /\ todo = <<>> =>
          IF command = "download" THEN code = "done" => Rows("OK") = 1
          ELSE Rows("OK") = effects

(***************************************************************************)
(* A command ends, whatever refuses it or goes away: neither side waits    *)
(* for a message the other is not going to send.                           *)
(***************************************************************************)
ClientReturns == <>(pc = "done")
=============================================================================
