-------------------------- MODULE FileClientProofs --------------------------
(***************************************************************************)
(* Theorems about FileClient, for every command, every file content, every *)
(* capacity of the connection and any number of changes by other sessions. *)
(***************************************************************************)
EXTENDS FileClient, SequenceTheorems, FiniteSetTheorems, TLAPS

-----------------------------------------------------------------------------
(* How a queue changes.                                                    *)

\* r is the beginning of q; what is left of q after its head; q with m behind it.
Shortened(q, r) ==
    Len(r) \in Nat /\ Len(r) <= Len(q) /\ \A i \in 1 .. Len(r) : r[i] = q[i]

Popped(q, r) ==
    /\ Len(q) \in Nat \ {0} /\ Len(r) = Len(q) - 1
    /\ \A i \in 1 .. Len(r) : i + 1 \in 1 .. Len(q) /\ r[i] = q[i + 1]

Pushed(q, r, m) ==
    /\ Len(q) \in Nat /\ Len(r) = Len(q) + 1 /\ r[Len(r)] = m
    /\ \A i \in 1 .. Len(q) : r[i] = q[i]

LEMMA PrefixShortens ==
    ASSUME NEW S, NEW q \in Seq(S), NEW r \in Prefixes(q)
    PROVE  r \in Seq(S) /\ Shortened(q, r)
<1>1. PICK n \in 0 .. Len(q) : r = SubSeq(q, 1, n)
  BY DEF Prefixes
<1>2. Len(q) \in Nat /\ \A i \in 1 .. Len(q) : q[i] \in S
  OBVIOUS
<1>3. n \in Int /\ n >= 0 /\ \A i \in 1 .. n : q[i] \in S
  BY <1>2
<1>4. /\ SubSeq(q, 1, n) \in Seq(S)
      /\ Len(SubSeq(q, 1, n)) = IF 1 <= n THEN n - 1 + 1 ELSE 0
      /\ \A i \in 1 .. n - 1 + 1 : SubSeq(q, 1, n)[i] = q[1 + i - 1]
  BY <1>3, SubSeqProperties
<1>5. r \in Seq(S) /\ Len(r) = n /\ \A i \in 1 .. n : r[i] = q[i]
  BY <1>1, <1>3, <1>4
<1> QED
  BY <1>2, <1>3, <1>5 DEF Shortened

LEMMA TailPops ==
    ASSUME NEW S, NEW q \in Seq(S), q # <<>>
    PROVE  /\ Tail(q) \in Seq(S) /\ Popped(q, Tail(q))
           /\ Head(q) = q[1] /\ Head(q) \in S /\ 1 \in 1 .. Len(q)
<1>1. /\ Len(q) \in Nat \ {0} /\ Tail(q) \in Seq(S) /\ Len(Tail(q)) = Len(q) - 1
      /\ \A i \in 1 .. Len(Tail(q)) : Tail(q)[i] = q[i + 1]
      /\ Head(q) = q[1]
  BY HeadTailProperties, EmptySeq
<1>2. Head(q) \in S
  BY <1>1
<1> QED
  BY <1>1, <1>2 DEF Popped

LEMMA AppendPushes ==
    ASSUME NEW S, NEW q \in Seq(S), NEW m \in S
    PROVE  Append(q, m) \in Seq(S) /\ Pushed(q, Append(q, m), m)
<1>1. Len(q) \in Nat
  OBVIOUS
<1> QED
  BY <1>1, AppendProperties DEF Pushed

LEMMA EmptyIs ==
    ASSUME NEW S
    PROVE  <<>> \in Seq(S) /\ Len(<<>>) = 0 /\ 1 .. Len(<<>>) = {}
  BY EmptySeq

-----------------------------------------------------------------------------
(* What passes between the two, and what a handler may have to do.         *)

Data == Seq(Bytes)
RequestOps == {"upload", "download", "delete", "move"}
Statuses == {"Ok", "BadCredentials", "BadPath", "IoError", "HashMismatch", "NotFound"}
RowNames == {"OK", "FAIL", "DENIED", "IO_ERROR", "MISMATCH"}

Questions ==
    [op : {"Hello", "AuthRequest", "SessionStart", "FileComplete"}]
      \cup [op : RequestOps, sha : Data]
      \cup [op : {"FileBlock"}, block : Bytes]
      \cup [op : {"FileVerify"}, status : {"Ok", "HashMismatch"}]

Replies ==
    [op : {"ServerHello", "Error", "FileAccept", "FileComplete"}]
      \cup [op : {"FileAccept"}, sha : Data]
      \cup [op : {"FileBlock"}, block : Bytes]
      \cup [op : {"AuthResult", "FileOpResult", "FileVerify"}, status : Statuses]

Things == [act : {"send"}, msg : Replies] \cup [act : {"log"}, row : RowNames] \cup [act : {"close"}]

Before == {"connect", "ServerHello", "login", "AuthResult", "start", "request"}

\* The types that need no history: the exit code is given at the end, and until
\* then the connection is open at the client's end, as it is at the other while
\* there is a session.
Types ==
    /\ command \in RequestOps /\ code \in {"none", "done", "failed"}
    /\ pc # "done" => code = "none"
    /\ pc \notin {"connect", "done"} => clientOpen
    /\ spc \notin {"accept", "ended"} => serverOpen
    /\ data \in Data /\ sent \in Nat
    /\ toServer \in Seq(Questions) /\ toClient \in Seq(Replies)
    /\ todo \in Seq(Things) /\ log \in Seq(RowNames)

-----------------------------------------------------------------------------
(* What each kind of step does to the queues.                              *)

LEMMA Returned ==
    ASSUME Types, NEW c, Return(c)
    PROVE  /\ pc' = "done" /\ code' = c /\ clientOpen' = FALSE
           /\ toClient' = <<>> /\ toServer' \in Seq(Questions) /\ Shortened(toServer, toServer')
           /\ UNCHANGED <<command, local, data, sent, announced, torn, serverOpen, broken, server>>
<1>1. toServer' \in Prefixes(toServer) \/ toServer' = toServer
  BY DEF Return
<1>2. toServer \in Seq(Questions) /\ Shortened(toServer, toServer)
  BY DEF Types, Shortened
<1>3. toServer' \in Seq(Questions) /\ Shortened(toServer, toServer')
  BY <1>1, <1>2, PrefixShortens
<1> QED
  BY <1>3 DEF Return

LEMMA Took ==
    ASSUME Types, ClientGets, toClient' = Tail(toClient)
    PROVE  /\ toClient' \in Seq(Replies) /\ Popped(toClient, toClient')
           /\ Head(toClient) = toClient[1] /\ Head(toClient) \in Replies /\ 1 \in 1 .. Len(toClient)
  BY TailPops DEF Types, ClientGets

\* m goes out to the server, or is lost on a connection that is gone.
Adds(m) ==
    /\ toServer' \in Seq(Questions)
    /\ IF broken \/ ~serverOpen THEN toServer' = toServer ELSE Pushed(toServer, toServer', m)

LEMMA Wrote ==
    ASSUME Types, NEW m \in Questions,
           IF broken \/ ~serverOpen THEN toServer' = toServer ELSE toServer' = Append(toServer, m)
    PROVE  Adds(m)
  BY AppendPushes DEF Types, Adds

LEMMA Writing ==
    ASSUME Types, pc = "request" => local \in Data \cup {Absent}
    PROVE  /\ Login => Adds([op |-> "AuthRequest"])
           /\ Start => Adds([op |-> "SessionStart"])
           /\ Request => data' \in Data /\ Adds([op |-> command, sha |-> data'])
           /\ SendBlock => Adds([op |-> "FileBlock", block |-> data[sent + 1]])
           /\ SendComplete => Adds([op |-> "FileComplete"])
           /\ Receipt => Adds([op |-> "FileVerify",
                               status |-> IF data = announced THEN "Ok" ELSE "HashMismatch"])
<1> USE DEF Writes, ClientSends, Through
<1>1. /\ [op |-> "AuthRequest"] \in Questions /\ [op |-> "SessionStart"] \in Questions
      /\ [op |-> "FileComplete"] \in Questions
      /\ \A s \in {"Ok", "HashMismatch"} : [op |-> "FileVerify", status |-> s] \in Questions
      /\ \A b \in Bytes : [op |-> "FileBlock", block |-> b] \in Questions
      /\ \A d \in Data : [op |-> command, sha |-> d] \in Questions
  BY DEF Questions, Types
<1>2. Login => Adds([op |-> "AuthRequest"])
  BY <1>1, Wrote DEF Login
<1>3. Start => Adds([op |-> "SessionStart"])
  BY <1>1, Wrote DEF Start
<1>4. SendComplete => Adds([op |-> "FileComplete"])
  BY <1>1, Wrote DEF SendComplete
<1>5. ASSUME Request
      PROVE  data' \in Data /\ Adds([op |-> command, sha |-> data'])
  <2>1. data' \in Data
    BY <1>5 DEF Request, Types
  <2>2. PICK m \in Questions : m = [op |-> command, sha |-> data']
    BY <1>1, <2>1
  <2>3. Adds(m)
    BY <1>5, <2>2, Wrote DEF Request
  <2> QED
    BY <2>1, <2>2, <2>3 DEF Adds
<1>6. ASSUME SendBlock
      PROVE  Adds([op |-> "FileBlock", block |-> data[sent + 1]])
  <2>1. data[sent + 1] \in Bytes
    BY <1>6 DEF SendBlock, Data, Types
  <2>2. PICK m \in Questions : m = [op |-> "FileBlock", block |-> data[sent + 1]]
    BY <1>1, <2>1
  <2>3. Adds(m)
    BY <1>6, <2>2, Wrote DEF SendBlock
  <2> QED
    BY <2>2, <2>3 DEF Adds
<1>7. ASSUME Receipt
      PROVE  Adds([op |-> "FileVerify", status |-> IF data = announced THEN "Ok" ELSE "HashMismatch"])
  <2>1. PICK s \in {"Ok", "HashMismatch"} : s = IF data = announced THEN "Ok" ELSE "HashMismatch"
    OBVIOUS
  <2>2. PICK m \in Questions : m = [op |-> "FileVerify", status |-> s]
    BY <1>1
  <2>3. Adds(m)
    BY <1>7, <2>1, <2>2, Wrote DEF Receipt
  <2> QED
    BY <2>1, <2>2, <2>3 DEF Adds
<1> QED
  BY <1>2, <1>3, <1>4, <1>5, <1>6, <1>7

\* What every handler does with its message and its connection.
HandledIt ==
    /\ toServer' \in Seq(Questions) /\ Popped(toServer, toServer')
    /\ Head(toServer) = toServer[1] /\ Head(toServer) \in Questions /\ 1 \in 1 .. Len(toServer)
    /\ alive /\ todo = <<>>
    /\ UNCHANGED <<client, toClient, clientOpen, serverOpen, broken, running, alive, meddled>>

LEMMA Handled ==
    ASSUME Types, NEW op, NEW next, NEW things, Handles(op, next, things)
    PROVE  HandledIt /\ toServer[1].op = op /\ spc' = next /\ todo' = things
  BY TailPops DEF Types, Handles, HandledIt

LEMMA Closed ==
    ASSUME Types, Close
    PROVE  /\ toClient' \in Seq(Replies) /\ Shortened(toClient, toClient')
           /\ toServer' = <<>> /\ todo' = <<>> /\ received' = Absent
           /\ serverOpen' = FALSE /\ spc' = "ended"
           /\ UNCHANGED <<client, clientOpen, broken, running, remote, effects, meddled>>
<1>1. toClient' \in Prefixes(toClient) \/ toClient' = toClient
  BY DEF Close
<1>2. toClient \in Seq(Replies) /\ Shortened(toClient, toClient)
  BY DEF Types, Shortened
<1>3. toClient' \in Seq(Replies) /\ Shortened(toClient, toClient')
  BY <1>1, <1>2, PrefixShortens
<1> QED
  BY <1>3 DEF Close

LEMMA Broken ==
    ASSUME Types, Break
    PROVE  /\ toServer' \in Seq(Questions) /\ Shortened(toServer, toServer')
           /\ toClient' \in Seq(Replies) /\ Shortened(toClient, toClient')
           /\ broken' = TRUE /\ UNCHANGED <<clientOpen, serverOpen, client, server>>
  BY PrefixShortens DEF Types, Break

\* The next thing of a handler: a message that goes out, or is lost on a connection
\* that is gone; a row; or the end.
SendsNext ==
    /\ todo[1].act = "send" /\ todo[1].msg \in Replies
    /\ IF broken \/ ~clientOpen THEN toClient' = toClient ELSE Pushed(toClient, toClient', todo[1].msg)
    /\ UNCHANGED <<client, toServer, clientOpen, serverOpen, broken, spc, received, running, alive,
                   remote, log, effects, meddled>>
LogsNext ==
    /\ todo[1].act = "log" /\ todo[1].row \in RowNames /\ Pushed(log, log', todo[1].row)
    /\ UNCHANGED <<client, connection, spc, received, running, alive, remote, effects, meddled>>
PopsTodo == todo' \in Seq(Things) /\ Popped(todo, todo')

LEMMA Did ==
    ASSUME Types, Do
    PROVE  /\ alive /\ todo # <<>> /\ 1 \in 1 .. Len(todo)
           /\ toClient' \in Seq(Replies) /\ log' \in Seq(RowNames)
           /\ \/ PopsTodo /\ (SendsNext \/ LogsNext)
              \/ todo[1].act = "close" /\ Close /\ UNCHANGED <<log, alive>>
<1>1. /\ todo # <<>> /\ alive /\ Head(todo) = todo[1] /\ todo[1] \in Things /\ 1 \in 1 .. Len(todo)
      /\ Tail(todo) \in Seq(Things) /\ Popped(todo, Tail(todo))
  BY TailPops DEF Types, Do
<1>2. CASE Head(todo).act = "send" /\ ServerSends(Head(todo).msg)
  <2>1. todo[1].msg \in Replies
    BY <1>1, <1>2 DEF Things
  <2>2. /\ toClient' \in Seq(Replies)
        /\ IF broken \/ ~clientOpen THEN toClient' = toClient ELSE Pushed(toClient, toClient', todo[1].msg)
        /\ UNCHANGED <<clientOpen, serverOpen, broken>>
    BY <1>1, <1>2, <2>1, AppendPushes DEF ServerSends, Through, Types
  <2>3. /\ todo' = Tail(todo)
        /\ UNCHANGED <<client, toServer, spc, received, running, alive, remote, log, effects, meddled>>
    BY <1>1, <1>2 DEF Do
  <2>4. SendsNext /\ PopsTodo
    BY <1>1, <1>2, <2>1, <2>2, <2>3 DEF SendsNext, PopsTodo
  <2> QED
    BY <1>1, <2>2, <2>3, <2>4 DEF Types
<1>3. CASE Head(todo).act = "log"
  <2>1. todo[1].row \in RowNames
    BY <1>1, <1>3 DEF Things
  <2>2. /\ log' = Append(log, todo[1].row) /\ todo' = Tail(todo)
        /\ UNCHANGED <<client, connection, spc, received, running, alive, remote, effects, meddled>>
    BY <1>1, <1>3 DEF Do
  <2>3. log' \in Seq(RowNames) /\ Pushed(log, log', todo[1].row)
    BY <2>1, <2>2, AppendPushes DEF Types
  <2>4. LogsNext /\ PopsTodo
    BY <1>1, <1>3, <2>1, <2>2, <2>3 DEF LogsNext, PopsTodo
  <2> QED
    BY <1>1, <2>2, <2>3, <2>4 DEF Types, connection
<1>4. CASE Head(todo).act = "close"
  <2>1. Close /\ UNCHANGED <<log, alive>>
    BY <1>4 DEF Do
  <2> QED
    BY <1>1, <1>4, <2>1, Closed DEF Types
<1> QED
  BY <1>2, <1>3, <1>4 DEF Do

-----------------------------------------------------------------------------
(* The phases of a command.                                                *)

\* The request has not been handled.  A session that was refused has a row for
\* that, and then only closes.
Greetings == {"ServerHello", "AuthResult", "Error"}
Greets(x) ==
    \/ x.act = "close"
    \/ x.act = "send" /\ x.msg.op \in Greetings
    \/ x.act = "log" /\ x.row = "DENIED"
Refused ==
    /\ Len(log) = 1 /\ log[1] = "DENIED"
    /\ spc = "ended" \/ (todo # <<>> /\ \A i \in 1 .. Len(todo) : todo[i].act = "close")
Refusing ==
    /\ \A i \in 1 .. Len(todo) : Greets(todo[i])
    /\ \A i \in 1 .. Len(todo) : todo[i].act = "log" =>
          log = <<>> /\ i < Len(todo) /\ \A j \in i + 1 .. Len(todo) : todo[j].act = "close"
    /\ log = <<>> \/ Refused
Asking ==
    /\ pc \in Before \cup {"reply", "done"} /\ code # "done"
    /\ local \in Data \cup {Absent} /\ remote \in Data \cup {Absent}
    /\ announced = Absent /\ sent = 0 /\ (command # "upload" => data = <<>>)
    /\ received = Absent /\ effects = 0
    /\ \A i \in 1 .. Len(toClient) : toClient[i].op \in Greetings
    /\ Refusing
    /\ \A i \in 1 .. Len(toServer) :
          \/ toServer[i].op \in {"Hello", "AuthRequest", "SessionStart"}
          \/ i = Len(toServer) /\ pc \notin Before /\ toServer[i] = [op |-> command, sha |-> data]

\* An upload was accepted: its messages arrive one after the other, and as long as
\* the connection holds they are all that was sent.
Part(c, k) ==
    IF k <= Len(c) THEN [op |-> "FileBlock", block |-> c[k]] ELSE [op |-> "FileComplete"]
Arrived == Len(received.blocks)
Uploading ==
    /\ command = "upload" /\ pc \in {"reply", "sending", "FileVerify", "done"} /\ code # "done"
    /\ announced = Absent /\ sent \in 0 .. Len(data) /\ (pc = "reply" => sent = 0)
    /\ received \in [blocks : Data, sha : Data] /\ received.sha = data
    /\ Arrived <= Len(data) /\ \A i \in 1 .. Arrived : received.blocks[i] = data[i]
    /\ alive /\ serverOpen /\ spc = "loop" /\ effects = 0 /\ log = <<>>
    /\ \A i \in 1 .. Len(toClient) : toClient[i].op \in Greetings \cup {"FileAccept"}
    /\ \A i \in 1 .. Len(todo) : todo[i].act = "send" /\ todo[i].msg.op = "FileAccept"
    /\ \A i \in 1 .. Len(toServer) :
          Arrived + i <= Len(data) + 1 /\ toServer[i] = Part(data, Arrived + i)
    /\ pc \in {"reply", "sending"} =>
          Arrived + Len(toServer) <= sent /\ (~broken => Arrived + Len(toServer) = sent)

\* The request was refused, or carried out and not a download, or its session is
\* gone: there is a row for it, logged or still to be, and "Ok" is only said of a
\* request that was carried out.
IsOk(msg) == msg.op \in {"FileVerify", "FileOpResult"} /\ msg.status = "Ok"
LogDue == \E i \in 1 .. Len(todo) : todo[i].act = "log"
Told == \/ log = <<>> /\ effects = 0
        \/ Len(log) = 1 /\ (log[1] = "OK" <=> effects = 1)
Agenda ==
    \A i \in 1 .. Len(todo) :
        \/ /\ todo[i].act = "send" /\ todo[i].msg.op \in {"FileVerify", "FileOpResult"}
           /\ IsOk(todo[i].msg) => effects = 1
        \/ /\ todo[i].act = "log" /\ todo[i].row # "MISMATCH" /\ (todo[i].row = "OK" <=> effects = 1)
           /\ \A j \in 1 .. Len(todo) : todo[j].act = "log" => i = j
Settled ==
    /\ pc \in {"reply", "sending", "FileVerify", "done"}
    /\ pc \in {"sending", "FileVerify"} => command = "upload"
    /\ pc = "sending" => ~serverOpen
    /\ spc \in {"loop", "ended"} /\ received = Absent /\ announced = Absent /\ toServer = <<>>
    /\ effects \in {0, 1} /\ (command = "download" => effects = 0) /\ (code = "done" => effects = 1)
    /\ \A i \in 1 .. Len(toClient) :
          /\ toClient[i].op \notin {"FileBlock", "FileComplete"} /\ (IsOk(toClient[i]) => effects = 1)
          /\ toClient[i].op = "FileAccept" => command = "upload" /\ (pc = "reply" => ~serverOpen)
    /\ Agenda
    /\ \A i \in 1 .. Len(log) : log[i] # "MISMATCH"
    /\ LogDue => log = <<>>
    /\ alive /\ ~LogDue => Told

\* A download of the content c was accepted: the k-th thing to be done about it, and
\* how many of these the client has taken.
Item(c, k) ==
    IF k = 1 THEN Sends([op |-> "FileAccept", sha |-> c])
    ELSE IF k <= Len(c) + 1 THEN Sends([op |-> "FileBlock", block |-> c[k - 1]])
    ELSE IF k = Len(c) + 2 THEN Sends([op |-> "FileComplete"])
    ELSE Logs("OK")
Taken(c) == IF pc = "reply" THEN 0 ELSE IF pc = "receiving" THEN 1 + Len(data) ELSE Len(c) + 2
InOrder(c) ==
    /\ \A i \in 1 .. Len(toClient) :
          Taken(c) + i <= Len(c) + 2 /\ Sends(toClient[i]) = Item(c, Taken(c) + i)
    /\ todo # <<>> /\ ~broken => Taken(c) + Len(toClient) + Len(todo) = Len(c) + 3
\* Or the client finds a greeting it does not wait for, which ends the command.
Stale == pc = "reply" /\ toClient # <<>> /\ toClient[1].op \in Greetings
Offered(c) ==
    /\ command = "download" /\ pc \in {"reply", "receiving", "receipt", "leave", "done"}
    /\ pc = "reply" => data = <<>> /\ announced = Absent
    /\ pc \in {"receiving", "receipt", "leave"} =>
          /\ announced = c /\ Len(data) <= Len(c) /\ \A i \in 1 .. Len(data) : data[i] = c[i]
          /\ torn \/ local = data
    /\ pc \in {"receipt", "leave"} => data = c
    /\ code = "done" => Downloaded
    /\ spc \in {"loop", "ended"} /\ received = Absent /\ effects = 0
    /\ \A i \in 1 .. Len(toServer) : toServer[i] = [op |-> "FileVerify", status |-> "Ok"]
    /\ Len(todo) <= Len(c) + 3
    /\ \A i \in 1 .. Len(todo) : todo[i] = Item(c, Len(c) + 3 - Len(todo) + i)
    /\ pc = "done" \/ Stale \/ InOrder(c)
    /\ log \in {<<>>, <<"OK">>}
    /\ alive => log = IF todo = <<>> THEN <<"OK">> ELSE <<>>

Phases == Asking \/ Uploading \/ Settled \/ \E c \in Data : Offered(c)

Inv == Types /\ Phases

-----------------------------------------------------------------------------
(* Types.                                                                  *)

Returns == \E c \in {"none", "done", "failed"} : Return(c)

\* The client's actions that are calls of Return.
LEMMA WhoReturns ==
    /\ NoLocalFile \/ SendFails \/ CannotCreate \/ Unexpected \/ Killed \/ LastAnswer \/ Leave
         => Returns /\ pc \notin {"connect", "done"}
    /\ NoLocalFile \/ SendFails \/ CannotCreate \/ Unexpected => Return("failed")
    /\ Killed => Return("none")
<1>1. NoLocalFile \/ SendFails \/ CannotCreate \/ Unexpected
        => Return("failed") /\ pc \notin {"connect", "done"}
  BY DEF NoLocalFile, SendFails, CannotCreate, Unexpected, Expected
<1>2. Killed => Return("none") /\ pc \notin {"connect", "done"}
  BY DEF Killed
<1>3. LastAnswer \/ Leave => Returns /\ pc \notin {"connect", "done"}
  BY DEF LastAnswer, Leave, Returns, Answered
<1> QED
  BY <1>1, <1>2, <1>3 DEF Returns

\* The connection is made.
Connecting ==
    /\ pc = "connect" /\ spc = "accept" /\ clientOpen' = TRUE /\ serverOpen' = TRUE
    /\ toServer' = <<[op |-> "Hello"]>>
    /\ pc' = "ServerHello" /\ spc' = "Hello"
    /\ UNCHANGED <<command, code, local, data, sent, announced, torn, toClient, broken,
                   todo, received, running, alive, remote, log, effects, meddled>>

LEMMA WhoConnects ==
    ASSUME Connect
    PROVE  Connecting \/ Return("failed")
  BY DEF Connect, Connecting

LEMMA TypesReturn ==
    ASSUME Types, pc # "done", Returns
    PROVE  Types'
<1>1. PICK c \in {"none", "done", "failed"} : Return(c)
  BY DEF Returns
<1>2. toClient' \in Seq(Replies)
  BY <1>1, Returned, EmptyIs
<1> QED
  BY <1>1, <1>2, Returned DEF Types, server

LEMMA TypesClient ==
    ASSUME Types, pc = "request" => local \in Data \cup {Absent}, Client \/ Killed
    PROVE  Types'
<1> USE DEF Types, server
<1>1. CASE NoLocalFile \/ SendFails \/ CannotCreate \/ Unexpected \/ Killed \/ LastAnswer \/ Leave
  BY <1>1, WhoReturns, TypesReturn
<1>2. CASE Connect
  <2>1. CASE Connecting
    <3>1. [op |-> "Hello"] \in Questions
      BY DEF Questions
    <3>2. <<[op |-> "Hello"]>> \in Seq(Questions)
      BY <3>1
    <3> QED
      BY <2>1, <3>2 DEF Connecting
  <2>2. CASE Return("failed")
    <3>1. pc # "done"
      BY <1>2 DEF Connect
    <3> QED
      BY <2>2, <3>1, TypesReturn DEF Returns
  <2> QED
    BY <1>2, <2>1, <2>2, WhoConnects
<1>3. CASE Greeted \/ LoggedIn \/ UploadAccepted \/ ReceiveComplete
  <2>1. /\ toClient' \in Seq(Replies) /\ pc \notin {"connect", "done"} /\ pc' # "done"
        /\ UNCHANGED <<command, code, data, sent, toServer, clientOpen, serverOpen, server>>
    BY <1>3, Took DEF Greeted, LoggedIn, UploadAccepted, ReceiveComplete, Takes
  <2> QED
    BY <2>1
<1>4. CASE Login \/ Start \/ SendBlock \/ SendComplete \/ Receipt \/ Request
  <2>1. data' \in Data
    BY <1>4 DEF Login, Start, SendBlock, SendComplete, Receipt, Request
  <2>2. /\ toServer' \in Seq(Questions) /\ pc' # "done"
        /\ UNCHANGED <<clientOpen, serverOpen, command, code, toClient, server>>
    BY <1>4, Writing
    DEF Adds, Login, Start, SendBlock, SendComplete, Receipt, Request, Writes, ClientSends
  <2>3. pc \notin {"connect", "done"}
    BY <1>4 DEF Login, Start, SendBlock, SendComplete, Receipt, Request
  <2>4. sent' \in Nat
    BY <1>4 DEF Login, Start, SendBlock, SendComplete, Receipt, Request
  <2> QED
    BY <2>1, <2>2, <2>3, <2>4
<1>5. CASE DownloadAccepted \/ ReceiveBlock
  <2>1. toClient' \in Seq(Replies) /\ Head(toClient) \in Replies
    BY <1>5, Took DEF DownloadAccepted, ReceiveBlock
  <2>2. data' \in Data
    <3>1. CASE ReceiveBlock
      <4>1. Head(toClient).block \in Bytes
        BY <2>1, <3>1 DEF ReceiveBlock, Replies
      <4> QED
        BY <3>1, <4>1 DEF ReceiveBlock, Data
    <3> QED
      BY <1>5, <3>1 DEF DownloadAccepted
  <2>3. /\ pc \notin {"connect", "done"} /\ pc' # "done"
        /\ UNCHANGED <<command, code, sent, toServer, clientOpen, serverOpen, server>>
    BY <1>5 DEF DownloadAccepted, ReceiveBlock
  <2> QED
    BY <2>1, <2>2, <2>3
<1> QED
  BY <1>1, <1>2, <1>3, <1>4, <1>5 DEF Client

\* A handler's things to do, for each answer it may give.
LEMMA AnswersTyped ==
    /\ \A s \in Statuses : OpResult(s) \in Things /\ Verify(s) \in Things
    /\ \A r \in RowNames : Logs(r) \in Things
    /\ \A s \in Statuses : Sends([op |-> "AuthResult", status |-> s]) \in Things
    /\ \A o \in {"ServerHello", "Error", "FileAccept", "FileComplete"} : Sends([op |-> o]) \in Things
    /\ \A c \in Data : Sends([op |-> "FileAccept", sha |-> c]) \in Things
    /\ \A b \in Bytes : Sends([op |-> "FileBlock", block |-> b]) \in Things
    /\ Closes \in Things
<1> USE DEF Sends, Things
<1>1. /\ \A s \in Statuses, o \in {"AuthResult", "FileOpResult", "FileVerify"} :
             Sends([op |-> o, status |-> s]) \in Things
      /\ \A o \in {"ServerHello", "Error", "FileAccept", "FileComplete"} : Sends([op |-> o]) \in Things
  BY DEF Replies
<1>2. /\ \A c \in Data : Sends([op |-> "FileAccept", sha |-> c]) \in Things
      /\ \A b \in Bytes : Sends([op |-> "FileBlock", block |-> b]) \in Things
  BY DEF Replies
<1>3. Closes \in Things /\ \A r \in RowNames : Logs(r) \in Things
  BY DEF Closes, Logs
<1> QED
  BY <1>1, <1>2, <1>3 DEF OpResult, Verify

\* One thing after the other.
LEMMA ShortList ==
    ASSUME NEW S, NEW x \in S, NEW y \in S
    PROVE  /\ <<x>> \in Seq(S) /\ Len(<<x>>) = 1 /\ <<x>>[1] = x
           /\ <<x, y>> \in Seq(S) /\ Len(<<x, y>>) = 2 /\ <<x, y>>[1] = x /\ <<x, y>>[2] = y
           /\ <<x>> \o <<>> = <<x>> /\ <<x>> \o <<y>> = <<x, y>>
<1>1. /\ <<x>> \in Seq(S) /\ Len(<<x>>) = 1 /\ <<x>>[1] = x
      /\ <<y>> \in Seq(S) /\ Len(<<y>>) = 1 /\ <<y>>[1] = y
      /\ <<x, y>> \in Seq(S) /\ Len(<<x, y>>) = 2 /\ <<x, y>>[1] = x /\ <<x, y>>[2] = y
  OBVIOUS
<1>2. <<x>> \o <<>> = <<x>>
  BY <1>1, ConcatEmptySeq
<1>3. /\ <<x>> \o <<y>> \in Seq(S) /\ Len(<<x>> \o <<y>>) = 2
      /\ (<<x>> \o <<y>>)[1] = x /\ (<<x>> \o <<y>>)[2] = y
  BY <1>1, ConcatProperties
<1>4. \A i \in 1 .. 2 : (<<x>> \o <<y>>)[i] = <<x, y>>[i]
  BY <1>1, <1>3
<1>5. <<x>> \o <<y>> = <<x, y>>
  BY <1>1, <1>3, <1>4, SeqEqual
<1> QED
  BY <1>1, <1>2, <1>5

\* What a download has to do is its items.
LEMMA DownloadList ==
    ASSUME NEW c \in Data
    PROVE  LET list == <<Sends([op |-> "FileAccept", sha |-> c])>> \o Blocks(c)
                         \o <<Sends([op |-> "FileComplete"]), Logs("OK")>>
           IN  /\ list \in Seq(Things) /\ Len(list) = Len(c) + 3
               /\ \A k \in 1 .. Len(c) + 3 : list[k] = Item(c, k)
<1> DEFINE a == Sends([op |-> "FileAccept", sha |-> c])
           x == Sends([op |-> "FileComplete"])
           y == Logs("OK")
           first == <<a>> \o Blocks(c)
           list == first \o <<x, y>>
<1>1. Len(c) \in Nat /\ \A i \in 1 .. Len(c) : c[i] \in Bytes
  BY DEF Data
<1>2. /\ Blocks(c) \in Seq(Things) /\ Len(Blocks(c)) = Len(c)
      /\ \A i \in 1 .. Len(c) : Blocks(c)[i] = Sends([op |-> "FileBlock", block |-> c[i]])
  BY <1>1, AnswersTyped DEF Blocks
<1>3. a \in Things /\ x \in Things /\ y \in Things
  BY AnswersTyped DEF RowNames
<1> HIDE DEF a, x, y
<1>4. /\ <<a>> \in Seq(Things) /\ Len(<<a>>) = 1 /\ <<a>>[1] = a
      /\ <<x, y>> \in Seq(Things) /\ Len(<<x, y>>) = 2 /\ <<x, y>>[1] = x /\ <<x, y>>[2] = y
  BY <1>3, ShortList
<1>5. /\ first \in Seq(Things) /\ Len(first) = Len(c) + 1
      /\ \A k \in 1 .. Len(c) + 1 : first[k] = IF k <= 1 THEN <<a>>[k] ELSE Blocks(c)[k - 1]
  BY <1>1, <1>2, <1>4, ConcatProperties
<1> HIDE DEF first
<1>6. /\ list \in Seq(Things) /\ Len(list) = Len(c) + 3
      /\ \A k \in 1 .. Len(c) + 3 :
            list[k] = IF k <= Len(c) + 1 THEN first[k] ELSE <<x, y>>[k - (Len(c) + 1)]
  BY <1>1, <1>4, <1>5, ConcatProperties
<1> HIDE DEF list
<1>7. ASSUME NEW k \in 1 .. Len(c) + 3
      PROVE  list[k] = Item(c, k)
  <2>1. CASE k = 1
    BY <1>1, <1>4, <1>5, <1>6, <2>1 DEF Item, a
  <2>2. CASE k > 1 /\ k <= Len(c) + 1
    BY <1>1, <1>2, <1>5, <1>6, <2>2 DEF Item
  <2>3. CASE k = Len(c) + 2
    BY <1>1, <1>4, <1>6, <2>3 DEF Item, x
  <2>4. CASE k = Len(c) + 3
    BY <1>1, <1>4, <1>6, <2>4 DEF Item, y
  <2> QED
    BY <1>1, <2>1, <2>2, <2>3, <2>4
<1> QED
  BY <1>6, <1>7 DEF list, first, a, x, y

\* The handlers, each with the message it is for.
Handlers ==
    \/ HandleHello \/ HandleAuthRequest \/ HandleSessionStart \/ HandleUpload \/ HandleBlock
    \/ HandleComplete \/ HandleRemoval \/ RemovalRejected \/ HandleDownload \/ HandleReceipt

LEMMA WhoHandles ==
    ASSUME Types, Handlers
    PROVE  /\ HandledIt /\ UNCHANGED log /\ spc \notin {"accept", "ended"}
           /\ HandleHello => toServer[1].op = "Hello"
           /\ HandleAuthRequest => toServer[1].op = "AuthRequest"
           /\ HandleSessionStart => toServer[1].op = "SessionStart"
           /\ HandleUpload => toServer[1].op = "upload"
           /\ HandleBlock => toServer[1].op = "FileBlock"
           /\ HandleComplete => toServer[1].op = "FileComplete"
           /\ HandleRemoval \/ RemovalRejected => toServer[1].op \in {"delete", "move"}
           /\ HandleDownload => toServer[1].op = "download"
           /\ HandleReceipt => toServer[1].op = "FileVerify"
<1> USE DEF InLoop, Handles
<1>1. /\ alive /\ todo = <<>> /\ toServer # <<>> /\ toServer' = Tail(toServer) /\ UNCHANGED log
      /\ UNCHANGED <<client, toClient, clientOpen, serverOpen, broken, running, alive, meddled>>
  <2>1. CASE HandleHello \/ HandleAuthRequest \/ HandleSessionStart
    BY <2>1 DEF HandleHello, HandleAuthRequest, HandleSessionStart, Untouched
  <2>2. CASE HandleUpload \/ HandleBlock \/ HandleComplete
    BY <2>2 DEF HandleUpload, HandleBlock, HandleComplete, Untouched
  <2>3. CASE HandleRemoval \/ RemovalRejected \/ HandleDownload \/ HandleReceipt
    BY <2>3 DEF HandleRemoval, RemovalRejected, HandleDownload, HandleReceipt, Untouched
  <2> QED
    BY <2>1, <2>2, <2>3 DEF Handlers
<1>2. HandledIt
  BY <1>1, TailPops DEF HandledIt, Types
<1>7. spc \notin {"accept", "ended"}
  <2>1. CASE HandleHello \/ HandleAuthRequest \/ HandleSessionStart
    BY <2>1 DEF HandleHello, HandleAuthRequest, HandleSessionStart
  <2>2. CASE HandleUpload \/ HandleBlock \/ HandleComplete
    BY <2>2 DEF HandleUpload, HandleBlock, HandleComplete
  <2>3. CASE HandleRemoval \/ RemovalRejected \/ HandleDownload \/ HandleReceipt
    BY <2>3 DEF HandleRemoval, RemovalRejected, HandleDownload, HandleReceipt
  <2> QED
    BY <2>1, <2>2, <2>3 DEF Handlers
<1>3. Head(toServer) = toServer[1]
  BY <1>2 DEF HandledIt
<1>4. /\ HandleHello => toServer[1].op = "Hello"
      /\ HandleAuthRequest => toServer[1].op = "AuthRequest"
      /\ HandleSessionStart => toServer[1].op = "SessionStart"
  BY <1>3 DEF HandleHello, HandleAuthRequest, HandleSessionStart
<1>5. /\ HandleUpload => toServer[1].op = "upload"
      /\ HandleBlock => toServer[1].op = "FileBlock"
      /\ HandleComplete => toServer[1].op = "FileComplete"
  BY <1>3 DEF HandleUpload, HandleBlock, HandleComplete
<1>6. /\ HandleRemoval \/ RemovalRejected => toServer[1].op \in {"delete", "move"}
      /\ HandleDownload => toServer[1].op = "download"
      /\ HandleReceipt => toServer[1].op = "FileVerify"
  BY <1>3 DEF HandleRemoval, RemovalRejected, HandleDownload, HandleReceipt
<1> QED
  BY <1>1, <1>2, <1>4, <1>5, <1>6, <1>7

LEMMA TypesElse ==
    ASSUME Types, Session \/ Timeout \/ Break \/ Stop \/ Die \/ Meddle, todo' \in Seq(Things)
    PROVE  Types'
<1> USE DEF Types, client, connection
<1>1. CASE Handlers
  BY <1>1, WhoHandles DEF HandledIt
<1>2. CASE Do
  <2>1. CASE PopsTodo /\ (SendsNext \/ LogsNext)
    BY <1>2, <2>1, Did DEF SendsNext, LogsNext
  <2>2. CASE Close /\ UNCHANGED <<log, alive>>
    <3>1. toServer' \in Seq(Questions)
      BY <2>2, Closed, EmptyIs
    <3> QED
      BY <2>2, <3>1, Closed
  <2> QED
    BY <1>2, <2>1, <2>2, Did
<1>3. CASE End \/ Timeout \/ Die
  <2>1. Close /\ UNCHANGED log
    BY <1>3 DEF End, Timeout, Die
  <2>2. toServer' \in Seq(Questions)
    BY <2>1, Closed, EmptyIs
  <2> QED
    BY <2>1, <2>2, Closed
<1>4. CASE Break
  BY <1>4, Broken DEF server
<1>5. CASE Stop \/ Meddle
  BY <1>5 DEF Stop, Meddle
<1> QED
  BY <1>1, <1>2, <1>3, <1>4, <1>5 DEF Session, Handlers

\* A step that closes the session, or takes a thing to do, keeps the list typed.
LEMMA TodoTyped ==
    ASSUME Types, Do \/ End \/ Timeout \/ Break \/ Stop \/ Die \/ Meddle
    PROVE  todo' \in Seq(Things)
<1>1. CASE Do
  <2>1. CASE PopsTodo
    BY <2>1 DEF PopsTodo
  <2>2. CASE Close
    BY <2>2, Closed, EmptyIs
  <2> QED
    BY <1>1, <2>1, <2>2, Did
<1>2. CASE End \/ Timeout \/ Die
  <2>1. Close
    BY <1>2 DEF End, Timeout, Die
  <2> QED
    BY <2>1, Closed, EmptyIs
<1>3. CASE Break \/ Stop \/ Meddle
  BY <1>3 DEF Types, Break, Stop, Meddle, server
<1> QED
  BY <1>1, <1>2, <1>3

-----------------------------------------------------------------------------
(* Before the request is handled.                                          *)

LEMMA RefusingStays ==
    ASSUME Refusing, UNCHANGED <<todo, log, spc>>
    PROVE  Refusing'
  BY DEF Refusing, Refused

LEMMA RefusingEnds ==
    ASSUME Refusing, todo' = <<>>, spc' = "ended", UNCHANGED log
    PROVE  Refusing'
  BY EmptyIs DEF Refusing, Refused

\* A list that is handed to a session is of greetings alone.
LEMMA RefusingBegins ==
    ASSUME log' = <<>>, \A i \in 1 .. Len(todo') : Greets(todo'[i]) /\ todo'[i].act # "log"
    PROVE  Refusing'
  BY DEF Refusing

LEMMA RefusingPops ==
    ASSUME Types, Refusing, PopsTodo, SendsNext \/ LogsNext, 1 \in 1 .. Len(todo)
    PROVE  Refusing'
<1>1. /\ todo' \in Seq(Things) /\ Len(todo) \in Nat \ {0} /\ Len(todo') = Len(todo) - 1
      /\ \A i \in 1 .. Len(todo') : i + 1 \in 1 .. Len(todo) /\ todo'[i] = todo[i + 1]
  BY DEF PopsTodo, Popped
<1>2. \A i \in 1 .. Len(todo') : Greets(todo'[i])
  BY <1>1 DEF Refusing
<1>3. CASE SendsNext
  <2>1. todo[1].act = "send" /\ UNCHANGED <<log, spc>>
    BY <1>3 DEF SendsNext
  <2>2. ASSUME NEW i \in 1 .. Len(todo'), todo'[i].act = "log"
        PROVE  log = <<>> /\ i < Len(todo') /\ \A j \in i + 1 .. Len(todo') : todo'[j].act = "close"
    <3>1. /\ log = <<>> /\ i + 1 < Len(todo)
          /\ \A j \in (i + 1) + 1 .. Len(todo) : todo[j].act = "close"
      BY <1>1, <2>2 DEF Refusing
    <3>2. ASSUME NEW j \in i + 1 .. Len(todo')
          PROVE  todo'[j].act = "close"
      <4>1. j \in 1 .. Len(todo') /\ j + 1 \in (i + 1) + 1 .. Len(todo)
        BY <1>1
      <4> QED
        BY <1>1, <3>1, <4>1
    <3> QED
      BY <1>1, <3>1, <3>2
  <2>3. log = <<>> \/ (Len(log) = 1 /\ log[1] = "DENIED" /\ spc = "ended")
    BY <2>1 DEF Refusing, Refused
  <2> QED
    BY <1>2, <2>1, <2>2, <2>3 DEF Refusing, Refused
<1>4. CASE LogsNext
  <2>1. todo[1].act = "log" /\ Pushed(log, log', todo[1].row) /\ UNCHANGED spc
    BY <1>4 DEF LogsNext
  <2>2. /\ log = <<>> /\ 1 < Len(todo) /\ todo[1].row = "DENIED"
        /\ \A j \in 1 + 1 .. Len(todo) : todo[j].act = "close"
    BY <2>1 DEF Refusing, Greets
  <2>3. Len(log') = 1 /\ log'[1] = "DENIED"
    BY <2>1, <2>2, EmptyIs DEF Pushed
  <2>4. \A i \in 1 .. Len(todo') : todo'[i].act = "close"
    BY <1>1, <2>2
  <2>5. todo' # <<>>
    BY <1>1, <2>2, EmptyIs
  <2>6. Refused'
    BY <2>3, <2>4, <2>5 DEF Refused
  <2> QED
    BY <1>2, <2>4, <2>6 DEF Refusing
<1> QED
  BY <1>3, <1>4

\* A session that has something to handle was not refused.
LEMMA NotRefused ==
    ASSUME Asking, todo = <<>>, spc # "ended"
    PROVE  log = <<>>
  BY DEF Asking, Refusing, Refused

LEMMA AskingReturn ==
    ASSUME Types, Asking, NEW c \in {"none", "failed"}, Return(c)
    PROVE  Asking'
<1>1. /\ pc' = "done" /\ code' = c /\ toClient' = <<>> /\ Shortened(toServer, toServer')
      /\ UNCHANGED <<command, local, data, sent, announced, torn, serverOpen, broken, server>>
  BY Returned
<1>2. \A i \in 1 .. Len(toServer') :
        \/ toServer'[i].op \in {"Hello", "AuthRequest", "SessionStart"}
        \/ i = Len(toServer') /\ pc' \notin Before /\ toServer'[i] = [op |-> command', sha |-> data']
  BY <1>1 DEF Asking, Shortened, Types, Before
<1>3. \A i \in 1 .. Len(toClient') : toClient'[i].op \in Greetings
  BY <1>1, EmptyIs
<1>4. UNCHANGED <<todo, received, effects, log, remote, spc>>
  BY <1>1 DEF server
<1>5. Refusing'
  BY <1>4, RefusingStays DEF Asking
<1> QED
  BY <1>1, <1>2, <1>3, <1>4, <1>5 DEF Asking

LEMMA AskingClient ==
    ASSUME Types, Asking, Client \/ Killed
    PROVE  Asking'
<1> USE DEF server
<1>0. /\ ClientGets => Head(toClient).op \in Greetings
      /\ pc \in Before \cup {"reply", "done"}
      /\ UNCHANGED <<todo, log, spc>> => Refusing'
  <2>1. ASSUME ClientGets PROVE Head(toClient) = toClient[1] /\ 1 \in 1 .. Len(toClient)
    BY <2>1, TailPops DEF ClientGets, Types
  <2>2. UNCHANGED <<todo, log, spc>> => Refusing'
    BY RefusingStays DEF Asking
  <2> QED
    BY <2>1, <2>2 DEF Asking
<1>1. CASE NoLocalFile \/ SendFails \/ CannotCreate \/ Unexpected \/ Killed
  BY <1>1, WhoReturns, AskingReturn
<1>2. CASE Connect
  <2>1. CASE Connecting
    <3>1. /\ pc' = "ServerHello" /\ toServer' = <<[op |-> "Hello"]>>
          /\ UNCHANGED <<command, code, local, data, sent, announced, torn, toClient, broken,
                         todo, received, running, alive, remote, log, effects, meddled>>
      BY <2>1 DEF Connecting
    <3>2. \A i \in 1 .. Len(toServer') : toServer'[i].op = "Hello"
      BY <3>1
    <3>3. Refusing'
      <4>1. spc # "ended" /\ UNCHANGED <<todo, log>>
        BY <2>1 DEF Connecting
      <4> QED
        BY <4>1 DEF Asking, Refusing, Refused
    <3> QED
      BY <3>1, <3>2, <3>3 DEF Asking, Before
  <2> QED
    BY <1>2, <2>1, WhoConnects, AskingReturn
<1>3. CASE Greeted \/ LoggedIn
  <2>1. /\ Popped(toClient, toClient') /\ pc \in Before /\ pc' \in Before
        /\ UNCHANGED <<command, code, local, data, sent, announced, toServer, server>>
    BY <1>3, Took DEF Greeted, LoggedIn, Takes, Before
  <2>2. \A i \in 1 .. Len(toClient') : toClient'[i].op \in Greetings
    BY <2>1 DEF Asking, Popped
  <2> QED
    BY <1>0, <2>1, <2>2 DEF Asking
<1>4. CASE Login \/ Start \/ Request
  <2>1. /\ UNCHANGED <<command, code, local, sent, announced, toClient, server>>
        /\ pc \in Before /\ pc' \in Before \cup {"reply"}
        /\ command # "upload" => data' = data
    BY <1>4 DEF Login, Start, Request, Writes, Before
  <2>2. \A i \in 1 .. Len(toServer) : toServer[i].op \in {"Hello", "AuthRequest", "SessionStart"}
    BY <2>1 DEF Asking
  <2>3. pc = "request" => local \in Data \cup {Absent}
    BY DEF Asking
  <2>4. CASE Login \/ Start
    <3>1. PICK o \in {"AuthRequest", "SessionStart"} : Adds([op |-> o])
      BY <2>3, <2>4, Writing
    <3>2. \A i \in 1 .. Len(toServer') : toServer'[i].op \in {"Hello", "AuthRequest", "SessionStart"}
      BY <2>2, <3>1 DEF Adds, Pushed
    <3> QED
      BY <1>0, <2>1, <3>2, <2>4 DEF Asking
  <2>5. CASE Request
    <3>1. Adds([op |-> command, sha |-> data'])
      BY <2>3, <2>5, Writing
    <3>2. \A i \in 1 .. Len(toServer') :
            \/ toServer'[i].op \in {"Hello", "AuthRequest", "SessionStart"}
            \/ i = Len(toServer') /\ toServer'[i] = [op |-> command, sha |-> data']
      BY <2>2, <3>1 DEF Adds, Pushed
    <3>3. pc' = "reply"
      BY <2>5 DEF Request, Writes
    <3> QED
      BY <1>0, <2>1, <3>2, <3>3 DEF Asking, Before
  <2> QED
    BY <1>4, <2>4, <2>5
<1>5. ~(SendBlock \/ SendComplete \/ ReceiveBlock \/ ReceiveComplete \/ Receipt \/ Leave)
  BY <1>0 DEF Before, SendBlock, SendComplete, ReceiveBlock, ReceiveComplete, Receipt, Leave
<1>6. ~(UploadAccepted \/ DownloadAccepted \/ LastAnswer)
  BY <1>0 DEF Greetings, Before, UploadAccepted, DownloadAccepted, LastAnswer
<1> QED
  BY <1>1, <1>2, <1>3, <1>4, <1>5, <1>6 DEF Client

\* The handlers before the loop.
LEMMA AskingLogin ==
    ASSUME Types, Asking, HandleHello \/ HandleAuthRequest \/ HandleSessionStart
    PROVE  Asking' /\ todo' \in Seq(Things)
<1>1. HandledIt /\ UNCHANGED <<received, remote, log, effects>>
  BY WhoHandles
  DEF Handlers, HandleHello, HandleAuthRequest, HandleSessionStart, Untouched
<1>4. log = <<>>
  BY <1>1, WhoHandles, NotRefused DEF Handlers, HandledIt
<1> DEFINE Plain(x) == Greets(x) /\ x.act # "log"
<1>2. todo' \in Seq(Things) /\ Refusing'
  <2>0. /\ Sends([op |-> "ServerHello"]) \in Things /\ Plain(Sends([op |-> "ServerHello"]))
        /\ Sends([op |-> "Error"]) \in Things /\ Plain(Sends([op |-> "Error"]))
        /\ Closes \in Things /\ Plain(Closes)
        /\ \A s \in Statuses : LET x == Sends([op |-> "AuthResult", status |-> s])
                               IN  x \in Things /\ Plain(x)
    BY AnswersTyped DEF Sends, Closes, Greetings, Greets
  <2>9. (\A i \in 1 .. Len(todo') : Plain(todo'[i])) => Refusing'
    BY <1>1, <1>4, RefusingBegins
  <2> HIDE DEF Plain
  <2>1. CASE HandleHello
    <3>1. todo' = <<Sends([op |-> "ServerHello"])>>
      BY <2>1 DEF HandleHello, Handles
    <3> QED
      BY <2>0, <2>9, <3>1, ShortList
  <2>2. CASE HandleAuthRequest
    <3>1. PICK s \in {"Ok", "BadCredentials"} :
              todo' = <<Sends([op |-> "AuthResult", status |-> s])>> \o (IF s = "Ok" THEN <<>> ELSE <<Closes>>)
      BY <2>2 DEF HandleAuthRequest, Handles
    <3>2. PICK x \in Things : x = Sends([op |-> "AuthResult", status |-> s]) /\ Plain(x)
      BY <2>0 DEF Statuses
    <3>3. CASE s = "Ok"
      <4>1. todo' = <<x>>
        BY <3>1, <3>2, <3>3, ShortList
      <4> QED
        BY <2>9, <3>2, <4>1, ShortList
    <3>4. CASE s # "Ok"
      <4>1. todo' = <<x, Closes>>
        BY <2>0, <3>1, <3>2, <3>4, ShortList
      <4>2. Len(todo') = 2 /\ todo'[1] = x /\ todo'[2] = Closes /\ todo' \in Seq(Things)
        BY <2>0, <3>2, <4>1, ShortList
      <4> QED
        BY <2>0, <2>9, <3>2, <4>2
    <3> QED
      BY <3>3, <3>4
  <2>3. CASE HandleSessionStart
    <3>1. todo' = <<>> \/ todo' = <<Sends([op |-> "Error"]), Logs("DENIED"), Closes>>
      BY <2>3 DEF HandleSessionStart, Handles
    <3>2. CASE todo' = <<>>
      BY <2>9, <3>2, EmptyIs
    <3>3. CASE todo' = <<Sends([op |-> "Error"]), Logs("DENIED"), Closes>>
      <4>1. PICK x \in Things : x = Sends([op |-> "Error"]) /\ Plain(x)
        BY <2>0
      <4>2. PICK y \in Things : y = Logs("DENIED") /\ y.act = "log" /\ y.row = "DENIED"
        BY AnswersTyped DEF Logs, RowNames
      <4>3. todo' = <<x, y, Closes>> /\ Closes \in Things
        BY <2>0, <3>3, <4>1, <4>2
      <4>4. /\ todo' \in Seq(Things) /\ Len(todo') = 3
            /\ todo'[1] = x /\ todo'[2] = y /\ todo'[3] = Closes
        BY <4>3
      <4>5. Greets(x) /\ x.act # "log" /\ Greets(y) /\ Greets(Closes) /\ Closes.act = "close"
        BY <4>1, <4>2 DEF Plain, Greets, Closes
      <4>6. \A i \in 1 .. 3 : Greets(todo'[i]) /\ (todo'[i].act = "log" => i = 2)
        BY <4>4, <4>5 DEF Closes
      <4>7. Refusing'
        BY <1>1, <1>4, <4>4, <4>5, <4>6 DEF Refusing
      <4> QED
        BY <4>4, <4>7
    <3> QED
      BY <3>1, <3>2, <3>3
  <2> QED
    BY <2>1, <2>2, <2>3
<1>3. \A i \in 1 .. Len(toServer') :
        \/ toServer'[i].op \in {"Hello", "AuthRequest", "SessionStart"}
        \/ i = Len(toServer') /\ pc \notin Before /\ toServer'[i] = [op |-> command, sha |-> data]
  BY <1>1 DEF HandledIt, Asking, Popped
<1> QED
  BY <1>1, <1>2, <1>3 DEF Asking, HandledIt, client

\* The rest of the session and of the world, while the request is not handled.
LEMMA AskingElse ==
    ASSUME Types, Asking, Do \/ End \/ Timeout \/ Break \/ Stop \/ Die \/ Meddle
    PROVE  Asking'
<1>1. CASE Do
  <2>1. CASE PopsTodo /\ SendsNext
    <3>1. Greets(todo[1])
      BY <1>1, Did DEF Asking, Refusing
    <3>2. todo[1].msg.op \in Greetings
      BY <2>1, <3>1 DEF SendsNext, Greets
    <3>3. \A i \in 1 .. Len(toClient') : toClient'[i].op \in Greetings
      BY <2>1, <3>2 DEF Asking, SendsNext, Pushed
    <3>4. Refusing'
      BY <1>1, <2>1, Did, RefusingPops DEF Asking
    <3>5. UNCHANGED <<client, toServer, received, remote, effects>>
      BY <2>1 DEF SendsNext
    <3> QED
      BY <3>3, <3>4, <3>5 DEF Asking, client
  <2>2. CASE PopsTodo /\ LogsNext
    <3>1. Refusing'
      BY <1>1, <2>2, Did, RefusingPops DEF Asking
    <3>2. UNCHANGED <<client, toServer, toClient, received, remote, effects>>
      BY <2>2 DEF LogsNext, connection
    <3> QED
      BY <3>1, <3>2 DEF Asking, client
  <2>3. CASE Close /\ UNCHANGED <<log, alive>>
    <3>1. \A i \in 1 .. Len(toClient') : toClient'[i].op \in Greetings
      BY <2>3, Closed DEF Asking, Shortened
    <3>2. Refusing'
      BY <2>3, Closed, RefusingEnds DEF Asking
    <3> QED
      BY <2>3, <3>1, <3>2, Closed, EmptyIs DEF Asking, client
  <2> QED
    BY <1>1, <2>1, <2>2, <2>3, Did
<1>2. CASE End \/ Timeout \/ Die
  <2>1. Close /\ UNCHANGED log
    BY <1>2 DEF End, Timeout, Die
  <2>2. \A i \in 1 .. Len(toClient') : toClient'[i].op \in Greetings
    BY <2>1, Closed DEF Asking, Shortened
  <2>3. Refusing'
    BY <2>1, Closed, RefusingEnds DEF Asking
  <2> QED
    BY <2>1, <2>2, <2>3, Closed, EmptyIs DEF Asking, client
<1>3. CASE Break
  <2>1. /\ Shortened(toServer, toServer') /\ Shortened(toClient, toClient')
        /\ UNCHANGED <<client, server>>
    BY <1>3, Broken
  <2>2. \A i \in 1 .. Len(toClient') : toClient'[i].op \in Greetings
    BY <2>1 DEF Asking, Shortened
  <2>3. \A i \in 1 .. Len(toServer') :
          \/ toServer'[i].op \in {"Hello", "AuthRequest", "SessionStart"}
          \/ i = Len(toServer') /\ pc \notin Before /\ toServer'[i] = [op |-> command, sha |-> data]
    BY <2>1 DEF Asking, Shortened, Types
  <2>4. Refusing'
    BY <2>1, RefusingStays DEF Asking, server
  <2> QED
    BY <2>1, <2>2, <2>3, <2>4 DEF Asking, client, server
<1>4. CASE Stop \/ Meddle
  <2>1. /\ UNCHANGED <<client, connection, spc, todo, received, log, effects>>
        /\ remote' \in Data \cup {Absent}
    BY <1>4, ClientAssumption DEF Stop, Meddle, Asking, Data
  <2>2. Refusing'
    BY <2>1, RefusingStays DEF Asking
  <2> QED
    BY <2>1, <2>2 DEF Asking, client, connection
<1> QED
  BY <1>1, <1>2, <1>3, <1>4

-----------------------------------------------------------------------------
(* The request is handled.                                                 *)

LEMMA AgendaOf ==
    ASSUME NEW r \in RowNames, NEW s \in Statuses, NEW e \in {0, 1}, effects' = e,
           r # "MISMATCH", r = "OK" <=> e = 1, s = "Ok" => e = 1,
           \/ todo' = <<Logs(r), OpResult(s)>>
           \/ todo' = <<Verify(s), Logs(r)>>
           \/ todo' = <<OpResult(s)>> /\ e = 0
    PROVE  Agenda' /\ todo' \in Seq(Things) /\ (LogDue' \/ e = 0)
<1>1. PICK l \in Things : l = Logs(r)
  BY AnswersTyped
<1>2. l.act = "log" /\ l.row = r
  BY <1>1 DEF Logs
<1>3. ASSUME NEW x \in Things, x = OpResult(s) \/ x = Verify(s)
      PROVE  /\ x.act = "send" /\ x.msg.op \in {"FileVerify", "FileOpResult"}
             /\ IsOk(x.msg) => e = 1
  BY <1>3 DEF OpResult, Verify, Sends, IsOk
<1>4. CASE todo' = <<Logs(r), OpResult(s)>>
  <2>1. PICK x \in Things : x = OpResult(s)
    BY AnswersTyped
  <2>2. todo' \in Seq(Things) /\ Len(todo') = 2 /\ todo'[1] = l /\ todo'[2] = x
    BY <1>1, <1>4, <2>1, ShortList
  <2>3. x.act = "send" /\ x.msg.op \in {"FileVerify", "FileOpResult"} /\ (IsOk(x.msg) => e = 1)
    BY <1>3, <2>1
  <2> QED
    BY <1>2, <2>2, <2>3 DEF Agenda, LogDue, IsOk
<1>5. CASE todo' = <<Verify(s), Logs(r)>>
  <2>1. PICK x \in Things : x = Verify(s)
    BY AnswersTyped
  <2>2. todo' \in Seq(Things) /\ Len(todo') = 2 /\ todo'[1] = x /\ todo'[2] = l
    BY <1>1, <1>5, <2>1, ShortList
  <2>3. x.act = "send" /\ x.msg.op \in {"FileVerify", "FileOpResult"} /\ (IsOk(x.msg) => e = 1)
    BY <1>3, <2>1
  <2> QED
    BY <1>2, <2>2, <2>3 DEF Agenda, LogDue, IsOk
<1>6. CASE todo' = <<OpResult(s)>> /\ e = 0
  <2>1. PICK x \in Things : x = OpResult(s)
    BY AnswersTyped
  <2>2. todo' \in Seq(Things) /\ Len(todo') = 1 /\ todo'[1] = x
    BY <1>6, <2>1, ShortList
  <2>3. x.act = "send" /\ x.msg.op \in {"FileVerify", "FileOpResult"} /\ (IsOk(x.msg) => e = 1)
    BY <1>3, <2>1
  <2> QED
    BY <1>6, <2>2, <2>3 DEF Agenda, LogDue, IsOk
<1> QED
  BY <1>4, <1>5, <1>6

\* There is one request, and it is the last message of a client that waits for the
\* answer.
LEMMA AskedOnce ==
    ASSUME Types, Asking, HandledIt, toServer[1].op \in RequestOps
    PROVE  /\ toServer[1].op = command /\ toServer[1].sha = data
           /\ pc \in {"reply", "done"} /\ toServer' = <<>>
<1>1. 1 = Len(toServer) /\ pc \notin Before /\ toServer[1] = [op |-> command, sha |-> data]
  BY DEF HandledIt, Asking, RequestOps
<1>2. toServer' \in Seq(Questions) /\ Len(toServer') = 0
  <2>1. toServer' \in Seq(Questions) /\ Len(toServer') = Len(toServer) - 1
    BY DEF HandledIt, Popped
  <2> QED
    BY <1>1, <2>1
<1>3. toServer' = <<>>
  BY <1>2, EmptySeq
<1> QED
  BY <1>1, <1>3 DEF Asking

LEMMA AskingSettles ==
    ASSUME Types, Asking, HandledIt, toServer[1].op \in RequestOps, spc' = "loop",
           received' = Absent, log = <<>>, UNCHANGED log,
           NEW r \in RowNames, NEW s \in Statuses, NEW e \in {0, 1}, effects' = e,
           command = "download" => e = 0,
           r # "MISMATCH", r = "OK" <=> e = 1, s = "Ok" => e = 1,
           todo' = <<Logs(r), OpResult(s)>> \/ (todo' = <<OpResult(s)>> /\ e = 0)
    PROVE  Settled' /\ todo' \in Seq(Things)
<1>1. Agenda' /\ todo' \in Seq(Things) /\ (LogDue' \/ e = 0)
  BY AgendaOf
<1>2. /\ UNCHANGED <<client, toClient, serverOpen, alive>>
      /\ pc \in {"reply", "done"} /\ toServer' = <<>>
  BY AskedOnce DEF HandledIt
<1>3. log' = <<>> /\ code # "done" /\ announced = Absent
  BY DEF Asking
<1>4. \A i \in 1 .. Len(log') : log'[i] # "MISMATCH"
  BY <1>3, EmptyIs
<1>5. \A i \in 1 .. Len(toClient') : toClient'[i].op \in Greetings
  BY <1>2 DEF Asking
<1>6. \A i \in 1 .. Len(toClient') :
        /\ toClient'[i].op \notin {"FileBlock", "FileComplete"} /\ ~IsOk(toClient'[i])
        /\ toClient'[i].op # "FileAccept"
  BY <1>5 DEF Greetings, IsOk
<1>7. Told' \/ LogDue'
  BY <1>1, <1>3 DEF Told
<1> QED
  BY <1>1, <1>2, <1>3, <1>4, <1>6, <1>7 DEF Settled, client, IsOk

LEMMA AskingRequest ==
    ASSUME Types, Asking, HandleUpload \/ HandleRemoval \/ RemovalRejected \/ HandleDownload
    PROVE  /\ Settled' \/ Uploading' \/ \E c \in Data : Offered(c)'
           /\ todo' \in Seq(Things)
<1>1. /\ HandledIt /\ UNCHANGED log
      /\ HandleUpload => toServer[1].op = "upload"
      /\ HandleRemoval \/ RemovalRejected => toServer[1].op \in {"delete", "move"}
      /\ HandleDownload => toServer[1].op = "download"
  BY WhoHandles DEF Handlers
<1>2. /\ toServer[1].op \in RequestOps /\ toServer[1].op = command /\ toServer[1].sha = data
      /\ pc \in {"reply", "done"} /\ toServer' = <<>>
  <2>1. toServer[1].op \in RequestOps
    BY <1>1 DEF RequestOps
  <2> QED
    BY <1>1, <2>1, AskedOnce
<1>3. spc = "loop" /\ spc' = "loop"
  BY DEF HandleUpload, HandleRemoval, RemovalRejected, HandleDownload, InLoop, Handles
<1>4. received = Absent /\ effects = 0 /\ log = <<>>
  BY <1>1, <1>3, NotRefused DEF Asking, HandledIt
<1>5. ASSUME UNCHANGED <<received, effects>>,
             NEW r \in {"FAIL", "DENIED"}, NEW s \in {"BadPath", "IoError", "NotFound"},
             todo' = <<Logs(r), OpResult(s)>> \/ todo' = <<OpResult(s)>>
      PROVE  Settled' /\ todo' \in Seq(Things)
  <2>1. r \in RowNames /\ s \in Statuses /\ r \notin {"OK", "MISMATCH"} /\ s # "Ok"
    BY DEF RowNames, Statuses
  <2> QED
    BY <1>1, <1>2, <1>3, <1>4, <1>5, <2>1, AskingSettles
<1>6. CASE HandleUpload
  <2>1. \/ todo' = <<Sends([op |-> "FileAccept"])>> /\ UNCHANGED <<remote, log, effects>>
           /\ received' = [blocks |-> <<>>, sha |-> Head(toServer).sha]
        \/ UNCHANGED <<received, effects>> /\ todo' = <<Logs("DENIED"), OpResult("BadPath")>>
        \/ UNCHANGED <<received, effects>> /\ todo' = <<OpResult("IoError")>>
    BY <1>6 DEF HandleUpload, InLoop, Handles, Untouched
  <2>2. CASE /\ todo' = <<Sends([op |-> "FileAccept"])>> /\ UNCHANGED <<remote, log, effects>>
             /\ received' = [blocks |-> <<>>, sha |-> Head(toServer).sha]
    <3>1. received' = [blocks |-> <<>>, sha |-> data] /\ command = "upload"
      BY <1>1, <1>2, <1>6, <2>2 DEF HandledIt
    <3>2. PICK x \in Things : x = Sends([op |-> "FileAccept"])
      BY AnswersTyped
    <3>3. todo' \in Seq(Things) /\ Len(todo') = 1 /\ todo'[1] = x
      BY <2>2, <3>2, ShortList
    <3>4. x.act = "send" /\ x.msg.op = "FileAccept"
      BY <3>2 DEF Sends
    <3>5. UNCHANGED <<client, toClient, serverOpen, alive, broken>> /\ alive
      BY <1>1 DEF HandledIt
    <3>6. received' \in [blocks : Data, sha : Data] /\ received'.sha = data /\ Len(received'.blocks) = 0
      BY <3>1, EmptyIs DEF Types, Data
    <3>7. \A i \in 1 .. Len(toClient') : toClient'[i].op \in Greetings \cup {"FileAccept"}
      BY <3>5 DEF Asking
    <3>8. Len(data) \in Nat /\ sent = 0 /\ announced = Absent /\ code # "done"
      BY DEF Types, Data, Asking
    <3>9. serverOpen
      BY <1>3 DEF Types
    <3> QED
      BY <1>2, <1>3, <1>4, <2>2, <3>1, <3>3, <3>4, <3>5, <3>6, <3>7, <3>8, <3>9, EmptyIs
      DEF Uploading, Arrived, client
  <2> QED
    BY <1>5, <2>1, <2>2
<1>7. CASE RemovalRejected
  <2>1. UNCHANGED <<received, effects>> /\ todo' = <<Logs("DENIED"), OpResult("BadPath")>>
    BY <1>7 DEF RemovalRejected, InLoop, Handles, Untouched
  <2> QED
    BY <1>5, <2>1
<1>8. CASE HandleRemoval
  <2>1. PICK gone \in BOOLEAN :
            /\ todo' = <<Logs(IF gone THEN "OK" ELSE "FAIL"), OpResult(IF gone THEN "Ok" ELSE "NotFound")>>
            /\ effects' = (IF gone THEN effects + 1 ELSE effects) /\ UNCHANGED received
    BY <1>8 DEF HandleRemoval, InLoop, Handles, RowOf
  <2>2. CASE ~gone
    <3>1. UNCHANGED <<received, effects>> /\ todo' = <<Logs("FAIL"), OpResult("NotFound")>>
      BY <2>1, <2>2
    <3> QED
      BY <1>5, <3>1
  <2>3. CASE gone
    <3>1. received' = Absent /\ effects' = 1 /\ todo' = <<Logs("OK"), OpResult("Ok")>>
      BY <1>4, <2>1, <2>3
    <3>2. "OK" \in RowNames /\ "Ok" \in Statuses /\ command # "download"
      BY <1>1, <1>2, <1>8 DEF RowNames, Statuses
    <3> QED
      BY <1>1, <1>2, <1>3, <1>4, <3>1, <3>2, AskingSettles
  <2> QED
    BY <2>2, <2>3
<1>9. CASE HandleDownload
  <2>1. UNCHANGED <<received, remote, effects>>
    BY <1>9 DEF HandleDownload, Untouched
  <2>2. \/ /\ remote # Absent
           /\ todo' = <<Sends([op |-> "FileAccept", sha |-> remote])>> \o Blocks(remote)
                         \o <<Sends([op |-> "FileComplete"]), Logs("OK")>>
        \/ todo' = <<Logs("DENIED"), OpResult("BadPath")>>
        \/ todo' = <<OpResult("NotFound")>>
    BY <1>9 DEF HandleDownload, InLoop, Handles
  <2>3. CASE /\ remote # Absent
             /\ todo' = <<Sends([op |-> "FileAccept", sha |-> remote])>> \o Blocks(remote)
                           \o <<Sends([op |-> "FileComplete"]), Logs("OK")>>
    <3>1. PICK c \in Data : c = remote
      BY <2>3 DEF Asking
    <3>2. /\ todo' \in Seq(Things) /\ Len(todo') = Len(c) + 3 /\ Len(c) \in Nat
          /\ \A k \in 1 .. Len(c) + 3 : todo'[k] = Item(c, k)
      BY <2>3, <3>1, DownloadList DEF Data
    <3>3. UNCHANGED <<client, toClient, alive>> /\ alive
      BY <1>1 DEF HandledIt
    <3>4. /\ command = "download" /\ code # "done" /\ announced = Absent /\ data = <<>>
      BY <1>1, <1>2, <1>9 DEF Asking
    <3>5. todo' # <<>>
      BY <3>2, EmptyIs
    <3>6. \A i \in 1 .. Len(toClient) : toClient[i].op \in Greetings
      BY DEF Asking
    <3>7. toClient # <<>> => toClient[1].op \in Greetings
      BY <3>6, EmptyIs DEF Types
    <3>8. pc' = "done" \/ Stale' \/ InOrder(c)'
      <4>1. CASE toClient = <<>> /\ pc = "reply"
        BY <3>2, <3>3, <4>1, EmptyIs DEF InOrder, Taken, client
      <4>2. CASE toClient # <<>> /\ pc = "reply"
        BY <3>3, <3>7, <4>2 DEF Stale, client
      <4> QED
        BY <1>2, <3>3, <4>1, <4>2 DEF client
    <3>9. /\ Len(todo') <= Len(c) + 3
          /\ \A i \in 1 .. Len(todo') : todo'[i] = Item(c, Len(c) + 3 - Len(todo') + i)
      <4> SUFFICES ASSUME NEW i \in 1 .. Len(todo')
                   PROVE  todo'[i] = Item(c, Len(c) + 3 - Len(todo') + i)
        BY <3>2
      <4>1. i \in 1 .. Len(c) + 3 /\ Len(c) + 3 - Len(todo') + i = i
        BY <3>2
      <4> QED
        BY <3>2, <4>1
    <3>10. \A i \in 1 .. Len(toServer') : toServer'[i] = [op |-> "FileVerify", status |-> "Ok"]
      BY <1>2, EmptyIs
    <3>11. log' = <<>> /\ pc' \in {"reply", "done"} /\ code' # "done" /\ spc' = "loop"
           /\ received' = Absent /\ effects' = 0 /\ command' = "download"
           /\ data' = <<>> /\ announced' = Absent /\ todo' # <<>>
      BY <1>1, <1>2, <1>3, <1>4, <2>1, <3>3, <3>4, <3>5 DEF client
    <3>12. Offered(c)'
      BY <3>8, <3>9, <3>10, <3>11 DEF Offered
    <3> QED
      BY <3>2, <3>12
  <2> QED
    BY <1>5, <2>1, <2>2, <2>3
<1> QED
  BY <1>6, <1>7, <1>8, <1>9

-----------------------------------------------------------------------------
(* While an upload arrives.                                                *)

LEMMA UploadingReturn ==
    ASSUME Types, Uploading, NEW c \in {"none", "failed"}, Return(c)
    PROVE  Uploading'
<1>1. /\ pc' = "done" /\ code' = c /\ toClient' = <<>> /\ Shortened(toServer, toServer')
      /\ UNCHANGED <<command, local, data, sent, announced, torn, serverOpen, broken, server>>
  BY Returned
<1>2. \A i \in 1 .. Len(toServer') :
        Arrived + i <= Len(data) + 1 /\ toServer'[i] = Part(data, Arrived + i)
  BY <1>1 DEF Uploading, Shortened, Types
<1>3. 1 .. Len(toClient') = {}
  BY <1>1, EmptyIs
<1>4. UNCHANGED <<todo, received, effects, log, alive, spc>>
  BY <1>1 DEF server
<1> QED
  BY <1>1, <1>2, <1>3, <1>4 DEF Uploading, Arrived

LEMMA UploadingClient ==
    ASSUME Types, Uploading, Client \/ Killed
    PROVE  Uploading'
<1> USE DEF server
<1>0. ClientGets => Head(toClient).op \in Greetings \cup {"FileAccept"}
  <2>1. ASSUME ClientGets PROVE Head(toClient) = toClient[1] /\ 1 \in 1 .. Len(toClient)
    BY <2>1, TailPops DEF ClientGets, Types
  <2> QED
    BY <2>1 DEF Uploading
<1>1. CASE NoLocalFile \/ SendFails \/ CannotCreate \/ Unexpected \/ Killed
  BY <1>1, WhoReturns, UploadingReturn
<1>2. CASE UploadAccepted
  <2>1. /\ Popped(toClient, toClient') /\ pc = "reply" /\ pc' = "sending"
        /\ UNCHANGED <<command, code, data, sent, announced, toServer, serverOpen, broken, server>>
    BY <1>2, Took DEF UploadAccepted, Takes
  <2>2. \A i \in 1 .. Len(toClient') : toClient'[i].op \in Greetings \cup {"FileAccept"}
    BY <2>1 DEF Uploading, Popped
  <2> QED
    BY <2>1, <2>2 DEF Uploading, Arrived
<1>3. CASE SendBlock \/ SendComplete
  <2>1. /\ pc = "sending" /\ pc' \in {"sending", "FileVerify"} /\ sent' \in 0 .. Len(data)
        /\ pc' = "sending" => sent' = sent + 1
        /\ UNCHANGED <<command, code, data, announced, toClient, serverOpen, broken, server>>
    <3>1. sent \in Nat /\ Len(data) \in Nat
      BY DEF Types, Data
    <3>2. CASE SendBlock
      BY <3>1, <3>2 DEF SendBlock, Writes, ClientSends
    <3>3. CASE SendComplete
      BY <3>1, <3>3 DEF SendComplete, Writes, ClientSends
    <3> QED
      BY <1>3, <3>2, <3>3
  <2>2. Arrived \in Nat /\ Len(data) \in Nat /\ Len(toServer) \in Nat /\ sent \in Nat
    BY DEF Types, Data, Uploading, Arrived
  <2>3. PICK m : m = Part(data, sent + 1)
    OBVIOUS
  <2>4. Adds(m) /\ sent + 1 <= Len(data) + 1
    <3>1. CASE SendBlock
      <4>1. Adds([op |-> "FileBlock", block |-> data[sent + 1]])
        BY <3>1, Writing, <2>1
      <4>2. m = [op |-> "FileBlock", block |-> data[sent + 1]]
        BY <2>2, <2>3, <3>1 DEF SendBlock, Part
      <4> QED
        BY <2>2, <3>1, <4>1, <4>2 DEF Adds, SendBlock
    <3>2. CASE SendComplete
      <4>1. Adds([op |-> "FileComplete"])
        BY <3>2, Writing, <2>1
      <4>2. m = [op |-> "FileComplete"]
        BY <2>2, <2>3, <3>2 DEF SendComplete, Part
      <4> QED
        BY <2>2, <3>2, <4>1, <4>2 DEF Adds, SendComplete
    <3> QED
      BY <1>3, <3>1, <3>2
  <2>5. CASE broken
    <3>1. toServer' = toServer
      BY <2>4, <2>5 DEF Adds
    <3>2. Arrived + Len(toServer) <= sent
      BY <2>1 DEF Uploading
    <3>3. /\ Arrived' = Arrived /\ broken'
          /\ pc' \in {"reply", "sending"} => Arrived + Len(toServer') <= sent'
      BY <2>1, <2>2, <2>5, <3>1, <3>2 DEF Arrived
    <3> QED
      BY <2>1, <3>1, <3>3 DEF Uploading
  <2>6. CASE ~broken
    <3>1. Pushed(toServer, toServer', m) /\ Arrived + Len(toServer) = sent
      BY <2>1, <2>4, <2>6 DEF Adds, Uploading
    <3>2. \A i \in 1 .. Len(toServer') :
              Arrived + i <= Len(data) + 1 /\ toServer'[i] = Part(data, Arrived + i)
      <4> SUFFICES ASSUME NEW i \in 1 .. Len(toServer')
                   PROVE  Arrived + i <= Len(data) + 1 /\ toServer'[i] = Part(data, Arrived + i)
        OBVIOUS
      <4>1. CASE i \in 1 .. Len(toServer)
        BY <3>1, <4>1 DEF Pushed, Uploading
      <4>2. CASE i = Len(toServer')
        <5>1. Arrived + i = sent + 1 /\ toServer'[i] = m
          BY <2>2, <3>1, <4>2 DEF Pushed
        <5> QED
          BY <2>3, <2>4, <5>1
      <4> QED
        BY <2>2, <3>1, <4>1, <4>2 DEF Pushed
    <3>3. Arrived + Len(toServer') = sent + 1
      BY <2>2, <3>1 DEF Pushed
    <3> QED
      BY <2>1, <2>2, <2>6, <3>2, <3>3 DEF Uploading, Arrived
  <2> QED
    BY <2>5, <2>6
<1>4. ~(Connect \/ Greeted \/ Login \/ LoggedIn \/ Start \/ Request)
  BY DEF Uploading, Connect, Greeted, Login, LoggedIn, Start, Request
<1>5. ~(DownloadAccepted \/ ReceiveBlock \/ ReceiveComplete \/ Receipt \/ Leave)
  BY DEF Uploading, DownloadAccepted, ReceiveBlock, ReceiveComplete, Receipt, Leave
<1>6. ~LastAnswer
  BY <1>0 DEF Greetings, LastAnswer
<1> QED
  BY <1>1, <1>2, <1>3, <1>4, <1>5, <1>6 DEF Client

LEMMA UploadingHandlers ==
    ASSUME Types, Uploading, Handlers
    PROVE  (Uploading' \/ Settled') /\ todo' \in Seq(Things)
<1>1. HandledIt /\ UNCHANGED log
  BY WhoHandles
<1>2. /\ Arrived \in Nat /\ Len(data) \in Nat /\ Len(toServer) \in Nat \ {0}
      /\ Arrived + 1 <= Len(data) + 1 /\ toServer[1] = Part(data, Arrived + 1)
      /\ \A i \in 1 .. Len(toServer) : Arrived + i <= Len(data) + 1
  BY <1>1 DEF HandledIt, Popped, Types, Data, Uploading, Arrived
<1>3. toServer[1].op \in {"FileBlock", "FileComplete"}
  BY <1>2 DEF Part
<1>4. HandleBlock \/ HandleComplete
  BY <1>3, WhoHandles DEF Handlers
<1>5. UNCHANGED <<client, toClient, serverOpen, broken, alive>> /\ alive /\ serverOpen
  BY <1>1 DEF HandledIt, Uploading
<1>6. CASE HandleBlock
  <2>1. Arrived + 1 <= Len(data) /\ toServer[1].block = data[Arrived + 1]
    BY <1>2, <1>6, WhoHandles DEF Part, Handlers
  <2>2. /\ spc' = "loop" /\ todo' = <<>> /\ UNCHANGED <<remote, effects>>
        /\ received' = [received EXCEPT !.blocks = Append(@, toServer[1].block)]
    BY <1>1, <1>6 DEF HandleBlock, InLoop, Handles, HandledIt
  <2>3. /\ received = [blocks |-> received.blocks, sha |-> data] /\ received.blocks \in Seq(Bytes)
        /\ data[Arrived + 1] \in Bytes
    BY <1>2, <2>1 DEF Types, Data, Uploading
  <2>4. /\ received' \in [blocks : Data, sha : Data] /\ received'.sha = data
        /\ Len(received'.blocks) = Arrived + 1
        /\ \A i \in 1 .. Arrived : received'.blocks[i] = received.blocks[i]
        /\ received'.blocks[Arrived + 1] = data[Arrived + 1]
    <3>1. received' = [blocks |-> Append(received.blocks, data[Arrived + 1]), sha |-> data]
      <4>1. ASSUME NEW b, NEW x
            PROVE  [[blocks |-> b, sha |-> data] EXCEPT !.blocks = Append(@, x)]
                     = [blocks |-> Append(b, x), sha |-> data]
        OBVIOUS
      <4>2. PICK b, x : b = received.blocks /\ x = toServer[1].block
        OBVIOUS
      <4>3. received = [blocks |-> b, sha |-> data] /\ received' = [received EXCEPT !.blocks = Append(@, x)]
        BY <2>2, <2>3, <4>2
      <4>4. received' = [blocks |-> Append(b, x), sha |-> data]
        BY <4>1, <4>3
      <4> QED
        BY <2>1, <4>2, <4>4
    <3>2. /\ Append(received.blocks, data[Arrived + 1]) \in Seq(Bytes)
          /\ Pushed(received.blocks, Append(received.blocks, data[Arrived + 1]), data[Arrived + 1])
      BY <2>3, AppendPushes
    <3> QED
      BY <1>2, <3>1, <3>2 DEF Types, Data, Arrived, Pushed
  <2>5. Arrived' = Arrived + 1 /\ \A i \in 1 .. Arrived' : received'.blocks[i] = data[i]
    BY <1>2, <2>4 DEF Arrived, Uploading
  <2>6. \A i \in 1 .. Len(toServer') :
            Arrived' + i <= Len(data) + 1 /\ toServer'[i] = Part(data, Arrived' + i)
    <3> SUFFICES ASSUME NEW i \in 1 .. Len(toServer')
                 PROVE  Arrived' + i <= Len(data) + 1 /\ toServer'[i] = Part(data, Arrived' + i)
      OBVIOUS
    <3>1. i + 1 \in 1 .. Len(toServer) /\ toServer'[i] = toServer[i + 1]
      BY <1>1 DEF HandledIt, Popped
    <3>2. Arrived + (i + 1) = Arrived' + i
      BY <1>2, <2>5
    <3>3. Arrived + (i + 1) <= Len(data) + 1 /\ toServer[i + 1] = Part(data, Arrived + (i + 1))
      BY <3>1 DEF Uploading
    <3> QED
      BY <3>1, <3>2, <3>3
  <2>7. Arrived' + Len(toServer') = Arrived + Len(toServer)
    BY <1>1, <1>2, <2>5 DEF HandledIt, Popped
  <2>8. todo' \in Seq(Things) /\ 1 .. Len(todo') = {}
    BY <2>2, EmptyIs
  <2> QED
    BY <1>1, <1>5, <2>1, <2>2, <2>4, <2>5, <2>6, <2>7, <2>8 DEF Uploading, client
<1>7. CASE HandleComplete
  <2>1. Arrived = Len(data)
    BY <1>2, <1>7, WhoHandles DEF Part, Handlers
  <2>2. toServer' = <<>> /\ Len(toServer) = 1
    <3>1. Len(toServer) = 1
      <4>1. Len(toServer) \in 1 .. Len(toServer)
        BY <1>2
      <4>2. Arrived + Len(toServer) <= Len(data) + 1
        BY <1>2, <4>1
      <4>3. Len(data) \in Nat /\ Len(toServer) \in Nat \ {0}
        BY <1>2
      <4> QED
        BY <2>1, <4>2, <4>3
    <3>2. toServer' \in Seq(Questions) /\ Len(toServer') = 0
      BY <1>1, <3>1 DEF HandledIt, Popped
    <3> QED
      BY <3>1, <3>2, EmptySeq
  <2>3. pc \in {"FileVerify", "done"}
    BY <1>2, <2>1, <2>2 DEF Uploading
  <2>4. received.blocks = data
    <3>1. received.blocks \in Seq(Bytes) /\ data \in Seq(Bytes)
      BY DEF Uploading, Types, Data
    <3>2. Len(received.blocks) = Len(data) /\ \A i \in 1 .. Len(data) : received.blocks[i] = data[i]
      BY <2>1 DEF Uploading, Arrived
    <3> QED
      BY <3>1, <3>2, SeqEqual
  <2>5. \/ effects' = 1 /\ todo' = <<Verify("Ok"), Logs("OK")>>
        \/ effects' = 0 /\ todo' = <<Verify("IoError"), Logs("IO_ERROR")>>
    <3>1. received.sha = data /\ effects = 0
      BY DEF Uploading
    <3> QED
      BY <1>7, <2>4, <3>1 DEF HandleComplete, InLoop, Handles
  <2>6. spc' = "loop" /\ received' = Absent
    BY <1>7 DEF HandleComplete, InLoop, Handles
  <2>7. /\ Agenda' /\ todo' \in Seq(Things) /\ (LogDue' \/ effects' = 0) /\ effects' \in {0, 1}
    <3>1. /\ "OK" \in RowNames /\ "IO_ERROR" \in RowNames /\ "Ok" \in Statuses /\ "IoError" \in Statuses
      BY DEF RowNames, Statuses
    <3> QED
      BY <2>5, <3>1, AgendaOf
  <2>8. /\ log' = <<>> /\ code # "done" /\ announced = Absent /\ command = "upload"
        /\ \A i \in 1 .. Len(toClient) : toClient[i].op \in Greetings \cup {"FileAccept"}
    BY <1>1 DEF Uploading
  <2>9. \A i \in 1 .. Len(toClient) :
          toClient[i].op \notin {"FileBlock", "FileComplete"} /\ ~IsOk(toClient[i])
    BY <2>8 DEF Greetings, IsOk
  <2>10. \A i \in 1 .. Len(log') : log'[i] # "MISMATCH"
    BY <2>8, EmptyIs
  <2>11. Told' \/ LogDue'
    BY <2>7, <2>8 DEF Told
  <2> QED
    BY <1>5, <2>2, <2>3, <2>6, <2>7, <2>8, <2>9, <2>10, <2>11 DEF Settled, client, IsOk
<1> QED
  BY <1>4, <1>6, <1>7

\* A session that ends leaves nothing of an upload that was not complete.
LEMMA UploadingElse ==
    ASSUME Types, Uploading, Do \/ End \/ Timeout \/ Break \/ Stop \/ Die \/ Meddle
    PROVE  Uploading' \/ Settled'
<1>0. /\ \A i \in 1 .. Len(toClient) : toClient[i].op \in Greetings \cup {"FileAccept"}
      /\ \A i \in 1 .. Len(todo) : todo[i].act = "send" /\ todo[i].msg.op = "FileAccept"
  BY DEF Uploading
<1>1. CASE Close /\ UNCHANGED log
  <2>1. /\ Shortened(toClient, toClient') /\ toServer' = <<>> /\ todo' = <<>> /\ received' = Absent
        /\ serverOpen' = FALSE /\ spc' = "ended" /\ log' = <<>>
        /\ UNCHANGED <<command, pc, code, announced, effects>>
    BY <1>1, Closed DEF Uploading, client
  <2>2. \A i \in 1 .. Len(toClient') : toClient'[i].op \in Greetings \cup {"FileAccept"}
    BY <1>0, <2>1 DEF Shortened
  <2>3. \A i \in 1 .. Len(toClient') :
          toClient'[i].op \notin {"FileBlock", "FileComplete"} /\ ~IsOk(toClient'[i])
    BY <2>2 DEF Greetings, IsOk
  <2>4. 1 .. Len(todo') = {} /\ 1 .. Len(log') = {}
    BY <2>1, EmptyIs
  <2>5. Agenda' /\ Told' /\ ~LogDue'
    BY <2>1, <2>4 DEF Agenda, Told, LogDue, Uploading
  <2> QED
    BY <2>1, <2>3, <2>4, <2>5 DEF Settled, Uploading, IsOk
<1>2. CASE Do
  <2>1. todo[1].act = "send" /\ todo[1].msg.op = "FileAccept" /\ 1 \in 1 .. Len(todo)
    BY <1>0, <1>2, Did
  <2>2. PopsTodo /\ SendsNext
    BY <1>2, <2>1, Did DEF LogsNext
  <2>3. \A i \in 1 .. Len(toClient') : toClient'[i].op \in Greetings \cup {"FileAccept"}
    BY <1>0, <2>1, <2>2 DEF SendsNext, Pushed
  <2>4. \A i \in 1 .. Len(todo') : todo'[i].act = "send" /\ todo'[i].msg.op = "FileAccept"
    BY <1>0, <2>2 DEF PopsTodo, Popped
  <2>5. UNCHANGED <<client, toServer, serverOpen, broken, spc, received, alive, log, effects>>
    BY <2>2 DEF SendsNext
  <2> QED
    BY <2>3, <2>4, <2>5 DEF Uploading, Arrived, client
<1>3. CASE End \/ Timeout \/ Die
  BY <1>1, <1>3 DEF End, Timeout, Die
<1>4. CASE Break
  <2>1. /\ Shortened(toServer, toServer') /\ Shortened(toClient, toClient') /\ broken' = TRUE
        /\ UNCHANGED <<serverOpen, client, server>>
    BY <1>4, Broken
  <2>2. \A i \in 1 .. Len(toClient') : toClient'[i].op \in Greetings \cup {"FileAccept"}
    BY <1>0, <2>1 DEF Shortened
  <2>3. /\ Len(toServer') <= Len(toServer) /\ Len(toServer') \in Nat /\ Len(toServer) \in Nat
        /\ \A i \in 1 .. Len(toServer') :
              Arrived + i <= Len(data) + 1 /\ toServer'[i] = Part(data, Arrived + i)
    BY <2>1 DEF Uploading, Shortened, Types
  <2>4. Arrived \in Nat /\ sent \in Nat
    BY DEF Uploading, Types, Arrived, Data
  <2>5. pc \in {"reply", "sending"} => Arrived + Len(toServer') <= sent
    BY <2>3, <2>4 DEF Uploading
  <2> QED
    BY <2>1, <2>2, <2>3, <2>5 DEF Uploading, Arrived, client, server
<1>5. CASE Stop \/ Meddle
  <2>1. UNCHANGED <<client, connection, spc, todo, received, alive, log, effects>>
    BY <1>5 DEF Stop, Meddle
  <2> QED
    BY <2>1 DEF Uploading, Arrived, client, connection
<1> QED
  BY <1>2, <1>3, <1>4, <1>5

-----------------------------------------------------------------------------
(* After the session is done with a request that was not a download.       *)

LEMMA NothingLeft ==
    ASSUME NEW S, NEW r \in Seq(S), Shortened(<<>>, r)
    PROVE  r = <<>>
<1>1. Len(r) = 0
  BY EmptyIs DEF Shortened
<1> QED
  BY <1>1, EmptySeq

\* What the client may find.
Tellable(msg) ==
    /\ msg.op \notin {"FileBlock", "FileComplete"} /\ (IsOk(msg) => effects = 1)
    /\ msg.op = "FileAccept" => command = "upload" /\ (pc = "reply" => ~serverOpen)

LEMMA SettledReturn ==
    ASSUME Types, Settled, NEW c \in {"none", "failed", "done"}, Return(c), c = "done" => effects = 1
    PROVE  Settled'
<1>1. /\ pc' = "done" /\ code' = c /\ toClient' = <<>> /\ Shortened(toServer, toServer')
      /\ toServer' \in Seq(Questions)
      /\ UNCHANGED <<command, local, data, sent, announced, torn, serverOpen, broken, server>>
  BY Returned
<1>2. toServer' = <<>>
  BY <1>1, NothingLeft DEF Settled
<1>3. 1 .. Len(toClient') = {}
  BY <1>1, EmptyIs
<1>4. UNCHANGED <<todo, received, effects, log, alive, spc>>
  BY <1>1 DEF server
<1> QED
  BY <1>1, <1>2, <1>3, <1>4 DEF Settled, Agenda, LogDue, Told

LEMMA SettledClient ==
    ASSUME Types, Settled, Client \/ Killed
    PROVE  Settled'
<1> USE DEF server
<1>0. ClientGets => Head(toClient) = toClient[1] /\ 1 \in 1 .. Len(toClient) /\ Tellable(Head(toClient))
  <2>1. ASSUME ClientGets PROVE Head(toClient) = toClient[1] /\ 1 \in 1 .. Len(toClient)
    BY <2>1, TailPops DEF ClientGets, Types
  <2> QED
    BY <2>1 DEF Settled, Tellable
<1>1. CASE NoLocalFile \/ SendFails \/ CannotCreate \/ Unexpected \/ Killed
  BY <1>1, WhoReturns, SettledReturn
<1>2. CASE LastAnswer
  <2>1. /\ ClientGets /\ Return(Answered(Head(toClient)))
        /\ Head(toClient).op \in {"FileVerify", "FileOpResult"}
    BY <1>2 DEF LastAnswer
  <2>2. CASE Head(toClient).status = "Ok"
    <3>1. effects = 1
      BY <1>0, <2>1, <2>2 DEF Tellable, IsOk
    <3>2. Return("done")
      BY <2>1, <2>2 DEF Answered
    <3> QED
      BY <3>1, <3>2, SettledReturn
  <2>3. CASE Head(toClient).status # "Ok"
    <3>1. Return("failed")
      BY <2>1, <2>3 DEF Answered
    <3> QED
      BY <3>1, SettledReturn
  <2> QED
    BY <2>2, <2>3
<1>3. CASE UploadAccepted
  <2>1. /\ Popped(toClient, toClient') /\ pc = "reply" /\ pc' = "sending" /\ command = "upload"
        /\ UNCHANGED <<command, code, announced, toServer, serverOpen, server>>
    BY <1>3, Took DEF UploadAccepted, Takes
  <2>2. ~serverOpen
    BY <1>0, <1>3, <2>1 DEF UploadAccepted, Tellable
  <2>3. \A i \in 1 .. Len(toClient') : Tellable(toClient'[i])
    BY <2>1 DEF Settled, Popped, Tellable
  <2> QED
    BY <2>1, <2>2, <2>3 DEF Settled, Agenda, LogDue, Told, Tellable
<1>4. CASE SendBlock \/ SendComplete
  <2>1. /\ pc = "sending" /\ pc' \in {"sending", "FileVerify"} /\ command = "upload" /\ ~serverOpen
        /\ UNCHANGED <<command, code, announced, toClient, serverOpen, server>>
    BY <1>4 DEF SendBlock, SendComplete, Writes, ClientSends, Settled
  <2>2. toServer' = toServer
    BY <1>4, <2>1 DEF SendBlock, SendComplete, Writes, ClientSends, Through
  <2> QED
    BY <2>1, <2>2 DEF Settled, Agenda, LogDue, Told
<1>5. ~(Connect \/ Greeted \/ Login \/ LoggedIn \/ Start \/ Request)
  BY DEF Settled, Connect, Greeted, Login, LoggedIn, Start, Request
<1>6. ~(ReceiveBlock \/ ReceiveComplete \/ Receipt \/ Leave)
  BY DEF Settled, ReceiveBlock, ReceiveComplete, Receipt, Leave
<1>7. ~DownloadAccepted
  BY <1>0 DEF Tellable, DownloadAccepted
<1> QED
  BY <1>1, <1>2, <1>3, <1>4, <1>5, <1>6, <1>7 DEF Client

LEMMA SettledSession ==
    ASSUME Types, Settled, Do
    PROVE  Settled'
<1>1. /\ todo[1].act = "send" /\ todo[1].msg.op \in {"FileVerify", "FileOpResult"}
           /\ (IsOk(todo[1].msg) => effects = 1)
      \/ /\ todo[1].act = "log" /\ todo[1].row # "MISMATCH" /\ (todo[1].row = "OK" <=> effects = 1)
         /\ \A j \in 1 .. Len(todo) : todo[j].act = "log" => 1 = j
  BY Did DEF Settled, Agenda
<1>2. 1 \in 1 .. Len(todo) /\ PopsTodo /\ (SendsNext \/ LogsNext)
  BY <1>1, Did
<1>3. effects' = effects
  BY <1>2 DEF SendsNext, LogsNext
<1>4. Agenda' /\ (LogDue' => LogDue)
  <2>1. \A i \in 1 .. Len(todo') : i + 1 \in 1 .. Len(todo) /\ todo'[i] = todo[i + 1] /\ i \in Int
    BY <1>2 DEF PopsTodo, Popped
  <2>2. LogDue' => LogDue
    BY <2>1 DEF LogDue
  <2>3. ASSUME NEW i \in 1 .. Len(todo'), NEW j \in 1 .. Len(todo'), i + 1 = j + 1
        PROVE  i = j
    BY <2>1, <2>3
  <2>4. ASSUME NEW i \in 1 .. Len(todo')
        PROVE  \/ /\ todo'[i].act = "send" /\ todo'[i].msg.op \in {"FileVerify", "FileOpResult"}
                  /\ IsOk(todo'[i].msg) => effects = 1
               \/ /\ todo'[i].act = "log" /\ todo'[i].row # "MISMATCH"
                  /\ todo'[i].row = "OK" <=> effects = 1
                  /\ \A j \in 1 .. Len(todo') : todo'[j].act = "log" => i = j
    <3>1. /\ i + 1 \in 1 .. Len(todo) /\ todo'[i] = todo[i + 1]
          /\ \A j \in 1 .. Len(todo') : j + 1 \in 1 .. Len(todo) /\ todo'[j] = todo[j + 1]
      BY <2>1
    <3>2. CASE /\ todo[i + 1].act = "send" /\ todo[i + 1].msg.op \in {"FileVerify", "FileOpResult"}
               /\ IsOk(todo[i + 1].msg) => effects = 1
      BY <3>1, <3>2
    <3>3. CASE /\ todo[i + 1].act = "log" /\ todo[i + 1].row # "MISMATCH"
               /\ todo[i + 1].row = "OK" <=> effects = 1
               /\ \A j \in 1 .. Len(todo) : todo[j].act = "log" => i + 1 = j
      <4>1. ASSUME NEW j \in 1 .. Len(todo'), todo'[j].act = "log"
            PROVE  i = j
        <5>1. i + 1 = j + 1
          BY <3>1, <3>3, <4>1
        <5> QED
          BY <2>3, <5>1
      <4> QED
        BY <3>1, <3>3, <4>1
    <3> QED
      BY <3>1, <3>2, <3>3 DEF Settled, Agenda
  <2> QED
    BY <1>3, <2>2, <2>4 DEF Agenda, IsOk
<1>5. CASE SendsNext
  <2>1. todo[1].msg.op \in {"FileVerify", "FileOpResult"} /\ (IsOk(todo[1].msg) => effects = 1)
    BY <1>1, <1>5 DEF SendsNext
  <2>2. /\ toClient' = toClient \/ Pushed(toClient, toClient', todo[1].msg)
        /\ UNCHANGED <<client, toServer, serverOpen, spc, received, alive, log, effects>>
    BY <1>5 DEF SendsNext
  <2>3. \A i \in 1 .. Len(toClient') : Tellable(toClient'[i])
    <3>1. Tellable(todo[1].msg) /\ \A i \in 1 .. Len(toClient) : Tellable(toClient[i])
      BY <2>1 DEF Settled, Tellable
    <3> HIDE DEF Tellable
    <3> QED
      BY <2>2, <3>1 DEF Pushed
  <2>4. LogDue' <=> LogDue
    <3>1. ASSUME NEW i \in 1 .. Len(todo), todo[i].act = "log"
          PROVE  LogDue'
      <4>1. i # 1 /\ i \in Int
        BY <1>5, <3>1 DEF SendsNext
      <4>2. i - 1 \in 1 .. Len(todo') /\ (i - 1) + 1 = i
        BY <1>2, <4>1 DEF PopsTodo, Popped
      <4>3. todo'[i - 1] = todo[i]
        BY <1>2, <4>2 DEF PopsTodo, Popped
      <4> QED
        BY <3>1, <4>2, <4>3 DEF LogDue
    <3> QED
      BY <1>4, <3>1 DEF LogDue
  <2> QED
    BY <1>4, <2>2, <2>3, <2>4 DEF Settled, Tellable, Told, client
<1>6. CASE LogsNext
  <2>1. /\ todo[1].act = "log" /\ todo[1].row # "MISMATCH" /\ (todo[1].row = "OK" <=> effects = 1)
        /\ \A j \in 1 .. Len(todo) : todo[j].act = "log" => 1 = j
    BY <1>1, <1>6 DEF LogsNext
  <2>2. log = <<>>
    BY <1>2, <2>1 DEF Settled, LogDue
  <2>3. Len(log') = 1 /\ log'[1] = todo[1].row
    <3>1. Pushed(log, log', todo[1].row) /\ Len(log) = 0
      BY <1>6, <2>2, EmptyIs DEF LogsNext
    <3>2. Len(log') = 1
      BY <3>1 DEF Pushed
    <3> QED
      BY <3>1, <3>2 DEF Pushed
  <2>4. ~LogDue'
    <3> SUFFICES ASSUME NEW i \in 1 .. Len(todo'), todo'[i].act = "log"
                 PROVE  FALSE
      BY DEF LogDue
    <3>1. i \in Int /\ i > 0 /\ i + 1 \in 1 .. Len(todo) /\ todo'[i] = todo[i + 1]
      BY <1>2 DEF PopsTodo, Popped
    <3>2. 1 = i + 1
      BY <2>1, <3>1
    <3> QED
      BY <3>1, <3>2
  <2>5. Told' /\ \A i \in 1 .. Len(log') : log'[i] # "MISMATCH"
    BY <1>3, <2>1, <2>3 DEF Told
  <2>6. UNCHANGED <<client, connection, spc, received, alive, effects>>
    BY <1>6 DEF LogsNext
  <2> QED
    BY <1>4, <2>4, <2>5, <2>6 DEF Settled, client, connection
<1> QED
  BY <1>2, <1>5, <1>6

LEMMA SettledElse ==
    ASSUME Types, Settled, End \/ Timeout \/ Break \/ Stop \/ Die \/ Meddle
    PROVE  Settled'
<1>1. CASE End \/ Timeout \/ Die
  <2>1. Close /\ UNCHANGED log /\ (alive' => alive /\ todo = <<>>)
    BY <1>1 DEF End, Timeout, Die
  <2>2. /\ Shortened(toClient, toClient') /\ toServer' = <<>> /\ todo' = <<>> /\ received' = Absent
        /\ serverOpen' = FALSE /\ spc' = "ended"
        /\ UNCHANGED <<command, pc, code, announced, effects, log>>
    BY <2>1, Closed DEF client
  <2>3. \A i \in 1 .. Len(toClient') :
          /\ toClient'[i].op \notin {"FileBlock", "FileComplete"} /\ (IsOk(toClient'[i]) => effects = 1)
          /\ toClient'[i].op = "FileAccept" => command = "upload"
    BY <2>2 DEF Settled, Shortened
  <2>4. 1 .. Len(todo') = {}
    BY <2>2, EmptyIs
  <2>5. Agenda' /\ ~LogDue' /\ (alive' => Told')
    <3>1. todo = <<>> => ~LogDue
      BY EmptyIs DEF LogDue
    <3> QED
      BY <2>1, <2>2, <2>4, <3>1 DEF Agenda, LogDue, Told, Settled
  <2> QED
    BY <2>2, <2>3, <2>5 DEF Settled, IsOk
<1>2. CASE Break
  <2>1. /\ Shortened(toServer, toServer') /\ Shortened(toClient, toClient')
        /\ toServer' \in Seq(Questions) /\ UNCHANGED <<serverOpen, client, server>>
    BY <1>2, Broken
  <2>2. toServer' = <<>>
    BY <2>1, NothingLeft DEF Settled
  <2>3. \A i \in 1 .. Len(toClient') : Tellable(toClient'[i])
    BY <2>1 DEF Settled, Shortened, Tellable
  <2> QED
    BY <2>1, <2>2, <2>3 DEF Settled, Tellable, Agenda, LogDue, Told, client, server
<1>3. CASE Stop \/ Meddle
  <2>1. UNCHANGED <<client, connection, spc, todo, received, alive, log, effects>>
    BY <1>3 DEF Stop, Meddle
  <2> QED
    BY <2>1 DEF Settled, Agenda, LogDue, Told, client, connection
<1> QED
  BY <1>1, <1>2, <1>3

-----------------------------------------------------------------------------
(* While a download is sent.                                               *)

\* What each thing to do about a download is.
LEMMA ItemIs ==
    ASSUME NEW c \in Data, NEW k \in 1 .. Len(c) + 3
    PROVE  /\ Len(c) \in Nat
           /\ k <= Len(c) + 2 => Item(c, k).act = "send" /\ Sends(Item(c, k).msg) = Item(c, k)
           /\ k = 1 => Item(c, k).msg.op = "FileAccept" /\ Item(c, k).msg.sha = c
           /\ 1 < k /\ k <= Len(c) + 1 =>
                Item(c, k).msg.op = "FileBlock" /\ Item(c, k).msg.block = c[k - 1]
           /\ k = Len(c) + 2 => Item(c, k).msg.op = "FileComplete"
           /\ k = Len(c) + 3 => Item(c, k).act = "log" /\ Item(c, k).row = "OK"
<1>1. Len(c) \in Nat /\ k \in Int /\ k >= 1 /\ k <= Len(c) + 3
  BY DEF Data
<1>2. CASE k = 1
  BY <1>1, <1>2 DEF Item, Sends
<1>3. CASE 1 < k /\ k <= Len(c) + 1
  BY <1>1, <1>3 DEF Item, Sends
<1>4. CASE k = Len(c) + 2
  BY <1>1, <1>4 DEF Item, Sends
<1>5. CASE k = Len(c) + 3
  BY <1>1, <1>5 DEF Item, Logs
<1> QED
  BY <1>1, <1>2, <1>3, <1>4, <1>5

\* The next message for a client that is in order.
LEMMA NextItem ==
    ASSUME Types, NEW c \in Data, Offered(c), InOrder(c), pc \in {"reply", "receiving"}, ClientGets
    PROVE  /\ Taken(c) \in Nat /\ Taken(c) + 1 \in 1 .. Len(c) + 2
           /\ Head(toClient) = Item(c, Taken(c) + 1).msg
<1>1. Len(c) \in Nat /\ Len(data) \in Nat
  BY DEF Types, Data
<1>2. Taken(c) \in Nat
  BY <1>1 DEF Taken
<1>3. Head(toClient) = toClient[1] /\ 1 \in 1 .. Len(toClient)
  BY TailPops DEF ClientGets, Types
<1>4. Taken(c) + 1 <= Len(c) + 2 /\ Sends(toClient[1]) = Item(c, Taken(c) + 1)
  BY <1>3 DEF InOrder
<1> QED
  BY <1>1, <1>2, <1>3, <1>4 DEF Sends

LEMMA OneTaken ==
    ASSUME NEW c \in Data, InOrder(c), Popped(toClient, toClient'), Taken(c) \in Nat,
           Taken(c)' = Taken(c) + 1, UNCHANGED <<todo, broken>>, Len(todo) \in Nat
    PROVE  InOrder(c)'
<1>1. Taken(c)' + Len(toClient') = Taken(c) + Len(toClient)
  BY DEF Popped
<1>2. ASSUME NEW i \in 1 .. Len(toClient')
      PROVE  Taken(c)' + i <= Len(c) + 2 /\ Sends(toClient'[i]) = Item(c, Taken(c)' + i)
  <2>1. i + 1 \in 1 .. Len(toClient) /\ toClient'[i] = toClient[i + 1] /\ i \in Int
    BY DEF Popped
  <2>2. Taken(c) + (i + 1) <= Len(c) + 2 /\ Sends(toClient[i + 1]) = Item(c, Taken(c) + (i + 1))
    BY <2>1 DEF InOrder
  <2>3. Taken(c) + (i + 1) = Taken(c)' + i
    BY <2>1
  <2> QED
    BY <2>1, <2>2, <2>3
<1>3. todo # <<>> /\ ~broken => Taken(c)' + Len(toClient') + Len(todo) = Len(c) + 3
  BY <1>1 DEF InOrder
<1> QED
  BY <1>2, <1>3 DEF InOrder

\* The part of Offered that the client's steps change.
Fetching(c) ==
    /\ pc \in {"reply", "receiving", "receipt", "leave", "done"}
    /\ pc = "reply" => data = <<>> /\ announced = Absent
    /\ pc \in {"receiving", "receipt", "leave"} =>
          /\ announced = c /\ Len(data) <= Len(c) /\ \A i \in 1 .. Len(data) : data[i] = c[i]
          /\ torn \/ local = data
    /\ pc \in {"receipt", "leave"} => data = c
    /\ code = "done" => Downloaded
    /\ \A i \in 1 .. Len(toServer) : toServer[i] = [op |-> "FileVerify", status |-> "Ok"]
    /\ pc = "done" \/ Stale \/ InOrder(c)

LEMMA OfferedFetching ==
    ASSUME NEW c \in Data, Offered(c)
    PROVE  /\ Fetching(c)
           /\ Fetching(c)' /\ UNCHANGED <<command, server>> => Offered(c)'
<1>1. Fetching(c)
  BY DEF Offered, Fetching
<1>2. ASSUME Fetching(c)', UNCHANGED <<command, server>>
      PROVE  Offered(c)'
  <2>1. UNCHANGED <<spc, received, effects, todo, log, alive>>
    BY <1>2 DEF server
  <2> QED
    BY <1>2, <2>1 DEF Offered, Fetching
<1> QED
  BY <1>1, <1>2

LEMMA OfferedReturn ==
    ASSUME Types, NEW c \in Data, Offered(c), NEW a \in {"none", "failed", "done"}, Return(a),
           a = "done" => Downloaded
    PROVE  Offered(c)'
<1>1. /\ pc' = "done" /\ code' = a /\ Shortened(toServer, toServer')
      /\ UNCHANGED <<command, local, data, announced, torn, server>>
  BY Returned
<1>2. Downloaded' <=> Downloaded
  BY <1>1 DEF Downloaded
<1>3. \A i \in 1 .. Len(toServer') : toServer'[i] = [op |-> "FileVerify", status |-> "Ok"]
  BY <1>1 DEF Offered, Shortened, Types
<1>4. Fetching(c)'
  BY <1>1, <1>2, <1>3 DEF Fetching
<1> QED
  BY <1>1, <1>4, OfferedFetching

LEMMA OfferedClient ==
    ASSUME Types, NEW c \in Data, Offered(c), Client \/ Killed
    PROVE  Offered(c)'
<1>0. /\ Len(c) \in Nat /\ Len(data) \in Nat /\ Len(todo) \in Nat /\ c # Absent
      /\ Fetching(c) /\ command = "download" /\ (pc # "done" => code # "done")
  BY ClientAssumption, OfferedFetching DEF Types, Data, Offered
<1>1. CASE NoLocalFile \/ SendFails \/ CannotCreate \/ Unexpected \/ Killed
  BY <1>1, WhoReturns, OfferedReturn
<1>2. CASE Leave
  <2>1. Downloaded
    BY <1>0, <1>2 DEF Leave, Fetching, Downloaded
  <2>2. Return("done")
    BY <1>2, <2>1 DEF Leave, Downloaded
  <2> QED
    BY <2>1, <2>2, OfferedReturn
<1>3. CASE DownloadAccepted
  <2>1. /\ Popped(toClient, toClient') /\ Head(toClient) = toClient[1]
        /\ pc = "reply" /\ Head(toClient).op = "FileAccept" /\ ClientGets
        /\ pc' = "receiving" /\ announced' = Head(toClient).sha /\ local' = <<>>
        /\ UNCHANGED <<command, code, data, toServer, broken, server>>
    BY <1>3, Took DEF DownloadAccepted, Truncated
  <2>2. InOrder(c)
    BY <1>0, <2>1 DEF Fetching, Stale, Greetings
  <2>3. Taken(c) = 0 /\ data = <<>> /\ Len(data) = 0
    BY <1>0, <2>1, EmptyIs DEF Fetching, Taken
  <2>4. announced' = c
    BY <1>0, <2>1, <2>2, <2>3, NextItem, ItemIs
  <2>5. InOrder(c)'
    <3>1. Taken(c)' = Taken(c) + 1
      BY <2>1, <2>3 DEF Taken
    <3> QED
      BY <1>0, <2>1, <2>2, <2>3, <3>1, OneTaken DEF server
  <2>6. Fetching(c)'
    BY <1>0, <2>1, <2>3, <2>4, <2>5 DEF Fetching
  <2> QED
    BY <2>1, <2>6, OfferedFetching
<1>4. CASE ReceiveBlock
  <2>1. /\ Popped(toClient, toClient') /\ ClientGets
        /\ pc = "receiving" /\ Head(toClient).op = "FileBlock" /\ pc' = "receiving"
        /\ data' = Append(data, Head(toClient).block)
        /\ \/ local' = Append(local, Head(toClient).block) /\ torn' = torn /\ ~torn
           \/ torn' = TRUE
        /\ UNCHANGED <<command, code, announced, toServer, broken, server>>
    BY <1>4, Took DEF ReceiveBlock
  <2>2. InOrder(c) /\ Taken(c) = 1 + Len(data) /\ announced = c /\ (torn \/ local = data)
    BY <1>0, <2>1 DEF Fetching, Stale, Taken
  <2>3. Len(data) + 2 <= Len(c) + 1 /\ Head(toClient).block = c[Len(data) + 1]
    <3>1. PICK k : k = Taken(c) + 1
      OBVIOUS
    <3>2. k = Len(data) + 2 /\ k \in 1 .. Len(c) + 2 /\ Head(toClient) = Item(c, k).msg
      BY <1>0, <2>1, <2>2, <3>1, NextItem
    <3>3. k \in 1 .. Len(c) + 3 /\ 1 < k /\ k # Len(c) + 2
      BY <1>0, <2>1, <3>2, ItemIs
    <3>4. k <= Len(c) + 1 /\ Item(c, k).msg.block = c[k - 1]
      BY <1>0, <3>2, <3>3, ItemIs
    <3> QED
      BY <1>0, <3>2, <3>4
  <2>4. PICK b \in Bytes : b = c[Len(data) + 1] /\ data' = Append(data, b)
    BY <1>0, <2>1, <2>3 DEF Data
  <2>5. data' \in Data /\ Pushed(data, data', b)
    BY <2>4, AppendPushes DEF Types, Data
  <2>6. /\ Len(data') <= Len(c) /\ Len(data') = Len(data) + 1
        /\ \A i \in 1 .. Len(data') : data'[i] = c[i]
    <3>1. Len(data') = Len(data) + 1 /\ data'[Len(data) + 1] = c[Len(data) + 1]
      BY <2>4, <2>5 DEF Pushed
    <3>2. \A i \in 1 .. Len(data) : data'[i] = c[i]
      BY <1>0, <2>1, <2>5 DEF Pushed, Fetching
    <3> QED
      BY <1>0, <2>3, <3>1, <3>2
  <2>7. torn' \/ local' = data'
    BY <2>1, <2>2
  <2>8. InOrder(c)'
    <3>1. Taken(c)' = Taken(c) + 1 /\ Taken(c) \in Nat
      BY <1>0, <2>1, <2>2, <2>6 DEF Taken
    <3> QED
      BY <1>0, <2>1, <2>2, <3>1, OneTaken DEF server
  <2>9. Fetching(c)'
    BY <1>0, <2>1, <2>2, <2>6, <2>7, <2>8 DEF Fetching
  <2> QED
    BY <2>1, <2>9, OfferedFetching
<1>5. CASE ReceiveComplete
  <2>1. /\ Popped(toClient, toClient') /\ ClientGets
        /\ pc = "receiving" /\ Head(toClient).op = "FileComplete" /\ pc' = "receipt"
        /\ UNCHANGED <<command, code, local, torn, data, announced, toServer, broken, server>>
    BY <1>5, Took DEF ReceiveComplete, Takes
  <2>2. InOrder(c) /\ Taken(c) = 1 + Len(data) /\ announced = c /\ (torn \/ local = data)
    BY <1>0, <2>1 DEF Fetching, Stale, Taken
  <2>3. Len(data) = Len(c)
    <3>1. PICK k : k = Taken(c) + 1
      OBVIOUS
    <3>2. k = Len(data) + 2 /\ k \in 1 .. Len(c) + 2 /\ Head(toClient) = Item(c, k).msg
      BY <1>0, <2>1, <2>2, <3>1, NextItem
    <3>3. k \in 1 .. Len(c) + 3 /\ 1 < k
      BY <1>0, <3>2
    <3>4. ~(k <= Len(c) + 1)
      BY <2>1, <3>2, <3>3, ItemIs
    <3> QED
      BY <1>0, <3>2, <3>4
  <2>4. data = c
    <3>1. data \in Seq(Bytes) /\ c \in Seq(Bytes)
      BY DEF Types, Data
    <3>2. \A i \in 1 .. Len(data) : data[i] = c[i]
      BY <1>0, <2>1 DEF Fetching
    <3> QED
      BY <2>3, <3>1, <3>2, SeqEqual
  <2>5. InOrder(c)'
    <3>1. Taken(c)' = Taken(c) + 1 /\ Taken(c) \in Nat
      BY <1>0, <2>1, <2>2, <2>3 DEF Taken
    <3> QED
      BY <1>0, <2>1, <2>2, <3>1, OneTaken DEF server
  <2>6. Fetching(c)'
    BY <1>0, <2>1, <2>2, <2>4, <2>5 DEF Fetching
  <2> QED
    BY <2>1, <2>6, OfferedFetching
<1>6. CASE Receipt
  <2>1. /\ pc = "receipt" /\ pc' = "leave"
        /\ UNCHANGED <<command, code, local, torn, data, announced, toClient, broken, server>>
    BY <1>6 DEF Receipt, Writes, ClientSends
  <2>2. data = c /\ announced = c /\ InOrder(c)
    BY <1>0, <2>1 DEF Fetching, Stale
  <2>3. PICK m : m = [op |-> "FileVerify", status |-> "Ok"]
    OBVIOUS
  <2>4. Adds(m)
    <3>1. Adds([op |-> "FileVerify", status |-> IF data = announced THEN "Ok" ELSE "HashMismatch"])
      BY <1>6, <2>1, Writing
    <3> QED
      BY <2>2, <2>3, <3>1 DEF Adds
  <2>5. \A i \in 1 .. Len(toServer') : toServer'[i] = m
    BY <1>0, <2>3, <2>4 DEF Adds, Pushed, Fetching
  <2>6. InOrder(c)'
    <3>1. Taken(c)' = Taken(c)
      BY <2>1 DEF Taken
    <3> QED
      BY <2>1, <2>2, <3>1 DEF InOrder, server
  <2>7. Fetching(c)'
    BY <1>0, <2>1, <2>2, <2>3, <2>5, <2>6 DEF Fetching
  <2> QED
    BY <2>1, <2>7, OfferedFetching
<1>7. ~(Connect \/ Greeted \/ Login \/ LoggedIn \/ Start \/ Request \/ SendBlock \/ SendComplete)
  BY <1>0 DEF Fetching, Connect, Greeted, Login, LoggedIn, Start, Request, SendBlock, SendComplete
<1>8. ~(LastAnswer \/ UploadAccepted)
  BY <1>0 DEF Fetching, LastAnswer, UploadAccepted
<1> QED
  BY <1>1, <1>2, <1>3, <1>4, <1>5, <1>6, <1>7, <1>8 DEF Client

LEMMA OfferedHandlers ==
    ASSUME Types, NEW c \in Data, Offered(c), Handlers
    PROVE  Offered(c)' /\ todo' \in Seq(Things)
<1>1. HandledIt /\ UNCHANGED log
  BY WhoHandles
<1>2. toServer[1] = [op |-> "FileVerify", status |-> "Ok"]
  BY <1>1 DEF HandledIt, Offered
<1>3. HandleReceipt
  BY <1>2, WhoHandles DEF Handlers
<1>4. /\ spc' = "loop" /\ todo' = <<>> /\ UNCHANGED <<received, remote, log, effects>>
  <2>1. Head(toServer).status = "Ok"
    BY <1>1, <1>2 DEF HandledIt
  <2> QED
    BY <1>3, <2>1 DEF HandleReceipt, InLoop, Handles, Untouched
<1>5. \A i \in 1 .. Len(toServer') : toServer'[i] = [op |-> "FileVerify", status |-> "Ok"]
  BY <1>1 DEF HandledIt, Popped, Offered
<1>6. UNCHANGED <<client, toClient, broken, alive, todo>>
  BY <1>1, <1>4 DEF HandledIt
<1>7. (Stale \/ InOrder(c)) => Stale' \/ InOrder(c)'
  BY <1>6 DEF Stale, InOrder, Taken, client
<1>8. Downloaded' <=> Downloaded
  BY <1>6 DEF Downloaded, client
<1> QED
  BY <1>4, <1>5, <1>6, <1>7, <1>8, EmptyIs DEF Offered, client

\* A beginning of what is under way is as much in order, when no more follows.
LEMMA StillInOrder ==
    ASSUME Types, NEW c \in Data, pc = "done" \/ Stale \/ InOrder(c),
           Shortened(toClient, toClient'), toClient' \in Seq(Replies),
           UNCHANGED <<pc, data>>, todo' = <<>> \/ broken'
    PROVE  (pc = "done" \/ Stale \/ InOrder(c))'
<1>1. CASE pc = "done"
  BY <1>1
<1>2. CASE toClient' = <<>>
  BY <1>2, EmptyIs DEF InOrder
<1>3. CASE Stale /\ toClient' # <<>>
  <2>1. 1 \in 1 .. Len(toClient')
    BY <1>3, TailPops
  <2>2. toClient'[1] = toClient[1]
    BY <2>1 DEF Shortened
  <2> QED
    BY <1>3, <2>2 DEF Stale
<1>4. CASE InOrder(c)
  <2>1. \A i \in 1 .. Len(toClient') : i \in 1 .. Len(toClient) /\ toClient'[i] = toClient[i]
    BY DEF Shortened, Types
  <2>2. Taken(c)' = Taken(c)
    BY DEF Taken
  <2> QED
    BY <1>4, <2>1, <2>2 DEF InOrder
<1> QED
  BY <1>1, <1>2, <1>3, <1>4

LEMMA OfferedDo ==
    ASSUME Types, NEW c \in Data, Offered(c), Do
    PROVE  Offered(c)'
<1> DEFINE n == Len(todo)
           k == Len(c) + 4 - n
<1>1. /\ Len(c) \in Nat /\ n \in Nat \ {0} /\ n <= Len(c) + 3 /\ 1 \in 1 .. n
      /\ Len(c) + 3 - n + 1 = k
  BY Did DEF Types, Data, Offered
<1>2. k \in 1 .. Len(c) + 3 /\ todo[1] = Item(c, k)
  BY <1>1 DEF Offered
<1>3. /\ k <= Len(c) + 2 => todo[1].act = "send" /\ Sends(todo[1].msg) = todo[1]
      /\ k = Len(c) + 3 => todo[1].act = "log" /\ todo[1].row = "OK"
      /\ (k <= Len(c) + 2 <=> n > 1) /\ (k = Len(c) + 3 <=> n = 1)
      /\ todo[1].act \in {"send", "log"}
  <2>1. (k <= Len(c) + 2 <=> n > 1) /\ (k = Len(c) + 3 <=> n = 1) /\ (n > 1 \/ n = 1)
    <3>1. ASSUME NEW a \in Nat, NEW b \in Nat, b # 0
          PROVE  /\ (a + 4 - b <= a + 2 <=> b > 1) /\ (a + 4 - b = a + 3 <=> b = 1)
                 /\ b > 1 \/ b = 1
      BY <3>1
    <3>2. Len(c) \in Nat /\ n \in Nat /\ n # 0
      BY <1>1
    <3> QED
      BY <3>1, <3>2
  <2> HIDE DEF k, n
  <2>2. /\ k <= Len(c) + 2 => todo[1].act = "send" /\ Sends(todo[1].msg) = todo[1]
        /\ k = Len(c) + 3 => todo[1].act = "log" /\ todo[1].row = "OK"
    BY <1>2, ItemIs
  <2> QED
    BY <2>1, <2>2
<1>4. PopsTodo /\ (SendsNext \/ LogsNext) /\ alive /\ todo # <<>>
  BY <1>3, Did
<1>5. /\ Len(todo') = n - 1
      /\ \A i \in 1 .. Len(todo') : todo'[i] = Item(c, Len(c) + 3 - Len(todo') + i)
  <2>1. Len(todo') = n - 1
    BY <1>4 DEF PopsTodo, Popped
  <2> SUFFICES ASSUME NEW i \in 1 .. Len(todo')
               PROVE  todo'[i] = Item(c, Len(c) + 3 - Len(todo') + i)
    BY <2>1
  <2>2. i + 1 \in 1 .. n /\ todo'[i] = todo[i + 1]
    BY <1>4 DEF PopsTodo, Popped
  <2>3. todo[i + 1] = Item(c, Len(c) + 3 - n + (i + 1))
    BY <2>2 DEF Offered
  <2>4. Len(c) + 3 - n + (i + 1) = Len(c) + 3 - Len(todo') + i
    BY <1>1, <2>1
  <2> QED
    BY <2>2, <2>3, <2>4
<1>6. log = <<>>
  BY <1>4 DEF Offered
<1>7. UNCHANGED <<client, toServer, spc, received, alive, effects, broken>>
  BY <1>4 DEF SendsNext, LogsNext, connection
<1>8. Downloaded' <=> Downloaded
  BY <1>7 DEF Downloaded, client
<1>9. CASE SendsNext
  <2>1. n > 1 /\ todo' # <<>> /\ log' = <<>>
    <3>1. n > 1
      BY <1>1, <1>3, <1>9 DEF SendsNext
    <3> QED
      BY <1>1, <1>5, <1>6, <1>9, <3>1, EmptyIs DEF SendsNext
  <2>2. ASSUME pc # "done"
        PROVE  Stale' \/ InOrder(c)'
    <3>1. clientOpen
      BY <2>2 DEF Types, Offered
    <3>2. IF broken THEN toClient' = toClient ELSE Pushed(toClient, toClient', todo[1].msg)
      BY <1>9, <3>1 DEF SendsNext
    <3>3. CASE Stale
      <4>1. 1 \in 1 .. Len(toClient)
        BY <3>3, TailPops DEF Stale, Types
      <4>2. toClient' # <<>> /\ toClient'[1] = toClient[1]
        BY <3>2, <3>3, <4>1, EmptyIs DEF Pushed, Stale
      <4> QED
        BY <1>7, <3>3, <4>2 DEF Stale, client
    <3>4. CASE InOrder(c) /\ broken
      BY <1>7, <3>2, <3>4 DEF InOrder, Taken, client
    <3>5. CASE InOrder(c) /\ ~broken
      <4>1. Taken(c)' = Taken(c) /\ Taken(c) \in Nat
        BY <1>1, <1>7 DEF Taken, client, Types, Data
      <4>2. Taken(c) + Len(toClient) + n = Len(c) + 3
        BY <1>4, <3>5 DEF InOrder
      <4>3. Len(toClient) \in Nat /\ Len(toClient') = Len(toClient) + 1
        BY <3>2, <3>5 DEF Pushed
      <4>4. ASSUME NEW i \in 1 .. Len(toClient')
            PROVE  Taken(c) + i <= Len(c) + 2 /\ Sends(toClient'[i]) = Item(c, Taken(c) + i)
        <5>1. CASE i \in 1 .. Len(toClient)
          BY <3>2, <3>5, <5>1 DEF InOrder, Pushed
        <5>2. CASE i = Len(toClient')
          <6>1. Taken(c) + i = k /\ k <= Len(c) + 2
            BY <1>1, <1>3, <2>1, <4>1, <4>2, <4>3, <5>2
          <6>2. toClient'[i] = todo[1].msg
            BY <3>2, <3>5, <5>2 DEF Pushed
          <6> QED
            BY <1>2, <1>3, <6>1, <6>2
        <5> QED
          BY <4>3, <5>1, <5>2
      <4>5. Taken(c) + Len(toClient') + Len(todo') = Len(c) + 3
        BY <1>1, <1>5, <4>1, <4>2, <4>3
      <4> QED
        BY <4>1, <4>4, <4>5 DEF InOrder
    <3> QED
      BY <2>2, <3>3, <3>4, <3>5 DEF Offered
  <2> QED
    BY <1>1, <1>5, <1>7, <1>8, <2>1, <2>2 DEF Offered, client
<1>10. CASE LogsNext
  <2>1. n = 1 /\ todo[1].row = "OK"
    BY <1>1, <1>3, <1>10 DEF LogsNext
  <2>2. todo' = <<>>
    BY <1>4, <1>5, <2>1, EmptySeq DEF PopsTodo
  <2>3. log' = <<"OK">>
    <3>1. log' \in Seq(RowNames) /\ Pushed(log, log', "OK") /\ Len(log) = 0
      BY <1>6, <1>10, <2>1, Did, EmptyIs DEF LogsNext
    <3>2. Len(log') = 1 /\ log'[1] = "OK"
      BY <3>1 DEF Pushed
    <3>3. <<"OK">> \in Seq(RowNames) /\ Len(<<"OK">>) = 1 /\ <<"OK">>[1] = "OK"
      BY ShortList DEF RowNames
    <3>4. \A i \in 1 .. Len(log') : log'[i] = <<"OK">>[i]
      BY <3>2, <3>3
    <3> QED
      BY <3>1, <3>2, <3>3, <3>4, SeqEqual
  <2>4. (pc = "done" \/ Stale \/ InOrder(c))'
    <3>1. UNCHANGED <<pc, data, toClient>> /\ toClient \in Seq(Replies) /\ Shortened(toClient, toClient')
      BY <1>10 DEF LogsNext, client, connection, Types, Shortened
    <3> QED
      BY <2>2, <3>1, StillInOrder DEF Offered
  <2>5. Len(todo') <= Len(c) + 3
    BY <1>1, <1>5
  <2> QED
    BY <1>5, <1>7, <1>8, <2>2, <2>3, <2>4, <2>5 DEF Offered, client
<1> QED
  BY <1>4, <1>9, <1>10

LEMMA OfferedElse ==
    ASSUME Types, NEW c \in Data, Offered(c), End \/ Timeout \/ Break \/ Stop \/ Die \/ Meddle
    PROVE  Offered(c)'
<1>1. CASE End \/ Timeout \/ Die
  <2>1. Close /\ UNCHANGED log /\ (alive' => alive /\ todo = <<>>)
    BY <1>1 DEF End, Timeout, Die
  <2>2. /\ Shortened(toClient, toClient') /\ toClient' \in Seq(Replies)
        /\ toServer' = <<>> /\ todo' = <<>> /\ received' = Absent
        /\ spc' = "ended" /\ UNCHANGED <<client, effects, log>>
    BY <2>1, Closed
  <2>3. (pc = "done" \/ Stale \/ InOrder(c))'
    BY <2>2, StillInOrder DEF Offered, client
  <2>4. /\ 1 .. Len(toServer') = {} /\ 1 .. Len(todo') = {} /\ Len(todo') <= Len(c) + 3
    BY <2>2, EmptyIs DEF Data
  <2>5. Downloaded' <=> Downloaded
    BY <2>2 DEF Downloaded, client
  <2> QED
    BY <2>1, <2>2, <2>3, <2>4, <2>5 DEF Offered, client
<1>2. CASE Break
  <2>1. /\ Shortened(toServer, toServer') /\ Shortened(toClient, toClient') /\ broken' = TRUE
        /\ toClient' \in Seq(Replies) /\ UNCHANGED <<client, server>>
    BY <1>2, Broken
  <2>2. (pc = "done" \/ Stale \/ InOrder(c))'
    BY <2>1, StillInOrder DEF Offered, client
  <2>3. \A i \in 1 .. Len(toServer') : toServer'[i] = [op |-> "FileVerify", status |-> "Ok"]
    BY <2>1 DEF Offered, Shortened, Types
  <2>4. Downloaded' <=> Downloaded
    BY <2>1 DEF Downloaded, client
  <2> QED
    BY <2>1, <2>2, <2>3, <2>4 DEF Offered, client, server
<1>3. CASE Stop \/ Meddle
  <2>1. UNCHANGED <<client, connection, spc, todo, received, alive, log, effects>>
    BY <1>3 DEF Stop, Meddle
  <2>2. (pc = "done" \/ Stale \/ InOrder(c))' <=> (pc = "done" \/ Stale \/ InOrder(c))
    BY <2>1 DEF Stale, InOrder, Taken, client, connection
  <2>3. Downloaded' <=> Downloaded
    BY <2>1 DEF Downloaded, client
  <2> QED
    BY <2>1, <2>2, <2>3 DEF Offered, client, connection
<1> QED
  BY <1>1, <1>2, <1>3

-----------------------------------------------------------------------------
(* The invariant.                                                          *)

LEMMA InvInit == Init => Inv
<1> SUFFICES ASSUME Init
             PROVE  Types /\ Asking
  BY DEF Inv, Phases
<1>1. /\ command \in RequestOps /\ local \in Data \cup {Absent} /\ remote \in Data \cup {Absent}
  BY ClientAssumption DEF Init, RequestOps, Data
<1>2. 1 .. Len(toClient) = {} /\ 1 .. Len(todo) = {} /\ 1 .. Len(toServer) = {}
  BY EmptyIs DEF Init
<1>3. data \in Data /\ toServer \in Seq(Questions) /\ toClient \in Seq(Replies)
      /\ todo \in Seq(Things) /\ log \in Seq(RowNames)
  BY EmptyIs DEF Init, Data
<1>4. Types
  BY <1>1, <1>3 DEF Types, Init
<1>5. Asking
  BY <1>1, <1>2 DEF Asking, Refusing, Init, Before
<1> QED
  BY <1>4, <1>5

LEMMA ClientPhases ==
    ASSUME Inv, Client \/ Killed
    PROVE  Inv'
<1>1. pc = "request" => local \in Data \cup {Absent}
  BY DEF Inv, Phases, Asking, Uploading, Settled, Offered
<1>2. Types'
  BY <1>1, TypesClient DEF Inv
<1>3. CASE Asking
  BY <1>2, <1>3, AskingClient DEF Inv, Phases
<1>4. CASE Uploading
  BY <1>2, <1>4, UploadingClient DEF Inv, Phases
<1>5. CASE Settled
  BY <1>2, <1>5, SettledClient DEF Inv, Phases
<1>6. ASSUME NEW c \in Data, Offered(c)
      PROVE  Phases'
  BY <1>6, OfferedClient DEF Inv, Phases
<1> QED
  BY <1>2, <1>3, <1>4, <1>5, <1>6 DEF Inv, Phases

LEMMA HandlersPhases ==
    ASSUME Inv, Handlers
    PROVE  Inv'
<1>1. Types /\ HandledIt /\ spc \notin {"accept", "ended"}
  BY WhoHandles DEF Inv
<1>2. CASE Asking
  <2>1. toServer[1].op \in {"Hello", "AuthRequest", "SessionStart"} \cup RequestOps
    <3>1. command \in RequestOps /\ 1 \in 1 .. Len(toServer)
      BY <1>1 DEF Types, HandledIt
    <3> QED
      BY <1>2, <3>1 DEF Asking
  <2>2. \/ HandleHello \/ HandleAuthRequest \/ HandleSessionStart
        \/ HandleUpload \/ HandleRemoval \/ RemovalRejected \/ HandleDownload
    BY <1>1, <2>1, WhoHandles DEF Handlers, RequestOps
  <2>3. Phases' /\ todo' \in Seq(Things)
    <3>1. CASE HandleHello \/ HandleAuthRequest \/ HandleSessionStart
      BY <1>1, <1>2, <3>1, AskingLogin DEF Phases
    <3>2. CASE HandleUpload \/ HandleRemoval \/ RemovalRejected \/ HandleDownload
      BY <1>1, <1>2, <3>2, AskingRequest DEF Phases
    <3> QED
      BY <2>2, <3>1, <3>2
  <2> QED
    BY <1>1, <2>3, TypesElse DEF Inv, Session, Handlers
<1>3. CASE Uploading
  <2>1. Phases' /\ todo' \in Seq(Things)
    BY <1>1, <1>3, UploadingHandlers DEF Phases
  <2> QED
    BY <1>1, <2>1, TypesElse DEF Inv, Session, Handlers
<1>4. CASE Settled
  BY <1>1, <1>4, EmptyIs DEF Settled, HandledIt
<1>5. ASSUME NEW c \in Data, Offered(c)
      PROVE  Inv'
  <2>1. Phases' /\ todo' \in Seq(Things)
    BY <1>1, <1>5, OfferedHandlers DEF Phases
  <2> QED
    BY <1>1, <2>1, TypesElse DEF Inv, Session, Handlers
<1> QED
  BY <1>2, <1>3, <1>4, <1>5 DEF Inv, Phases

LEMMA ElsePhases ==
    ASSUME Inv, Do \/ End \/ Timeout \/ Break \/ Stop \/ Die \/ Meddle
    PROVE  Inv'
<1>1. Types
  BY DEF Inv
<1>2. Types'
  BY <1>1, TodoTyped, TypesElse DEF Session
<1>3. CASE Asking
  BY <1>1, <1>2, <1>3, AskingElse DEF Inv, Phases
<1>4. CASE Uploading
  BY <1>1, <1>2, <1>4, UploadingElse DEF Inv, Phases
<1>5. CASE Settled
  BY <1>1, <1>2, <1>5, SettledSession, SettledElse DEF Inv, Phases
<1>6. ASSUME NEW c \in Data, Offered(c)
      PROVE  Phases'
  BY <1>1, <1>6, OfferedDo, OfferedElse DEF Phases
<1> QED
  BY <1>2, <1>3, <1>4, <1>5, <1>6 DEF Inv, Phases

LEMMA InvStep == Inv /\ [Next]_vars => Inv'
<1> SUFFICES ASSUME Inv, [Next]_vars
             PROVE  Inv'
  OBVIOUS
<1>1. CASE Client \/ Killed
  BY <1>1, ClientPhases
<1>2. CASE Handlers
  BY <1>2, HandlersPhases
<1>3. CASE Do \/ End \/ Timeout \/ Break \/ Stop \/ Die \/ Meddle
  BY <1>3, ElsePhases
<1>4. CASE UNCHANGED vars
  <2>1. Types'
    BY <1>4 DEF vars, client, connection, server, Inv, Types
  <2>2. (Asking' <=> Asking) /\ (Uploading' <=> Uploading)
    BY <1>4 DEF vars, client, connection, server, Asking, Refusing, Refused, Uploading, Arrived
  <2>3. Settled' <=> Settled
    BY <1>4 DEF vars, client, connection, server, Settled, Agenda, LogDue, Told
  <2>4. ASSUME NEW c \in Data
        PROVE  Offered(c)' <=> Offered(c)
    BY <1>4 DEF vars, client, connection, server, Offered, Downloaded, Stale, InOrder, Taken
  <2> QED
    BY <2>1, <2>2, <2>3, <2>4 DEF Inv, Phases
<1> QED
  BY <1>1, <1>2, <1>3, <1>4 DEF Next, Session, Handlers

-----------------------------------------------------------------------------
(* What the log tells.                                                     *)

LEMMA RowsAre ==
    ASSUME Types, NEW r
    PROVE  /\ (\A i \in 1 .. Len(log) : log[i] # r) => Rows(r) = 0
           /\ Len(log) = 1 => Rows(r) = IF log[1] = r THEN 1 ELSE 0
<1>1. ASSUME \A i \in 1 .. Len(log) : log[i] # r
      PROVE  Rows(r) = 0
  <2>1. {i \in 1 .. Len(log) : log[i] = r} = {}
    BY <1>1
  <2> QED
    BY <2>1, FS_EmptySet DEF Rows
<1>2. ASSUME Len(log) = 1
      PROVE  Rows(r) = IF log[1] = r THEN 1 ELSE 0
  <2>1. 1 .. Len(log) = {1}
    BY <1>2
  <2>2. CASE log[1] = r
    <3>1. {i \in 1 .. Len(log) : log[i] = r} = {1}
      BY <2>1, <2>2
    <3> QED
      BY <2>2, <3>1, FS_Singleton DEF Rows
  <2>3. CASE log[1] # r
    <3>1. {i \in 1 .. Len(log) : log[i] = r} = {}
      BY <2>1, <2>3
    <3> QED
      BY <2>3, <3>1, FS_EmptySet DEF Rows
  <2> QED
    BY <2>2, <2>3
<1> QED
  BY <1>1, <1>2

LEMMA PhasesTell ==
    ASSUME Inv
    PROVE  AuditTells
<1>1. Types
  BY DEF Inv
<1>2. log = <<>> => Rows("MISMATCH") = 0 /\ Rows("OK") = 0
  BY <1>1, RowsAre, EmptyIs
<1>3. CASE Asking \/ Uploading
  <2>1. log = <<>> \/ (Len(log) = 1 /\ log[1] = "DENIED")
    BY <1>3 DEF Asking, Refusing, Refused, Uploading
  <2>2. Rows("MISMATCH") = 0 /\ Rows("OK") = 0
    BY <1>1, <1>2, <2>1, RowsAre
  <2> QED
    BY <1>3, <2>2 DEF Asking, Uploading, AuditTells
<1>4. CASE Settled
  <2>1. Rows("MISMATCH") = 0
    BY <1>1, <1>4, RowsAre DEF Settled
  <2>2. ASSUME alive, todo = <<>>
        PROVE  Rows("OK") = effects
    <3>1. Told /\ effects \in {0, 1}
      BY <1>4, <2>2, EmptyIs DEF Settled, LogDue
    <3>2. CASE log = <<>> /\ effects = 0
      BY <1>2, <3>2
    <3>3. CASE Len(log) = 1 /\ (log[1] = "OK" <=> effects = 1)
      BY <1>1, <3>1, <3>3, RowsAre
    <3> QED
      BY <3>1, <3>2, <3>3 DEF Told
  <2>3. command = "download" => code # "done"
    BY <1>4 DEF Settled
  <2> QED
    BY <2>1, <2>2, <2>3 DEF AuditTells
<1>5. ASSUME NEW c \in Data, Offered(c)
      PROVE  AuditTells
  <2>1. Len(<<"OK">>) = 1 /\ <<"OK">>[1] = "OK"
    BY ShortList
  <2>2. log = <<"OK">> => Rows("OK") = 1 /\ Rows("MISMATCH") = 0
    BY <1>1, <2>1, RowsAre
  <2> QED
    BY <1>2, <1>5, <2>2 DEF Offered, AuditTells
<1> QED
  BY <1>3, <1>4, <1>5 DEF Inv, Phases

\* Whenever the session is between two messages, or over without having been
\* killed, the log has a row OK for an operation that was carried out and for no
\* other, and one for a download that the client calls done.
THEOREM LogTells == Spec => []AuditTells
  BY InvInit, InvStep, PhasesTell, PTL DEF Spec

-----------------------------------------------------------------------------
(* The promise to the user.                                                *)

DoneOf == IF command = "download" THEN (IF Downloaded THEN 1 ELSE 0) ELSE effects

LEMMA DoneTyped ==
    ASSUME Inv
    PROVE  effects \in {0, 1} /\ DoneOf \in {0, 1}
  BY DEF Inv, Phases, Asking, Uploading, Settled, Offered, DoneOf

\* Only the end of the command gives an answer, and "done" to what was carried out.
LEMMA ReturnAnswers ==
    ASSUME Inv, Inv', Returns, pc # "done"
    PROVE  [Abstract!Next]_<<DoneOf, code>>
<1>1. PICK a \in {"none", "done", "failed"} : Return(a)
  BY DEF Returns
<1>2. /\ code = "none" /\ code' = a
      /\ UNCHANGED <<command, local, data, announced, torn, effects>>
  BY <1>1, Returned DEF Inv, Types, server
<1>3. DoneOf' = DoneOf
  BY <1>2 DEF DoneOf, Downloaded
<1>4. a = "done" => DoneOf = 1
  <2>1. code' = "done" => DoneOf' = 1
    BY DEF Inv, Phases, Asking, Uploading, Settled, Offered, DoneOf
  <2> QED
    BY <1>2, <1>3, <2>1
<1> QED
  BY <1>2, <1>3, <1>4 DEF Abstract!Next, Abstract!Answer, DoneOf

\* The other steps of the client carry out a download at most.
LEMMA ClientCarriesOut ==
    ASSUME Inv, Inv', Client \/ Killed
    PROVE  [Abstract!Next]_<<DoneOf, code>>
<1> USE DEF server
<1>1. CASE NoLocalFile \/ SendFails \/ CannotCreate \/ Unexpected \/ Killed \/ LastAnswer \/ Leave
  BY <1>1, WhoReturns, ReturnAnswers
<1>2. CASE Connect
  <2>1. CASE Connecting
    BY <2>1 DEF Connecting, DoneOf, Downloaded
  <2>2. CASE Return("failed")
    BY <1>2, <2>2, ReturnAnswers DEF Returns, Connect
  <2> QED
    BY <1>2, <2>1, <2>2, WhoConnects
<1>3. CASE Greeted \/ LoggedIn \/ UploadAccepted \/ ReceiveComplete
  <2>1. UNCHANGED <<command, code, local, data, announced, torn, effects>>
    BY <1>3 DEF Greeted, LoggedIn, UploadAccepted, ReceiveComplete, Takes
  <2> QED
    BY <2>1 DEF DoneOf, Downloaded
<1>4. CASE Login \/ Start \/ SendBlock \/ SendComplete \/ Receipt \/ Request
  <2>1. /\ UNCHANGED <<command, code, local, announced, torn, effects>>
        /\ command = "download" => data' = data
    BY <1>4 DEF Login, Start, SendBlock, SendComplete, Receipt, Request, Writes
  <2> QED
    BY <2>1 DEF DoneOf, Downloaded
<1>5. CASE DownloadAccepted \/ ReceiveBlock
  <2>1. UNCHANGED <<command, code, effects>>
    BY <1>5 DEF DownloadAccepted, ReceiveBlock
  <2>2. command = "download" => ~Downloaded
    <3>1. CASE DownloadAccepted
      <4>1. announced = Absent
        BY <3>1 DEF DownloadAccepted, Inv, Phases, Asking, Uploading, Settled, Offered
      <4> QED
        BY <4>1 DEF Downloaded
    <3>2. CASE ReceiveBlock
      <4>1. pc = "receiving" /\ pc' = "receiving" /\ announced' = announced
            /\ data' = Append(data, Head(toClient).block)
        BY <3>2 DEF ReceiveBlock
      <4>2. Len(data') <= Len(announced)
        BY <4>1 DEF Inv, Phases, Asking, Uploading, Settled, Offered, Before
      <4>3. Len(data') = Len(data) + 1 /\ Len(data) \in Nat
        <5>1. data \in Seq(Bytes) /\ data' \in Seq(Bytes)
          BY DEF Inv, Types, Data
        <5> QED
          BY <4>1, <5>1
      <4> QED
        BY <4>2, <4>3 DEF Downloaded
    <3> QED
      BY <1>5, <3>1, <3>2
  <2>3. DoneOf' = DoneOf \/ (DoneOf = 0 /\ DoneOf' = 1)
    <3>1. DoneOf' \in {0, 1}
      BY DoneTyped DEF Inv, Phases, Asking, Uploading, Settled, Offered, DoneOf
    <3> QED
      BY <2>1, <2>2, <3>1 DEF DoneOf
  <2> QED
    BY <2>1, <2>3 DEF Abstract!Next, Abstract!CarryOut, DoneOf
<1> QED
  BY <1>1, <1>2, <1>3, <1>4, <1>5 DEF Client

\* The session carries out the rest, once.
LEMMA SessionCarriesOut ==
    ASSUME Inv, Inv', Session \/ Timeout \/ Break \/ Stop \/ Die \/ Meddle
    PROVE  [Abstract!Next]_<<DoneOf, code>>
<1>0. Types
  BY DEF Inv
<1>1. UNCHANGED client /\ effects' \in {effects, effects + 1}
  <2>1. CASE Handlers
    <3>1. UNCHANGED client
      BY <1>0, <2>1, WhoHandles DEF HandledIt
    <3>2. CASE HandleComplete
      BY <3>1, <3>2 DEF HandleComplete
    <3>3. CASE HandleRemoval
      BY <3>1, <3>3 DEF HandleRemoval
    <3>4. CASE \/ HandleHello \/ HandleAuthRequest \/ HandleSessionStart \/ HandleUpload \/ HandleBlock
               \/ RemovalRejected \/ HandleDownload \/ HandleReceipt
      BY <3>1, <3>4 DEF HandleHello, HandleAuthRequest, HandleSessionStart, HandleUpload, HandleBlock,
                  RemovalRejected, HandleDownload, HandleReceipt, Untouched
    <3> QED
      BY <2>1, <3>1, <3>2, <3>3, <3>4 DEF Handlers
  <2>2. CASE Do
    BY <1>0, <2>2, Did, Closed DEF SendsNext, LogsNext
  <2>3. CASE End \/ Timeout \/ Die
    <3>1. Close
      BY <2>3 DEF End, Timeout, Die
    <3> QED
      BY <1>0, <3>1, Closed
  <2>4. CASE Break \/ Stop \/ Meddle
    BY <2>4 DEF Break, Stop, Meddle, server
  <2> QED
    BY <2>1, <2>2, <2>3, <2>4 DEF Session, Handlers
<1>2. UNCHANGED <<command, code, local, data, announced, torn>>
  BY <1>1 DEF client
<1>3. effects \in {0, 1} /\ effects' \in {0, 1}
  BY DoneTyped DEF Inv, Phases, Asking, Uploading, Settled, Offered
<1>4. effects' = effects \/ (effects = 0 /\ effects' = 1)
  BY <1>1, <1>3
<1>5. DoneOf' = DoneOf \/ (DoneOf = 0 /\ DoneOf' = 1)
  BY <1>2, <1>4 DEF DoneOf, Downloaded
<1> QED
  BY <1>2, <1>5 DEF Abstract!Next, Abstract!CarryOut, DoneOf

\* A command is carried out at most once, whatever breaks, and exit code 0 is only
\* given for one that was.
THEOREM PromiseToTheUser == Spec => RequestSpec
<1>1. Init => Abstract!Init
  BY DEF Init, Abstract!Init, Downloaded
<1>2. Inv /\ Inv' /\ [Next]_vars => [Abstract!Next]_<<DoneOf, code>>
  <2>1. ASSUME UNCHANGED vars
        PROVE  UNCHANGED <<DoneOf, code>>
    BY <2>1 DEF vars, client, server, DoneOf, Downloaded
  <2> QED
    BY <2>1, ClientCarriesOut, SessionCarriesOut DEF Next
<1> QED
  BY <1>1, <1>2, InvInit, InvStep, PTL DEF Spec, RequestSpec, Abstract!Spec, DoneOf

=============================================================================
