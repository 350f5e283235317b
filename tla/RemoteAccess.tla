---------------------------- MODULE RemoteAccess ----------------------------
(***************************************************************************)
(* What the server promises the person whose screen it shares and the      *)
(* auditor who reads its log, said without threads, frames or counters:    *)
(* who may come in, what goes on record before what, that nobody sees or   *)
(* moves anything unless a banner was ordered, the start is on record and  *)
(* the account that logged in has the right, and that a banner stays on    *)
(* the screen until the end is on record.  That a banner which was ordered *)
(* ever comes is not promised: its window may fail.                        *)
(***************************************************************************)
EXTENDS Naturals, Sequences, FiniteSets

CONSTANTS Conns, Accounts, MaxSessions

VARIABLES
    allowed,     \* the connections whose address may come in
    served,      \* those that are being served
    record,      \* what is on record of each
    account,     \* the rights of the account on record as logged in
    purpose,     \* what each session on record as started is for
    announced,   \* the sessions whose banner was ordered and not taken down
    shown,       \* those whose banner is on the screen
    controlled,  \* the sessions that have moved the mouse
    seen         \* the sessions that have seen the screen

vars == <<allowed, served, record, account, purpose, announced, shown, controlled, seen>>

Purposes == {"FullControl", "ViewOnly", "FileOnly"}

Needed(m) == CASE m = "FullControl" -> {"AllAccess", "RemoteScreenControl"}
               [] m = "ViewOnly"    -> {"AllAccess", "RemoteScreenControl", "RemoteScreenView"}
               [] m = "FileOnly"    -> {"AllAccess", "FileTransfer"}

\* One of the rights a purpose needs will do.
Permits(rights, m) == rights \cap Needed(m) # {}

Init ==
    /\ allowed \in SUBSET Conns
    /\ served = {} /\ announced = {} /\ shown = {} /\ controlled = {} /\ seen = {}
    /\ record = [c \in Conns |-> <<>>]
    /\ account = [c \in Conns |-> {}]
    /\ purpose = [c \in Conns |-> "unknown"]

Put(c, row) == record' = [record EXCEPT ![c] = Append(@, row)]

TurnAway(c) ==
    /\ record[c] = <<>>
    /\ Put(c, "reject")
    /\ UNCHANGED <<allowed, served, account, purpose, announced, shown, controlled, seen>>

\* Only from inside the allow-list, and only while there is room; it may come
\* to nothing.
Enter(c) ==
    /\ c \in allowed /\ record[c] = <<>>
    /\ Cardinality(served) < MaxSessions
    /\ Put(c, "accept")
    /\ served' \in {served, served \cup {c}}
    /\ UNCHANGED <<allowed, account, purpose, announced, shown, controlled, seen>>

LogIn(c, rights) ==
    /\ c \in served /\ record[c] = <<"accept">>
    /\ Put(c, "auth ok")
    /\ account' = [account EXCEPT ![c] = rights]
    /\ UNCHANGED <<allowed, served, purpose, announced, shown, controlled, seen>>

Refuse(c) ==
    /\ c \in served
    /\ \/ record[c] = <<"accept">> /\ Put(c, "auth failed")
       \/ record[c] = <<"accept", "auth ok">> /\ c \notin announced /\ Put(c, "denied")
    /\ UNCHANGED <<allowed, served, account, purpose, announced, shown, controlled, seen>>

Announce(c) ==
    /\ c \in served /\ record[c] = <<"accept", "auth ok">>
    /\ announced' = announced \cup {c}
    /\ shown' \in {shown, shown \cup {c}}
    /\ UNCHANGED <<allowed, served, record, account, purpose, controlled, seen>>

\* A banner may come late.
Appear(c) ==
    /\ c \in announced
    /\ shown' = shown \cup {c}
    /\ UNCHANGED <<allowed, served, record, account, purpose, announced, controlled, seen>>

Start(c, m) ==
    /\ c \in announced /\ record[c] = <<"accept", "auth ok">>
    /\ Permits(account[c], m)
    /\ Put(c, "start")
    /\ purpose' = [purpose EXCEPT ![c] = m]
    /\ UNCHANGED <<allowed, served, account, announced, shown, controlled, seen>>

\* Announced, on record as started and not as ended.
Live(c) == c \in served \cap announced /\ record[c] = <<"accept", "auth ok", "start">>

Control(c) ==
    /\ Live(c) /\ purpose[c] = "FullControl" /\ Permits(account[c], "FullControl")
    /\ controlled' = controlled \cup {c}
    /\ UNCHANGED <<allowed, served, record, account, purpose, announced, shown, seen>>

See(c) ==
    /\ Live(c) /\ purpose[c] \in {"FullControl", "ViewOnly"} /\ Permits(account[c], "ViewOnly")
    /\ seen' = seen \cup {c}
    /\ UNCHANGED <<allowed, served, record, account, purpose, announced, shown, controlled>>

\* The end goes on record before the banner is taken down.
Finish(c) ==
    /\ Live(c)
    /\ Put(c, "end")
    /\ UNCHANGED <<allowed, served, account, purpose, announced, shown, controlled, seen>>

Hide(c) ==
    /\ c \in announced /\ record[c] = <<"accept", "auth ok", "start", "end">>
    /\ announced' = announced \ {c} /\ shown' = shown \ {c}
    /\ UNCHANGED <<allowed, served, record, account, purpose, controlled, seen>>

\* A session that started is not left before its end is on record.
Leave(c) ==
    /\ c \in served \ announced
    /\ record[c] # <<"accept", "auth ok", "start">>
    /\ served' = served \ {c}
    /\ UNCHANGED <<allowed, record, account, purpose, announced, shown, controlled, seen>>

\* The server's process ends, and every session and banner with it.
Shutdown ==
    /\ served' = {} /\ announced' = {} /\ shown' = {}
    /\ UNCHANGED <<allowed, record, account, purpose, controlled, seen>>

Next ==
    \/ \E c \in Conns :
          \/ TurnAway(c) \/ Enter(c) \/ Refuse(c) \/ Announce(c) \/ Appear(c)
          \/ \E rights \in Accounts : LogIn(c, rights)
          \/ \E m \in Purposes : Start(c, m)
          \/ Control(c) \/ See(c) \/ Finish(c) \/ Hide(c) \/ Leave(c)
    \/ Shutdown

Spec == Init /\ [][Next]_vars
=============================================================================
