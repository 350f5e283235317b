------------------------------ MODULE TrayApp ------------------------------
(***************************************************************************)
(* ui/TrayApp.cpp with ui/OptionsDialog.cpp and ui/UsersDialog.cpp: the    *)
(* tray program that edits the configuration, writes it to disk and        *)
(* restarts the ServerApp, which runs on a thread of its own and leaves    *)
(* its sessions on detached threads.                                       *)
(*                                                                         *)
(* The UI thread does one thing at a time, but while a dialog or a message *)
(* box is up the tray icon still answers: what it starts runs inside the   *)
(* modal loop, and the dialog below goes on when that has returned.        *)
(*                                                                         *)
(* ServerApp objects are numbered in the order they are made.              *)
(***************************************************************************)
EXTENDS Naturals, Sequences, FiniteSets

CONSTANTS
    Options,        \* what the Options dialog edits
    Users,          \* what the Users dialog edits
    DefaultOptions, \* of a ServerConfig{}
    NoUsers,
    Unusable,       \* a config file that does not load
    Sessions,       \* session threads
    BootMayFail,    \* run() may refuse the configuration or the port
    MaxServers,     \* bound: ServerApp objects made
    MaxNested,      \* bound: dialogs and messages up at a time
    MaxFaults       \* bound: saves that go wrong

ASSUME TrayAssumption ==
    /\ DefaultOptions \in Options /\ NoUsers \in Users
    /\ BootMayFail \in BOOLEAN
    /\ MaxServers \in Nat \ {0} /\ MaxNested \in Nat \ {0} /\ MaxFaults \in Nat

Configs == [options : Options, users : Users]
Default == [options |-> DefaultOptions, users |-> NoUsers]
ASSUME UnusableAssumption == Unusable \notin Configs

VARIABLES
    cfg, cfgLoaded, \* cfg_, cfgLoaded_
    file,           \* what is in configPath_
    ui,             \* where the UI thread is
    modal,          \* dialogs and message boxes, the latest last
    server,         \* server_: the number of its object, 0 for null
    made,           \* objects made so far
    thread,         \* of each object, the thread that runs it
    served,         \* the configuration each was made with
    stopped,        \* the objects that were told to stop
    running,        \* running_
    tip,            \* the tooltip of the icon
    session,        \* the object each session thread works on, 0 for none
    faults,
    edited,         \* history: what the user typed last, of each kind,
    overlapped      \* and whether two of the dialogs were ever up at a time

config == <<cfg, cfgLoaded, file, faults, edited, overlapped>>
servers == <<server, made, thread, served, stopped, running>>
vars == <<config, ui, modal, servers, tip, session>>

Ids == 1 .. MaxServers

Init ==
    /\ file \in Configs \cup {Unusable}
    /\ cfgLoaded = (file # Unusable)
    /\ cfg = IF cfgLoaded THEN file ELSE Default
    /\ edited = cfg
    /\ ui = IF cfgLoaded THEN "launching" ELSE "waiting"
    /\ modal = IF cfgLoaded THEN <<>> ELSE <<[kind |-> "info", copy |-> cfg, answer |-> "none"]>>
    /\ server = 0 /\ made = 0
    /\ thread = [g \in Ids |-> "none"]
    /\ served = [g \in Ids |-> Default]
    /\ stopped = {}
    /\ running = FALSE
    /\ tip = "starting"
    /\ session = [s \in Sessions |-> 0]
    /\ faults = 0
    /\ overlapped = FALSE

Push(kind) == modal' = Append(modal, [kind |-> kind, copy |-> cfg, answer |-> "none"])
Top == modal[Len(modal)]
Pop == SubSeq(modal, 1, Len(modal) - 1)

-----------------------------------------------------------------------------
(* Commands of the tray icon and answers to dialogs.  The UI thread waits   *)
(* for messages, in the main loop or in a modal one.                       *)

Waiting == ui = "waiting"
MayOpen == Waiting /\ Len(modal) < MaxNested
Overlaps == \E i \in 1 .. Len(modal) : modal[i].kind \in {"options", "users"}

\* onOptions; without a configuration it starts from the defaults.
OpenOptions ==
    /\ MayOpen
    /\ made < MaxServers
    /\ cfg' = IF cfgLoaded THEN cfg ELSE Default
    /\ modal' = Append(modal, [kind |-> "options", copy |-> cfg', answer |-> "none"])
    /\ overlapped' = (overlapped \/ Overlaps)
    /\ UNCHANGED <<cfgLoaded, file, faults, edited, ui, servers, tip, session>>

\* A mutant of OpenUsers: the working copy starts empty.
OpenUsersEmpty ==
    /\ MayOpen
    /\ made < MaxServers
    /\ modal' = Append(modal, [kind |-> IF cfgLoaded THEN "users" ELSE "error", copy |-> Default,
                               answer |-> "none"])
    /\ overlapped' = (overlapped \/ Overlaps)
    /\ UNCHANGED <<cfg, cfgLoaded, file, faults, edited, ui, servers, tip, session>>

\* onUsers, which wants a configuration.
OpenUsers ==
    /\ MayOpen
    /\ made < MaxServers
    /\ Push(IF cfgLoaded THEN "users" ELSE "error")
    /\ overlapped' = (overlapped \/ Overlaps)
    /\ UNCHANGED <<cfg, cfgLoaded, file, faults, edited, ui, servers, tip, session>>

\* OK: the dialog puts what it shows, its copy or what the user made of it, into
\* cfg_; its modal loop ends when the dialogs above it are gone.
AnswerOk(i) ==
    /\ Waiting
    /\ modal[i].answer = "none"
    /\ \/ /\ modal[i].kind = "options"
          /\ \E o \in Options :
                /\ cfg' = [cfg EXCEPT !.options = o]
                /\ edited' = IF o = modal[i].copy.options THEN edited ELSE [edited EXCEPT !.options = o]
       \/ /\ modal[i].kind = "users"
          /\ \E u \in Users :
                /\ cfg' = [cfg EXCEPT !.users = u]
                /\ edited' = IF u = modal[i].copy.users THEN edited ELSE [edited EXCEPT !.users = u]
    /\ modal' = [modal EXCEPT ![i].answer = "ok"]
    /\ UNCHANGED <<cfgLoaded, file, faults, overlapped, ui, servers, tip, session>>

Dismiss(i) ==
    /\ Waiting
    /\ modal[i].answer = "none"
    /\ modal' = [modal EXCEPT ![i].answer = "cancel"]
    /\ UNCHANGED <<config, ui, servers, tip, session>>

\* A dialog that was cancelled returns, and so does a message box.
ReturnFromModal ==
    /\ Waiting
    /\ modal # <<>> /\ Top.answer = "cancel"
    /\ modal' = Pop
    /\ UNCHANGED <<config, ui, servers, tip, session>>

\* One that was confirmed returns, and saveConfig writes cfg_ over the file.
\* Nothing looks at whether the write succeeds.
SaveAfterOk ==
    /\ Waiting
    /\ modal # <<>> /\ Top.answer = "ok"
    /\ made < MaxServers
    /\ \/ file' = cfg /\ UNCHANGED faults
       \/ faults < MaxFaults /\ faults' = faults + 1 /\ file' = Unusable
    /\ cfgLoaded' = TRUE
    /\ ui' = "restarting"
    /\ modal' = Pop
    /\ UNCHANGED <<cfg, edited, overlapped, servers, tip, session>>

\* If the file cannot be opened the user is told and cfg_ stays as edited.
SaveFails ==
    /\ Waiting
    /\ modal # <<>> /\ Top.answer = "ok"
    /\ faults < MaxFaults
    /\ faults' = faults + 1
    /\ modal' = Append(Pop, [kind |-> "error", copy |-> cfg, answer |-> "none"])
    /\ UNCHANGED <<cfg, cfgLoaded, file, edited, overlapped, ui, servers, tip, session>>

\* Exit: the window is destroyed, with the dialogs it owns; the loops end.
Exit ==
    /\ Waiting
    /\ ui' = "exiting"
    /\ modal' = <<>>
    /\ UNCHANGED <<config, servers, tip, session>>

-----------------------------------------------------------------------------
(* The ServerApp: stopServer, startServer and its thread.                  *)

\* updateTooltip.
Tip == IF ~cfgLoaded THEN "no config" ELSE IF running' THEN "listening" ELSE "stopped"

\* What follows stopServer.
After == IF ui \in {"restarting", "joining to restart"} THEN "starting" ELSE "gone"

StopNothing ==
    /\ ui \in {"restarting", "exiting"}
    /\ server = 0
    /\ ui' = After
    /\ UNCHANGED <<config, modal, servers, tip, session>>

\* A mutant of StopServer: the accept loop is not told.
StopServerSilently ==
    /\ ui \in {"restarting", "exiting"}
    /\ server # 0
    /\ ui' = IF ui = "exiting" THEN "joining to exit" ELSE "joining to restart"
    /\ UNCHANGED <<config, modal, servers, tip, session>>

StopServer ==
    /\ ui \in {"restarting", "exiting"}
    /\ server # 0
    /\ stopped' = stopped \cup {server}
    /\ ui' = IF ui = "exiting" THEN "joining to exit" ELSE "joining to restart"
    /\ UNCHANGED <<config, modal, server, made, thread, served, running, tip, session>>

\* A mutant of JoinServer: the thread is not waited for.
ResetServer ==
    /\ ui \in {"joining to exit", "joining to restart"}
    /\ server' = 0
    /\ running' = FALSE
    /\ tip' = Tip
    /\ ui' = After
    /\ UNCHANGED <<config, modal, made, thread, served, stopped, session>>

\* A mutant of JoinServer: server_ is not reset.
JoinServerKeeps ==
    /\ ui \in {"joining to exit", "joining to restart"}
    /\ thread[server] = "returned"
    /\ running' = FALSE
    /\ tip' = Tip
    /\ ui' = After
    /\ UNCHANGED <<config, modal, server, made, thread, served, stopped, session>>

\* The thread is joined and server_ reset; its sessions are not asked.
JoinServer ==
    /\ ui \in {"joining to exit", "joining to restart"}
    /\ thread[server] = "returned"
    /\ server' = 0
    /\ running' = FALSE
    /\ tip' = Tip
    /\ ui' = After
    /\ UNCHANGED <<config, modal, made, thread, served, stopped, session>>

Starting == ui \in {"launching", "starting"}

\* A mutant of StartServer: it is made without the users.
StartServerWithDefaults ==
    /\ Starting
    /\ made < MaxServers
    /\ made' = made + 1
    /\ server' = made'
    /\ served' = [served EXCEPT ![made'] = [cfg EXCEPT !.users = NoUsers]]
    /\ thread' = [thread EXCEPT ![made'] = "booting"]
    /\ running' = TRUE
    /\ ui' = IF ui = "launching" THEN "launched" ELSE "sleeping"
    /\ UNCHANGED <<config, modal, stopped, tip, session>>

StartServer ==
    /\ Starting
    /\ made < MaxServers
    /\ made' = made + 1
    /\ server' = made'
    /\ served' = [served EXCEPT ![made'] = cfg]
    /\ thread' = [thread EXCEPT ![made'] = "booting"]
    /\ running' = TRUE
    /\ ui' = IF ui = "launching" THEN "launched" ELSE "sleeping"
    /\ UNCHANGED <<config, modal, stopped, tip, session>>

\* Sleep(150) is over; a restart ends with the message that it was done, the
\* start when the program is launched does not.
Started ==
    /\ ui \in {"launched", "sleeping"}
    /\ tip' = IF running THEN "listening" ELSE "stopped"
    /\ ui' = "waiting"
    /\ IF ui = "launched" THEN UNCHANGED modal ELSE Push("done")
    /\ UNCHANGED <<config, servers, session>>

\* run() on the thread of object g: it listens, or refuses, or was stopped
\* before it listened; and it returns once it was stopped.
Listen(g) ==
    /\ thread[g] = "booting"
    /\ thread' = [thread EXCEPT ![g] = "listening"]
    /\ UNCHANGED <<config, ui, modal, server, made, served, stopped, running, tip, session>>

RunReturns(g) ==
    /\ \/ thread[g] = "booting" /\ BootMayFail
       \/ thread[g] = "listening" /\ g \in stopped
    /\ thread' = [thread EXCEPT ![g] = "returned"]
    /\ running' = FALSE
    /\ UNCHANGED <<config, ui, modal, server, made, served, stopped, tip, session>>

\* A connection is admitted to a detached thread, which works on the object
\* until its loop, its clean-up and its last audit row are done.
SessionStarts(s, g) ==
    /\ session[s] = 0
    /\ thread[g] = "listening"
    /\ session' = [session EXCEPT ![s] = g]
    /\ UNCHANGED <<config, ui, modal, servers, tip>>

SessionEnds(s) ==
    /\ session[s] # 0
    /\ session' = [session EXCEPT ![s] = 0]
    /\ UNCHANGED <<config, ui, modal, servers, tip>>

Lifecycle == StopNothing \/ StopServer \/ JoinServer \/ StartServer \/ Started
Return == ReturnFromModal \/ SaveAfterOk \/ SaveFails
Command == \/ OpenOptions \/ OpenUsers \/ Exit
           \/ \E i \in 1 .. Len(modal) : AnswerOk(i) \/ Dismiss(i)
ServerThread == \E g \in Ids : Listen(g) \/ RunReturns(g)
SessionThread == \E s \in Sessions : SessionEnds(s) \/ \E g \in Ids : SessionStarts(s, g)

Next == Lifecycle \/ Return \/ Command \/ ServerThread \/ SessionThread

Spec == Init /\ [][Next]_vars

\* The UI thread and the server's are scheduled; a ServerApp that is told to
\* stop returns from run() (ServerApp's StopReturns).  The user owes nothing.
FairSpec == Spec /\ WF_vars(Lifecycle) /\ WF_vars(ServerThread)

-----------------------------------------------------------------------------
(* Properties.                                                             *)

UIPlaces == {"waiting", "restarting", "exiting", "joining to restart", "joining to exit",
             "launching", "launched", "starting", "sleeping", "gone"}

\* Every variable has its type; server_ is the object made last, or null, and
\* null when startServer, which does nothing otherwise, is called.
TypeOK ==
    /\ cfg \in Configs /\ edited \in Configs /\ cfgLoaded \in BOOLEAN
    /\ overlapped \in BOOLEAN
    /\ file \in Configs \cup {Unusable}
    /\ ui \in UIPlaces
    /\ modal \in Seq([kind : {"options", "users", "info", "error", "done"}, copy : Configs,
                      answer : {"none", "ok", "cancel"}])
    /\ made \in 0 .. MaxServers /\ server \in {0, made}
    /\ Starting => server = 0
    /\ thread \in [Ids -> {"none", "booting", "listening", "returned"}]
    /\ served \in [Ids -> Configs]
    /\ stopped \subseteq 1 .. made
    /\ running \in BOOLEAN
    /\ tip \in {"starting", "no config", "listening", "stopped"}
    /\ session \in [Sessions -> 0 .. made]
    /\ faults \in 0 .. MaxFaults

\* Two ServerApps never run at a time: the port and the audit log are free when
\* the next one boots, whatever dialogs the restart is nested in.
OneServerRuns ==
    \A g, h \in Ids : thread[g] \in {"booting", "listening"} /\ thread[h] \in {"booting", "listening"}
                        => g = h

Unsaved == \E i \in 1 .. Len(modal) : modal[i].answer = "ok"

\* When the UI thread is waiting and no confirmed dialog is still to return, the
\* server there is was made from the configuration in memory, and that is what
\* is on disk - as long as every save succeeded.
ServesWhatWasSaved ==
    Waiting /\ ~Unsaved /\ faults = 0 /\ cfgLoaded =>
        server # 0 /\ served[server] = cfg /\ file = cfg

\* Exit ends the program, at whatever point the server's thread is.
ExitCompletes == (ui = "exiting") ~> (ui = "gone")

\* As long as there is one dialog at a time and every save succeeds, nothing
\* undoes an edit that was made before: cfg_ is what the user typed last, of each
\* kind.  (Of two dialogs, the one confirmed last puts back the copy it was opened
\* with; and before any file has loaded, Options starts again from the defaults
\* after a save that failed.)
EditsStay == ~overlapped /\ faults = 0 => cfg = edited
=============================================================================
