--------------------------- MODULE TrayAppProofs ---------------------------
(***************************************************************************)
(* Theorems about TrayApp, for every number of ServerApps made, of dialogs *)
(* up at a time, of session threads and of failing saves.                  *)
(***************************************************************************)
EXTENDS TrayApp, SequenceTheorems, TLAPS

USE TrayAssumption
USE DEF config, servers

Modals == [kind : {"options", "users", "info", "error", "done"}, copy : Configs,
           answer : {"none", "ok", "cancel"}]

IsDialog(m) == m.kind \in {"options", "users"}

-----------------------------------------------------------------------------
(* How the stack of dialogs and messages changes.                          *)

LEMMA PushModal ==
    ASSUME modal \in Seq(Modals), NEW m \in Modals, modal' = Append(modal, m)
    PROVE  /\ modal' \in Seq(Modals) /\ Len(modal') = Len(modal) + 1
           /\ modal'[Len(modal')] = m
           /\ \A i \in 1 .. Len(modal) : modal'[i] = modal[i]
  OBVIOUS

LEMMA PopModal ==
    ASSUME modal \in Seq(Modals), modal # <<>>
    PROVE  /\ Top \in Modals /\ Pop \in Seq(Modals) /\ Len(Pop) = Len(modal) - 1
           /\ \A i \in 1 .. Len(Pop) : Pop[i] = modal[i]
<1>1. Len(modal) \in Nat \ {0} /\ \A i \in 1 .. Len(modal) : modal[i] \in Modals
  OBVIOUS
<1> DEFINE n == Len(modal) - 1
<1>2. n \in Int /\ n >= 0 /\ \A i \in 1 .. n : modal[i] \in Modals
  BY <1>1
<1> HIDE DEF n
<1>3. /\ SubSeq(modal, 1, n) \in Seq(Modals)
      /\ Len(SubSeq(modal, 1, n)) = IF 1 <= n THEN n - 1 + 1 ELSE 0
      /\ \A i \in 1 .. n - 1 + 1 : SubSeq(modal, 1, n)[i] = modal[1 + i - 1]
  BY <1>2, SubSeqProperties
<1>4. Pop = SubSeq(modal, 1, n)
  BY DEF Pop, n
<1>5. /\ Pop \in Seq(Modals) /\ Len(Pop) = n
      /\ \A i \in 1 .. n : Pop[i] = modal[i]
  BY <1>2, <1>3, <1>4
<1> QED
  BY <1>1, <1>5 DEF Top, n

LEMMA AnswerModal ==
    ASSUME modal \in Seq(Modals), NEW i \in 1 .. Len(modal), NEW a \in {"none", "ok", "cancel"},
           modal' = [modal EXCEPT ![i].answer = a]
    PROVE  /\ modal' \in Seq(Modals) /\ Len(modal') = Len(modal)
           /\ modal'[i].kind = modal[i].kind /\ modal'[i].copy = modal[i].copy
           /\ modal'[i].answer = a
           /\ \A j \in 1 .. Len(modal) : j # i => modal'[j] = modal[j]
<1> DEFINE m == [modal[i] EXCEPT !.answer = a]
<1>1. modal[i] \in Modals
  OBVIOUS
<1>2. m \in Modals /\ m.kind = modal[i].kind /\ m.copy = modal[i].copy /\ m.answer = a
  BY <1>1 DEF Modals
<1>3. modal' = [modal EXCEPT ![i] = m]
  OBVIOUS
<1> HIDE DEF m
<1>4. modal' \in Seq(Modals) /\ Len(modal') = Len(modal) /\ modal'[i] = m
  BY <1>2, <1>3
<1>5. \A j \in 1 .. Len(modal) : j # i => modal'[j] = modal[j]
  BY <1>3
<1> QED
  BY <1>2, <1>4, <1>5

-----------------------------------------------------------------------------
(* Types, and the one object that runs.                                    *)

\* Only server_ may have its thread in run(), and whoever joins has one to join.
OnlyServerRuns ==
    /\ \A g \in Ids : thread[g] \in {"booting", "listening"} => g = server
    /\ ui \in {"joining to exit", "joining to restart"} => server # 0

\* The type invariant in three parts: what is configured, what is on the screen,
\* and the objects.
Settings ==
    /\ cfg \in Configs /\ edited \in Configs /\ cfgLoaded \in BOOLEAN
    /\ overlapped \in BOOLEAN
    /\ file \in Configs \cup {Unusable}
    /\ faults \in 0 .. MaxFaults

Screen ==
    /\ ui \in UIPlaces
    /\ modal \in Seq(Modals)
    /\ running \in BOOLEAN
    /\ tip \in {"starting", "no config", "listening", "stopped"}

Objects ==
    /\ made \in 0 .. MaxServers /\ server \in {0, made}
    /\ Starting => server = 0
    /\ thread \in [Ids -> {"none", "booting", "listening", "returned"}]
    /\ served \in [Ids -> Configs]
    /\ stopped \subseteq 1 .. made
    /\ session \in [Sessions -> 0 .. made]
    /\ OnlyServerRuns

TypeInv == Settings /\ Screen /\ Objects

LEMMA TypeSettings ==
    ASSUME TypeInv, [Next]_vars
    PROVE  Settings'
<1> USE DEF TypeInv, Settings
<1>1. CASE OpenOptions
  BY <1>1 DEF OpenOptions, Default, Configs, Overlaps
<1>2. CASE OpenUsers
  BY <1>2 DEF OpenUsers, Overlaps
<1>3. ASSUME NEW i \in 1 .. Len(modal), AnswerOk(i)
      PROVE  Settings'
  <2>1. cfg' \in Configs /\ edited' \in Configs
    <3>1. \A c \in Configs, o \in Options, u \in Users :
              [c EXCEPT !.options = o] \in Configs /\ [c EXCEPT !.users = u] \in Configs
      BY DEF Configs
    <3> QED
      BY <1>3, <3>1 DEF AnswerOk
  <2> QED
    BY <1>3, <2>1 DEF AnswerOk
<1>4. CASE SaveAfterOk \/ SaveFails
  <2>1. /\ UNCHANGED <<cfg, edited, overlapped>> /\ cfgLoaded' \in BOOLEAN
        /\ file' \in {file, cfg, Unusable}
    BY <1>4 DEF SaveAfterOk, SaveFails
  <2>2. faults' = faults \/ (faults < MaxFaults /\ faults' = faults + 1)
    BY <1>4 DEF SaveAfterOk, SaveFails
  <2>3. faults' \in 0 .. MaxFaults
    BY <2>2
  <2> QED
    BY <2>1, <2>3
<1>5. CASE UNCHANGED config
  BY <1>5
<1> QED
  BY <1>1, <1>2, <1>3, <1>4, <1>5
  DEF Next, vars, Command, Return, Lifecycle, ServerThread, SessionThread, Exit, Dismiss,
      ReturnFromModal, StopNothing, StopServer, JoinServer, StartServer, Started, Listen,
      RunReturns, SessionStarts, SessionEnds

LEMMA TypeScreen ==
    ASSUME TypeInv, [Next]_vars
    PROVE  Screen'
<1> USE DEF TypeInv, Screen
<1>0. \A k \in {"options", "users", "info", "error", "done"}, c \in Configs :
          [kind |-> k, copy |-> c, answer |-> "none"] \in Modals
  BY DEF Modals
<1>1. modal' \in Seq(Modals)
  <2>1. CASE OpenOptions
    <3>1. cfg' \in Configs
      BY <2>1, TypeSettings DEF Settings
    <3> QED
      BY <1>0, <2>1, <3>1, PushModal DEF OpenOptions
  <2>2. CASE OpenUsers \/ Started
    BY <1>0, <2>2, PushModal DEF OpenUsers, Started, Push, Settings
  <2>3. CASE Exit
    BY <2>3, EmptySeq DEF Exit
  <2>4. ASSUME NEW i \in 1 .. Len(modal), AnswerOk(i) \/ Dismiss(i)
        PROVE  modal' \in Seq(Modals)
    BY <2>4, AnswerModal DEF AnswerOk, Dismiss
  <2>5. CASE ReturnFromModal \/ SaveAfterOk
    BY <2>5, PopModal DEF ReturnFromModal, SaveAfterOk
  <2>6. CASE SaveFails
    <3>1. Pop \in Seq(Modals)
      BY <2>6, PopModal DEF SaveFails
    <3> DEFINE m == [kind |-> "error", copy |-> cfg, answer |-> "none"]
    <3>2. m \in Modals /\ modal' = Append(Pop, m)
      BY <1>0, <2>6 DEF SaveFails, Settings
    <3> HIDE DEF m
    <3> QED
      BY <3>1, <3>2, AppendProperties
  <2>7. CASE UNCHANGED modal
    BY <2>7
  <2> QED
    BY <2>1, <2>2, <2>3, <2>4, <2>5, <2>6, <2>7
    DEF Next, vars, Command, Return, Lifecycle, ServerThread, SessionThread, StopNothing,
        StopServer, JoinServer, StartServer, Listen, RunReturns, SessionStarts, SessionEnds
<1>2. ui' \in UIPlaces
  <2>1. ui' \in {ui, "exiting", "restarting"} \cup UIPlaces
    <3>1. CASE Command \/ Return
      BY <3>1 DEF Command, Return, OpenOptions, OpenUsers, AnswerOk, SaveAfterOk, SaveFails,
                  Exit, Dismiss, ReturnFromModal
    <3>2. CASE Lifecycle
      BY <3>2 DEF Lifecycle, StopNothing, StopServer, JoinServer, StartServer, Started, After,
                  UIPlaces
    <3>3. CASE ServerThread \/ SessionThread \/ UNCHANGED vars
      BY <3>3 DEF vars, ServerThread, SessionThread, Listen, RunReturns, SessionStarts,
                  SessionEnds
    <3> QED
      BY <3>1, <3>2, <3>3 DEF Next
  <2> QED
    BY <2>1 DEF UIPlaces
<1>3. running' \in BOOLEAN /\ tip' \in {"starting", "no config", "listening", "stopped"}
  <2>1. CASE Command \/ Return
    BY <2>1 DEF Command, Return, OpenOptions, OpenUsers, AnswerOk, SaveAfterOk, SaveFails,
                Exit, Dismiss, ReturnFromModal
  <2>2. CASE Lifecycle
    BY <2>2 DEF Lifecycle, StopNothing, StopServer, JoinServer, StartServer, Started, Tip
  <2>3. CASE ServerThread \/ SessionThread \/ UNCHANGED vars
    BY <2>3 DEF vars, ServerThread, SessionThread, Listen, RunReturns, SessionStarts, SessionEnds
  <2> QED
    BY <2>1, <2>2, <2>3 DEF Next
<1> QED
  BY <1>1, <1>2, <1>3

\* The actions of the UI thread that leave the objects alone.
LEMMA TypeObjectsAlone ==
    ASSUME TypeInv, UNCHANGED <<server, made, thread, served, stopped, session>>,
           Starting' => Starting \/ server = 0,
           ui' \in {"joining to exit", "joining to restart"} => ui' = ui \/ server # 0
    PROVE  Objects'
  BY DEF TypeInv, Objects, OnlyServerRuns

LEMMA TypeObjects ==
    ASSUME TypeInv, [Next]_vars
    PROVE  Objects'
<1>1. CASE Command \/ Return \/ StopNothing \/ Started \/ UNCHANGED vars
  <2>1. UNCHANGED <<server, made, thread, served, stopped, session>>
    BY <1>1
    DEF vars, Command, Return, OpenOptions, OpenUsers, Exit, AnswerOk, Dismiss, ReturnFromModal,
        SaveAfterOk, SaveFails, StopNothing, Started
  <2>2. \/ ui' \in {ui, "exiting", "restarting", "waiting", "gone"}
        \/ server = 0 /\ ui' = "starting"
    <3>1. CASE StopNothing
      BY <3>1 DEF StopNothing, After
    <3>2. CASE Exit \/ SaveAfterOk \/ Started
      BY <3>2 DEF Exit, SaveAfterOk, Started
    <3>3. CASE UNCHANGED ui
      BY <3>3
    <3> QED
      BY <1>1, <3>1, <3>2, <3>3
      DEF vars, Command, Return, OpenOptions, OpenUsers, AnswerOk, Dismiss, ReturnFromModal, SaveFails
  <2> QED
    BY <2>1, <2>2, TypeObjectsAlone DEF Starting
<1>2. CASE StopServer
  <2>1. server \in 1 .. made
    <3>1. server # 0 /\ server \in {0, made} /\ made \in 0 .. MaxServers /\ MaxServers \in Nat
      BY <1>2 DEF StopServer, TypeInv, Objects
    <3> QED
      BY <3>1
  <2>2. stopped' \subseteq 1 .. made
    BY <1>2, <2>1 DEF StopServer, TypeInv, Objects
  <2> QED
    BY <1>2, <2>2 DEF StopServer, TypeInv, Objects, OnlyServerRuns, Starting
<1>3. CASE JoinServer
  <2>1. ui' \in {"starting", "gone"} /\ server' = 0 /\ UNCHANGED <<made, thread, served, stopped, session>>
    BY <1>3 DEF JoinServer, After
  <2>2. \A g \in Ids : thread[g] \notin {"booting", "listening"}
    BY <1>3 DEF JoinServer, TypeInv, Objects, OnlyServerRuns
  <2> QED
    BY <2>1, <2>2 DEF TypeInv, Objects, OnlyServerRuns
<1>4. CASE StartServer
  <2>1. /\ made' = made + 1 /\ server' = made' /\ made < MaxServers
        /\ Starting /\ ~Starting' /\ ui' \in {"launched", "sleeping"}
        /\ served' = [served EXCEPT ![made'] = cfg]
        /\ thread' = [thread EXCEPT ![made'] = "booting"]
        /\ UNCHANGED <<stopped, session>>
    BY <1>4 DEF StartServer, Starting
  <2>2. made \in 0 .. MaxServers /\ MaxServers \in Nat
    BY DEF TypeInv, Objects
  <2>3. made' \in Ids /\ made' \in 0 .. MaxServers /\ 1 .. made \subseteq 1 .. made'
        /\ 0 .. made \subseteq 0 .. made'
    BY <2>1, <2>2 DEF Ids
  <2>4. server = 0 /\ 0 \notin Ids
    BY <2>1 DEF Ids, TypeInv, Objects
  <2>5. \A g \in Ids : thread[g] \notin {"booting", "listening"}
    BY <2>4 DEF TypeInv, Objects, OnlyServerRuns
  <2> HIDE TrayAssumption
  <2>6. OnlyServerRuns'
    BY <2>1, <2>3, <2>5 DEF TypeInv, Objects, OnlyServerRuns
  <2>7. stopped' \subseteq 1 .. made' /\ session' \in [Sessions -> 0 .. made']
    BY <2>1, <2>3 DEF TypeInv, Objects
  <2>8. /\ served' \in [Ids -> Configs]
        /\ thread' \in [Ids -> {"none", "booting", "listening", "returned"}]
    BY <2>1, <2>3 DEF TypeInv, Objects, Settings
  <2> QED
    BY <2>1, <2>3, <2>6, <2>7, <2>8 DEF Objects
<1>5. ASSUME NEW g \in Ids, Listen(g) \/ RunReturns(g)
      PROVE  Objects'
  <2>1. /\ UNCHANGED <<ui, server, made, served, stopped, session>>
        /\ thread[g] \in {"booting", "listening"}
        /\ \E p \in {"listening", "returned"} : thread' = [thread EXCEPT ![g] = p]
    BY <1>5 DEF Listen, RunReturns
  <2> QED
    BY <2>1 DEF TypeInv, Objects, OnlyServerRuns, Starting
<1>6. CASE SessionThread
  <2>1. PICK s \in Sessions, g \in 0 .. made :
            /\ session' = [session EXCEPT ![s] = g]
            /\ UNCHANGED <<ui, server, made, thread, served, stopped>>
    <3>1. ASSUME NEW s \in Sessions, NEW g \in Ids, SessionStarts(s, g)
          PROVE  g \in 0 .. made
      <4>1. g = server /\ server \in {0, made} /\ made \in 0 .. MaxServers /\ MaxServers \in Nat
        BY <3>1 DEF SessionStarts, TypeInv, Objects, OnlyServerRuns
      <4> QED
        BY <4>1
    <3>2. 0 \in 0 .. made
      <4>1. made \in 0 .. MaxServers /\ MaxServers \in Nat
        BY DEF TypeInv, Objects
      <4> QED
        BY <4>1
    <3> QED
      BY <1>6, <3>1, <3>2 DEF SessionThread, SessionStarts, SessionEnds
  <2> QED
    BY <2>1 DEF TypeInv, Objects, OnlyServerRuns, Starting
<1> QED
  BY <1>1, <1>2, <1>3, <1>4, <1>5, <1>6 DEF Next, Lifecycle, ServerThread

LEMMA TypeStep ==
    ASSUME TypeInv, [Next]_vars
    PROVE  TypeInv'
  BY TypeSettings, TypeScreen, TypeObjects DEF TypeInv

LEMMA TypeInit ==
    ASSUME Init
    PROVE  TypeInv
<1>1. cfg \in Configs /\ Default \in Configs
  BY DEF Init, Default, Configs
<1>2. modal \in Seq(Modals)
  <2>1. [kind |-> "info", copy |-> cfg, answer |-> "none"] \in Modals
    BY <1>1 DEF Modals
  <2> DEFINE m == [kind |-> "info", copy |-> cfg, answer |-> "none"]
  <2>2. modal = <<>> \/ modal = <<m>>
    BY DEF Init
  <2>3. m \in Modals
    BY <2>1
  <2> HIDE DEF m
  <2>4. <<>> \in Seq(Modals)
    BY EmptySeq
  <2>5. <<m>> \in Seq(Modals)
    BY <2>3
  <2> QED
    BY <2>2, <2>4, <2>5
<1>3. 0 \in 0 .. MaxServers /\ 0 \in 0 .. MaxFaults
  BY TrayAssumption
<1>4. Settings
  BY <1>1, <1>3 DEF Init, Settings
<1>5. Screen
  BY <1>2 DEF Init, Screen, UIPlaces
<1>6. Objects
  <2>1. \A s \in Sessions : session[s] \in 0 .. made
    BY DEF Init
  <2> QED
    BY <1>1, <1>3, <2>1 DEF Init, Objects, OnlyServerRuns
<1> QED
  BY <1>4, <1>5, <1>6 DEF TypeInv

\* Every variable has its type.
THEOREM TypeCorrect == Spec => []TypeOK
<1>1. TypeInv => TypeOK
  BY DEF TypeInv, Settings, Screen, Objects, TypeOK, Modals
<1> QED
  BY <1>1, TypeInit, TypeStep, PTL DEF Spec

\* No two ServerApps run at a time.
THEOREM OneServer == Spec => []OneServerRuns
<1>1. TypeInv => OneServerRuns
  BY DEF TypeInv, Objects, OnlyServerRuns, OneServerRuns
<1> QED
  BY <1>1, TypeInit, TypeStep, PTL DEF Spec

-----------------------------------------------------------------------------
(* What a step does to the dialogs that are up.                            *)

\* A confirmed dialog stays confirmed, where it is.
NoneLost ==
    \A i \in 1 .. Len(modal) : modal[i].answer = "ok" =>
        i \in 1 .. Len(modal') /\ modal'[i] = modal[i]

\* There is no dialog that was not there, and none is asked again.
NoNewDialog ==
    \A i \in 1 .. Len(modal') : IsDialog(modal'[i]) =>
        /\ i \in 1 .. Len(modal) /\ IsDialog(modal[i])
        /\ modal'[i].copy = modal[i].copy
        /\ modal'[i].answer = "none" => modal[i].answer = "none"

LEMMA Pushed ==
    ASSUME TypeInv, NEW k \in {"options", "users", "info", "error", "done"}, NEW c \in Configs,
           modal' = Append(modal, [kind |-> k, copy |-> c, answer |-> "none"])
    PROVE  /\ NoneLost /\ Len(modal') = Len(modal) + 1 /\ Len(modal) \in Nat
           /\ modal'[Len(modal')] = [kind |-> k, copy |-> c, answer |-> "none"]
           /\ \A i \in 1 .. Len(modal) : modal'[i] = modal[i]
           /\ k \notin {"options", "users"} => NoNewDialog
<1> DEFINE m == [kind |-> k, copy |-> c, answer |-> "none"]
<1>1. m \in Modals /\ m.kind = k
  BY DEF Modals
<1>2. modal \in Seq(Modals) /\ modal' = Append(modal, m)
  BY DEF TypeInv, Screen
<1> HIDE DEF m
<1>3. /\ Len(modal') = Len(modal) + 1 /\ Len(modal) \in Nat
      /\ modal'[Len(modal')] = m
      /\ \A i \in 1 .. Len(modal) : modal'[i] = modal[i]
  BY <1>1, <1>2, PushModal
<1>4. NoneLost
  BY <1>3 DEF NoneLost
<1>5. k \notin {"options", "users"} => NoNewDialog
  BY <1>1, <1>3 DEF NoNewDialog, IsDialog
<1> QED
  BY <1>3, <1>4, <1>5 DEF m

LEMMA Popped ==
    ASSUME TypeInv, ReturnFromModal \/ SaveAfterOk \/ SaveFails
    PROVE  NoNewDialog /\ (ReturnFromModal => NoneLost)
<1>1. /\ modal \in Seq(Modals) /\ modal # <<>> /\ cfg \in Configs
  BY DEF TypeInv, Screen, Settings, ReturnFromModal, SaveAfterOk, SaveFails
<1>2. /\ Pop \in Seq(Modals) /\ Len(Pop) = Len(modal) - 1 /\ Len(modal) \in Nat
      /\ \A i \in 1 .. Len(Pop) : Pop[i] = modal[i]
  BY <1>1, PopModal
<1>3. CASE modal' = Pop
  <2>1. NoNewDialog
    BY <1>2, <1>3 DEF NoNewDialog
  <2>2. ASSUME ReturnFromModal
        PROVE  NoneLost
    <3>1. modal[Len(modal)].answer = "cancel"
      BY <2>2 DEF ReturnFromModal, Top
    <3> QED
      BY <1>2, <1>3, <3>1 DEF NoneLost
  <2> QED
    BY <2>1, <2>2
<1>4. CASE SaveFails
  <2> DEFINE m == [kind |-> "error", copy |-> cfg, answer |-> "none"]
  <2>1. m \in Modals /\ m.kind = "error" /\ modal' = Append(Pop, m)
    BY <1>1, <1>4 DEF SaveFails, Modals
  <2> HIDE DEF m
  <2>2. /\ Len(modal') = Len(modal) /\ modal'[Len(modal)] = m
        /\ \A i \in 1 .. Len(Pop) : modal'[i] = modal[i]
    BY <1>2, <2>1, AppendProperties
  <2>3. NoNewDialog
    BY <1>2, <2>1, <2>2 DEF NoNewDialog, IsDialog
  <2>4. ~ReturnFromModal
    BY <1>4 DEF ReturnFromModal, SaveFails
  <2> QED
    BY <2>3, <2>4
<1> QED
  BY <1>3, <1>4 DEF ReturnFromModal, SaveAfterOk

LEMMA Answered ==
    ASSUME TypeInv, NEW i \in 1 .. Len(modal), AnswerOk(i) \/ Dismiss(i)
    PROVE  /\ NoNewDialog /\ NoneLost /\ Len(modal') = Len(modal)
           /\ AnswerOk(i) => modal'[i].answer = "ok" /\ modal'[i].kind = modal[i].kind
           /\ \A j \in 1 .. Len(modal) : j # i => modal'[j] = modal[j]
<1>1. modal \in Seq(Modals) /\ modal[i].answer = "none"
  BY DEF TypeInv, Screen, AnswerOk, Dismiss
<1>2. PICK a \in {"ok", "cancel"} :
        /\ modal' = [modal EXCEPT ![i].answer = a]
        /\ AnswerOk(i) => a = "ok"
  <2>1. ASSUME AnswerOk(i)
        PROVE  modal' = [modal EXCEPT ![i].answer = "ok"]
    BY <2>1 DEF AnswerOk
  <2>2. ASSUME Dismiss(i)
        PROVE  modal' = [modal EXCEPT ![i].answer = "cancel"]
    BY <2>2 DEF Dismiss
  <2>3. CASE AnswerOk(i)
    BY <2>1, <2>3
  <2>4. CASE ~AnswerOk(i)
    BY <2>2, <2>4
  <2> QED
    BY <2>3, <2>4
<1>3. /\ Len(modal') = Len(modal)
      /\ modal'[i].kind = modal[i].kind /\ modal'[i].copy = modal[i].copy /\ modal'[i].answer = a
      /\ \A j \in 1 .. Len(modal) : j # i => modal'[j] = modal[j]
  BY <1>1, <1>2, AnswerModal
<1>4. NoNewDialog
  BY <1>1, <1>3 DEF NoNewDialog, IsDialog
<1>5. NoneLost
  BY <1>1, <1>3 DEF NoneLost
<1> QED
  BY <1>2, <1>3, <1>4, <1>5

LEMMA DialogsStay ==
    ASSUME TypeInv, [Next]_vars
    PROVE  /\ NoneLost \/ SaveAfterOk \/ SaveFails \/ Exit
           /\ NoNewDialog \/ OpenOptions \/ OpenUsers
<1>1. CASE OpenOptions
  <2>1. cfg' \in Configs
    BY TypeSettings DEF Settings
  <2> QED
    BY <1>1, <2>1, Pushed DEF OpenOptions
<1>2. CASE OpenUsers \/ Started
  <2>1. CASE UNCHANGED modal
    BY <2>1 DEF NoneLost, NoNewDialog
  <2>2. CASE modal' # modal
    <3>1. PICK k \in {"users", "error", "done"} :
              /\ modal' = Append(modal, [kind |-> k, copy |-> cfg, answer |-> "none"])
              /\ OpenUsers \/ k = "done"
      <4>1. CASE OpenUsers
        <5>1. \E k \in {"users", "error"} : k = IF cfgLoaded THEN "users" ELSE "error"
          OBVIOUS
        <5> QED
          BY <4>1, <5>1 DEF OpenUsers, Push
      <4>2. CASE Started
        BY <2>2, <4>2 DEF Started, Push
      <4> QED
        BY <1>2, <4>1, <4>2
    <3>2. cfg \in Configs
      BY DEF TypeInv, Settings
    <3> QED
      BY <3>1, <3>2, Pushed
  <2> QED
    BY <2>1, <2>2
<1>3. CASE Exit
  <2>1. modal' = <<>> /\ Len(<<>>) = 0
    BY <1>3, EmptySeq DEF Exit
  <2>2. NoNewDialog
    BY <2>1 DEF NoNewDialog
  <2> QED
    BY <1>3, <2>2
<1>4. CASE Return
  BY <1>4, Popped DEF Return
<1>5. ASSUME NEW i \in 1 .. Len(modal), AnswerOk(i) \/ Dismiss(i)
      PROVE  NoneLost /\ NoNewDialog
  BY <1>5, Answered
<1>6. CASE UNCHANGED modal
  BY <1>6 DEF NoneLost, NoNewDialog
<1> QED
  BY <1>1, <1>2, <1>3, <1>4, <1>5, <1>6
  DEF Next, vars, Command, Lifecycle, ServerThread, SessionThread, StopNothing, StopServer,
      JoinServer, StartServer, Listen, RunReturns, SessionStarts, SessionEnds

-----------------------------------------------------------------------------
(* What is served is what was saved.                                       *)

\* Between a save and the end of the restart it begins, and at the first start.
Restarting ==
    ui \in {"restarting", "joining to restart", "launching", "launched", "starting", "sleeping"}

\* A restart has a configuration, which is on disk unless a save went wrong, and
\* while startServer waits the object it made serves it.
RestartServesCfg ==
    /\ Restarting => cfgLoaded
    /\ Restarting /\ faults = 0 => file = cfg
    /\ ui \in {"launched", "sleeping"} => server # 0 /\ served[server] = cfg

ServeInv == RestartServesCfg /\ ServesWhatWasSaved

LEMMA NeverBelow ==
    ASSUME TypeInv
    PROVE  faults + 1 # 0
<1>1. faults \in 0 .. MaxFaults /\ MaxFaults \in Nat
  BY DEF TypeInv, Settings
<1> QED
  BY <1>1

LEMMA RestartStep ==
    ASSUME TypeInv, RestartServesCfg, [Next]_vars
    PROVE  RestartServesCfg'
<1> USE DEF RestartServesCfg, Restarting
<1>1. CASE SaveAfterOk
  <2>1. faults + 1 # 0
    BY NeverBelow
  <2> QED
    BY <1>1, <2>1 DEF SaveAfterOk
<1>2. CASE Command \/ ReturnFromModal \/ SaveFails \/ Started
  <2>1. ui' \in {"waiting", "exiting"}
    BY <1>2 DEF Command, OpenOptions, OpenUsers, Exit, AnswerOk, Dismiss, ReturnFromModal,
                SaveFails, Started, Waiting, MayOpen
  <2> QED
    BY <2>1
<1>3. CASE StopNothing \/ StopServer \/ JoinServer
  <2>1. UNCHANGED config /\ ui' \notin {"launched", "sleeping"} /\ (Restarting' => Restarting)
    BY <1>3 DEF StopNothing, StopServer, JoinServer, After
  <2> QED
    BY <2>1
<1>4. CASE StartServer
  <2>0. Restarting /\ UNCHANGED config
    BY <1>4 DEF StartServer, Starting
  <2>1. /\ made' = made + 1 /\ server' = made' /\ made < MaxServers
        /\ served' = [served EXCEPT ![made'] = cfg]
    BY <1>4 DEF StartServer
  <2>2. made \in 0 .. MaxServers /\ MaxServers \in Nat /\ served \in [Ids -> Configs]
    BY DEF TypeInv, Objects
  <2>3. made' \in Ids /\ made' # 0
    <3> HIDE DEF RestartServesCfg, Restarting
    <3> QED
      BY <2>1, <2>2 DEF Ids
  <2> HIDE TrayAssumption
  <2>4. server' # 0 /\ served'[server'] = cfg
    BY <2>1, <2>2, <2>3
  <2> QED
    BY <2>0, <2>4
<1>5. CASE ServerThread \/ SessionThread \/ UNCHANGED vars
  <2>1. UNCHANGED <<config, ui, server, served>>
    BY <1>5 DEF vars, ServerThread, SessionThread, Listen, RunReturns, SessionStarts, SessionEnds
  <2> QED
    BY <2>1
<1> QED
  BY <1>1, <1>2, <1>3, <1>4, <1>5 DEF Next, Lifecycle, Return

LEMMA UnsavedStays ==
    ASSUME NoneLost, Unsaved
    PROVE  Unsaved'
  BY DEF NoneLost, Unsaved

LEMMA ServeStep ==
    ASSUME TypeInv, ServeInv, [Next]_vars
    PROVE  ServeInv'
<1> USE DEF ServesWhatWasSaved, Waiting
<1>1. RestartServesCfg'
  BY RestartStep DEF ServeInv
<1>2. ServesWhatWasSaved'
  <2>1. CASE SaveAfterOk \/ SaveFails \/ Exit
    <3>1. faults + 1 # 0
      BY NeverBelow
    <3> QED
      BY <2>1, <3>1 DEF SaveAfterOk, SaveFails, Exit
  <2>2. CASE Started
    BY <2>2 DEF Started, ServeInv, RestartServesCfg, Restarting
  <2>3. ASSUME NEW i \in 1 .. Len(modal), AnswerOk(i)
        PROVE  ServesWhatWasSaved'
    <3>1. Len(modal') = Len(modal) /\ modal'[i].answer = "ok"
      BY <2>3, Answered
    <3>2. Unsaved'
      BY <3>1 DEF Unsaved
    <3> QED
      BY <3>2
  <2>4. CASE NoneLost /\ UNCHANGED <<file, faults, server, served, cfgLoaded, ui>> /\ (cfgLoaded => UNCHANGED cfg)
    BY <2>4, UnsavedStays DEF ServeInv
  <2>5. CASE ui' # "waiting"
    BY <2>5
  <2>6. CASE OpenOptions \/ OpenUsers \/ ReturnFromModal \/ ServerThread \/ SessionThread \/ UNCHANGED vars
    <3>1. /\ UNCHANGED <<file, faults, server, served, cfgLoaded, ui>>
          /\ cfgLoaded => UNCHANGED cfg
      BY <2>6 DEF OpenOptions, OpenUsers, ReturnFromModal, vars, ServerThread, SessionThread,
                  Listen, RunReturns, SessionStarts, SessionEnds
    <3>2. CASE SaveAfterOk \/ SaveFails \/ Exit
      BY <2>1, <3>2
    <3> QED
      BY <2>4, <3>1, <3>2, DialogsStay
  <2>7. ASSUME NEW i \in 1 .. Len(modal), Dismiss(i)
        PROVE  ServesWhatWasSaved'
    BY <2>4, <2>7, Answered DEF Dismiss
  <2>8. CASE StopNothing \/ StopServer \/ JoinServer \/ StartServer
    <3>1. ui' # "waiting"
      BY <2>8 DEF StopNothing, StopServer, JoinServer, StartServer, After
    <3> QED
      BY <2>5, <3>1
  <2> QED
    BY <2>1, <2>2, <2>3, <2>6, <2>7, <2>8 DEF Next, Lifecycle, Return, Command
<1> QED
  BY <1>1, <1>2 DEF ServeInv

LEMMA ServeInit ==
    ASSUME Init
    PROVE  ServeInv
  BY DEF Init, ServeInv, RestartServesCfg, Restarting, ServesWhatWasSaved, Waiting

\* When the UI thread waits and no confirmed dialog is still to return, the server
\* there is was made from the configuration in memory, which is the one on disk.
THEOREM ServesTheSaved == Spec => []ServesWhatWasSaved
<1>1. ServeInv => ServesWhatWasSaved
  BY DEF ServeInv
<1> QED
  BY <1>1, TypeInit, TypeStep, ServeInit, ServeStep, PTL DEF Spec

-----------------------------------------------------------------------------
(* No dialog undoes what was typed in another.                             *)

\* As long as no two dialogs were up at a time there is one at most; while every
\* save succeeded its copy is cfg_ until it is confirmed, and without a
\* configuration cfg_ holds the defaults until then.
OneDialog ==
    ~overlapped =>
        \A i, j \in 1 .. Len(modal) : IsDialog(modal[i]) /\ IsDialog(modal[j]) => i = j

CopiesAreFresh ==
    ~overlapped /\ faults = 0 =>
        \A i \in 1 .. Len(modal) :
            IsDialog(modal[i]) /\ modal[i].answer = "none" => modal[i].copy = cfg

DefaultsUntilOk ==
    ~overlapped /\ faults = 0 /\ ~cfgLoaded /\ Waiting =>
        \/ cfg = Default
        \/ \E i \in 1 .. Len(modal) : IsDialog(modal[i]) /\ modal[i].answer = "ok"

EditInv == OneDialog /\ CopiesAreFresh /\ DefaultsUntilOk /\ EditsStay

\* Steps at which no dialog is opened or confirmed.
LEMMA EditsUntouched ==
    ASSUME TypeInv, EditInv, NoNewDialog, UNCHANGED <<cfg, edited, overlapped>>,
           faults' = 0 => faults = 0,
           ~cfgLoaded' /\ Waiting' /\ faults' = 0 => ~cfgLoaded /\ Waiting /\ NoneLost
    PROVE  EditInv'
<1>1. OneDialog'
  BY DEF EditInv, OneDialog, NoNewDialog
<1>2. CopiesAreFresh'
  BY DEF EditInv, CopiesAreFresh, NoNewDialog
<1>3. DefaultsUntilOk'
  <2>1. Default' = Default
    BY DEF Default
  <2> QED
    BY <2>1 DEF EditInv, DefaultsUntilOk, NoneLost
<1>4. EditsStay'
  BY DEF EditInv, EditsStay
<1> QED
  BY <1>1, <1>2, <1>3, <1>4 DEF EditInv

\* A dialog is opened, with cfg_ as its copy.
LEMMA EditsOpened ==
    ASSUME TypeInv, EditInv, NEW k \in {"options", "users", "error"}, cfg' \in Configs,
           modal' = Append(modal, [kind |-> k, copy |-> cfg', answer |-> "none"]),
           overlapped' = (overlapped \/ Overlaps), UNCHANGED <<cfgLoaded, faults, edited, ui>>,
           cfg' = cfg \/ (k = "options" /\ Waiting /\ ~cfgLoaded /\ cfg' = Default)
    PROVE  EditInv'
<1>1. /\ NoneLost /\ Len(modal') = Len(modal) + 1 /\ Len(modal) \in Nat
      /\ modal'[Len(modal')] = [kind |-> k, copy |-> cfg', answer |-> "none"]
      /\ \A i \in 1 .. Len(modal) : modal'[i] = modal[i]
  BY Pushed
<1>2. ~overlapped' => ~overlapped /\ \A i \in 1 .. Len(modal) : ~IsDialog(modal[i])
  BY DEF Overlaps, IsDialog
<1>3. ~overlapped' /\ faults' = 0 => cfg' = cfg
  BY <1>2 DEF EditInv, DefaultsUntilOk
<1>4. OneDialog'
  BY <1>1, <1>2 DEF OneDialog, IsDialog
<1>5. CopiesAreFresh'
  BY <1>1, <1>2 DEF CopiesAreFresh, IsDialog
<1>6. DefaultsUntilOk'
  <2>1. Default' = Default /\ (Waiting' => Waiting)
    BY DEF Default, Waiting
  <2> QED
    BY <1>2, <1>3, <2>1 DEF EditInv, DefaultsUntilOk
<1>7. EditsStay'
  BY <1>2, <1>3 DEF EditInv, EditsStay
<1> QED
  BY <1>4, <1>5, <1>6, <1>7 DEF EditInv

\* A dialog is confirmed.
LEMMA EditsConfirmed ==
    ASSUME TypeInv, EditInv, NEW i \in 1 .. Len(modal), AnswerOk(i)
    PROVE  EditInv'
<1>1. /\ NoNewDialog /\ Len(modal') = Len(modal)
      /\ modal'[i].answer = "ok" /\ modal'[i].kind = modal[i].kind
      /\ \A j \in 1 .. Len(modal) : j # i => modal'[j] = modal[j]
  BY Answered
<1>2. /\ IsDialog(modal[i]) /\ modal[i].answer = "none"
      /\ UNCHANGED <<overlapped, faults, cfgLoaded, ui>>
  BY DEF AnswerOk, IsDialog
<1>3. OneDialog'
  BY <1>1, <1>2 DEF EditInv, OneDialog, NoNewDialog
<1>4. CopiesAreFresh'
  BY <1>1, <1>2 DEF EditInv, OneDialog, CopiesAreFresh, IsDialog
<1>5. DefaultsUntilOk'
  BY <1>1, <1>2 DEF DefaultsUntilOk, IsDialog
<1>6. EditsStay'
  <2> SUFFICES ASSUME ~overlapped, faults = 0
               PROVE  cfg' = edited'
    BY <1>2 DEF EditsStay
  <2>1. modal[i].copy = cfg /\ cfg = edited /\ cfg \in Configs
    BY <1>2 DEF EditInv, CopiesAreFresh, EditsStay, TypeInv, Settings
  <2>2. \A c \in Configs : [c EXCEPT !.options = c.options] = c /\ [c EXCEPT !.users = c.users] = c
    BY DEF Configs
  <2>3. CASE modal[i].kind = "options"
    <3>1. PICK o \in Options :
              /\ cfg' = [cfg EXCEPT !.options = o]
              /\ edited' = IF o = modal[i].copy.options THEN edited ELSE [edited EXCEPT !.options = o]
      BY <2>3 DEF AnswerOk
    <3> QED
      BY <2>1, <2>2, <3>1
  <2>4. CASE modal[i].kind = "users"
    <3>1. PICK u \in Users :
              /\ cfg' = [cfg EXCEPT !.users = u]
              /\ edited' = IF u = modal[i].copy.users THEN edited ELSE [edited EXCEPT !.users = u]
      BY <2>4 DEF AnswerOk
    <3> QED
      BY <2>1, <2>2, <3>1
  <2> QED
    BY <1>2, <2>3, <2>4 DEF IsDialog
<1> QED
  BY <1>3, <1>4, <1>5, <1>6 DEF EditInv

LEMMA EditStep ==
    ASSUME TypeInv, RestartServesCfg, EditInv, [Next]_vars
    PROVE  EditInv'
<1> DEFINE Quiet == /\ UNCHANGED <<cfg, edited, overlapped>>
                    /\ faults' = 0 => faults = 0
                    /\ ~cfgLoaded' /\ Waiting' /\ faults' = 0 => ~cfgLoaded /\ Waiting
<1>0. cfg \in Configs /\ cfg' \in Configs
  BY TypeSettings DEF TypeInv, Settings
<1>1. CASE OpenOptions
  <2>1. cfg' = cfg \/ (Waiting /\ ~cfgLoaded /\ cfg' = Default)
    BY <1>1 DEF OpenOptions, MayOpen
  <2>2. /\ modal' = Append(modal, [kind |-> "options", copy |-> cfg', answer |-> "none"])
        /\ overlapped' = (overlapped \/ Overlaps) /\ UNCHANGED <<cfgLoaded, faults, edited, ui>>
    BY <1>1 DEF OpenOptions
  <2> QED
    BY <1>0, <2>1, <2>2, EditsOpened
<1>2. CASE OpenUsers
  <2>1. PICK k \in {"users", "error"} : k = IF cfgLoaded THEN "users" ELSE "error"
    OBVIOUS
  <2>2. /\ cfg' = cfg /\ modal' = Append(modal, [kind |-> k, copy |-> cfg', answer |-> "none"])
        /\ overlapped' = (overlapped \/ Overlaps) /\ UNCHANGED <<cfgLoaded, faults, edited, ui>>
    BY <1>2, <2>1 DEF OpenUsers, Push
  <2> QED
    BY <1>0, <2>2, EditsOpened
<1>3. CASE SaveAfterOk \/ SaveFails \/ Exit
  <2>1. Quiet /\ ~(~cfgLoaded' /\ Waiting' /\ faults' = 0)
    BY <1>3, NeverBelow DEF SaveAfterOk, SaveFails, Exit, Waiting
  <2>2. NoNewDialog
    <3>1. CASE Exit
      <4>1. ~OpenOptions /\ ~OpenUsers
        BY <3>1 DEF Exit, OpenOptions, OpenUsers, MayOpen, Waiting
      <4> QED
        BY <4>1, DialogsStay
    <3>2. CASE SaveAfterOk \/ SaveFails
      BY <3>2, Popped
    <3> QED
      BY <1>3, <3>1, <3>2
  <2> QED
    BY <2>1, <2>2, EditsUntouched
<1>4. ASSUME NEW i \in 1 .. Len(modal), Dismiss(i)
      PROVE  EditInv'
  <2>1. Quiet
    BY <1>4 DEF Dismiss, Waiting
  <2> QED
    BY <1>4, <2>1, Answered, EditsUntouched
<1>5. CASE ReturnFromModal
  <2>1. Quiet
    BY <1>5 DEF ReturnFromModal, Waiting
  <2> QED
    BY <1>5, <2>1, Popped, EditsUntouched
<1>6. CASE Lifecycle
  <2>1. UNCHANGED config /\ (Waiting' => Restarting)
    BY <1>6 DEF Lifecycle, StopNothing, StopServer, JoinServer, StartServer, Started, After,
                Waiting, Restarting
  <2>2. Quiet /\ ~(~cfgLoaded' /\ Waiting' /\ faults' = 0)
    BY <2>1 DEF RestartServesCfg
  <2>3. NoNewDialog
    <3>1. ~OpenOptions /\ ~OpenUsers
      BY <1>6 DEF Lifecycle, StopNothing, StopServer, JoinServer, StartServer, Started,
                  OpenOptions, OpenUsers, MayOpen, Waiting
    <3> QED
      BY <3>1, DialogsStay
  <2> QED
    BY <2>2, <2>3, EditsUntouched
<1>7. CASE ServerThread \/ SessionThread \/ UNCHANGED vars
  <2>1. UNCHANGED <<config, ui, modal>>
    BY <1>7 DEF vars, ServerThread, SessionThread, Listen, RunReturns, SessionStarts, SessionEnds
  <2>2. NoNewDialog /\ NoneLost
    BY <2>1 DEF NoNewDialog, NoneLost
  <2>3. Quiet
    BY <2>1 DEF Waiting
  <2> QED
    BY <2>2, <2>3, EditsUntouched
<1>8. ASSUME NEW i \in 1 .. Len(modal), AnswerOk(i)
      PROVE  EditInv'
  BY <1>8, EditsConfirmed
<1> QED
  BY <1>1, <1>2, <1>3, <1>4, <1>5, <1>6, <1>7, <1>8 DEF Next, Return, Command

LEMMA EditInit ==
    ASSUME Init
    PROVE  EditInv
<1> DEFINE m == [kind |-> "info", copy |-> cfg, answer |-> "none"]
<1>1. m.kind = "info" /\ (modal = <<>> \/ modal = <<m>>)
  BY DEF Init
<1> HIDE DEF m
<1>2. \A i \in 1 .. Len(modal) : ~IsDialog(modal[i])
  BY <1>1 DEF IsDialog
<1>3. (cfgLoaded \/ cfg = Default) /\ cfg = edited
  BY DEF Init
<1> QED
  BY <1>2, <1>3 DEF EditInv, OneDialog, CopiesAreFresh, DefaultsUntilOk, EditsStay

\* With one dialog at a time and every save succeeding, cfg_ is what the user typed
\* last, of each kind: nothing undoes an edit that was made before.
THEOREM EditsSurvive == Spec => []EditsStay
<1>1. EditInv => EditsStay
  BY DEF EditInv
<1>2. ServeInv => RestartServesCfg
  BY DEF ServeInv
<1> QED
  BY <1>1, <1>2, TypeInit, TypeStep, ServeInit, ServeStep, EditInit, EditStep, PTL DEF Spec

=============================================================================
