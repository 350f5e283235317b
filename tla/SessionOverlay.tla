--------------------------- MODULE SessionOverlay ---------------------------
(***************************************************************************)
(* overlay/SessionOverlay.{h,cpp}: the banner a session thread shows when  *)
(* it starts and hides when it ends, each on a UI thread of its own.       *)
(*                                                                         *)
(* show() starts the UI thread and polls running_ for a second at most;    *)
(* hide() posts WM_OVL_CLOSE to the window the UI thread has published, if *)
(* it has, and joins the thread.  What the banner says, and which of two   *)
(* banners at one place of the screen is on top, are left out.             *)
(***************************************************************************)
CONSTANTS
    Overlays,       \* the SessionOverlay objects, one on each session's stack
    MayTimeOut,     \* the poll of show() may end before running_ is set
    MayFail         \* CreateWindowExW may fail

ASSUME SwitchesAssumption == MayTimeOut \in BOOLEAN /\ MayFail \in BOOLEAN

VARIABLES
    owner,      \* where the session thread is
    ui,         \* where the UI thread is
    running,    \* running_
    hwnd,       \* hwnd_ is not null
    closing,    \* WM_OVL_CLOSE is in the window's queue
    blinkOn,    \* blinkOn_: the banner's dot is bright
    screen      \* the banners that are on the screen

vars == <<owner, ui, running, hwnd, closing, blinkOn, screen>>

OwnerPlaces == {"before", "polling", "live", "posting", "joining", "after"}
UIPlaces == {"none", "creating", "showing", "publishing", "starting", "looping",
             "destroyed", "stopping", "finished"}

Init ==
    /\ owner = [o \in Overlays |-> "before"]
    /\ ui = [o \in Overlays |-> "none"]
    /\ running = [o \in Overlays |-> FALSE]
    /\ hwnd = [o \in Overlays |-> FALSE]
    /\ closing = [o \in Overlays |-> FALSE]
    /\ blinkOn = [o \in Overlays |-> TRUE]
    /\ screen = {}

-----------------------------------------------------------------------------
(* The session thread.                                                     *)

\* show(): nothing runs yet, so the thread is started.
Show(o) ==
    /\ owner[o] = "before"
    /\ owner' = [owner EXCEPT ![o] = "polling"]
    /\ ui' = [ui EXCEPT ![o] = "creating"]
    /\ UNCHANGED <<running, hwnd, closing, blinkOn, screen>>

\* show() returns, and the session goes on whether there is a banner or not.
ShowReturns(o) ==
    /\ owner[o] = "polling"
    /\ running[o] \/ MayTimeOut \/ ui[o] = "finished"
    /\ owner' = [owner EXCEPT ![o] = "live"]
    /\ UNCHANGED <<ui, running, hwnd, closing, blinkOn, screen>>

\* hide(), with mu_: is there a window to post to?
Hide(o) ==
    /\ owner[o] = "live"
    /\ owner' = [owner EXCEPT ![o] = IF hwnd[o] THEN "posting" ELSE "joining"]
    /\ UNCHANGED <<ui, running, hwnd, closing, blinkOn, screen>>

\* A mutant of Post: the message is not posted.
PostNothing(o) ==
    /\ owner[o] = "posting"
    /\ owner' = [owner EXCEPT ![o] = "joining"]
    /\ UNCHANGED <<ui, running, hwnd, closing, blinkOn, screen>>

Post(o) ==
    /\ owner[o] = "posting"
    /\ owner' = [owner EXCEPT ![o] = "joining"]
    /\ closing' = [closing EXCEPT ![o] = TRUE]
    /\ UNCHANGED <<ui, running, hwnd, blinkOn, screen>>

\* A mutant of Join: the thread is left to itself.
Detach(o) ==
    /\ owner[o] = "joining"
    /\ owner' = [owner EXCEPT ![o] = "after"]
    /\ UNCHANGED <<ui, running, hwnd, closing, blinkOn, screen>>

\* The destructor's hide() that follows finds neither window nor thread.
Join(o) ==
    /\ owner[o] = "joining"
    /\ ui[o] = "finished"
    /\ owner' = [owner EXCEPT ![o] = "after"]
    /\ UNCHANGED <<ui, running, hwnd, closing, blinkOn, screen>>

\* The same place is used by the next session.
Reuse(o) ==
    /\ owner[o] = "after"
    /\ owner' = [owner EXCEPT ![o] = "before"]
    /\ ui' = [ui EXCEPT ![o] = "none"]
    /\ closing' = [closing EXCEPT ![o] = FALSE]
    /\ blinkOn' = [blinkOn EXCEPT ![o] = TRUE]
    /\ UNCHANGED <<running, hwnd, screen>>

Owner(o) == Show(o) \/ ShowReturns(o) \/ Hide(o) \/ Post(o) \/ Join(o) \/ Reuse(o)

-----------------------------------------------------------------------------
(* The UI thread, threadMain().                                            *)

UIStep(o, from, to) == ui[o] = from /\ ui' = [ui EXCEPT ![o] = to]

Create(o) ==
    /\ UIStep(o, "creating", "showing")
    /\ UNCHANGED <<owner, running, hwnd, closing, blinkOn, screen>>

CreateFails(o) ==
    /\ MayFail
    /\ UIStep(o, "creating", "finished")
    /\ running' = [running EXCEPT ![o] = FALSE]
    /\ UNCHANGED <<owner, hwnd, closing, blinkOn, screen>>

\* SetWindowPos(HWND_TOPMOST, SWP_SHOWWINDOW).
Appear(o) ==
    /\ UIStep(o, "showing", "publishing")
    /\ screen' = screen \cup {o}
    /\ UNCHANGED <<owner, running, hwnd, closing, blinkOn>>

Publish(o) ==
    /\ UIStep(o, "publishing", "starting")
    /\ hwnd' = [hwnd EXCEPT ![o] = TRUE]
    /\ UNCHANGED <<owner, running, closing, blinkOn, screen>>

Start(o) ==
    /\ UIStep(o, "starting", "looping")
    /\ running' = [running EXCEPT ![o] = TRUE]
    /\ UNCHANGED <<owner, hwnd, closing, blinkOn, screen>>

\* WM_TIMER, which comes when no message is waiting.
Blink(o) ==
    /\ ui[o] = "looping" /\ ~closing[o]
    /\ blinkOn' = [blinkOn EXCEPT ![o] = ~@]
    /\ UNCHANGED <<owner, ui, running, hwnd, closing, screen>>

\* A mutant of Destroy: the loop is ended, the window left to itself.
QuitOnly(o) ==
    /\ closing[o]
    /\ UIStep(o, "looping", "destroyed")
    /\ closing' = [closing EXCEPT ![o] = FALSE]
    /\ UNCHANGED <<owner, running, hwnd, blinkOn, screen>>

\* WM_OVL_CLOSE: DestroyWindow, then WM_DESTROY, then WM_QUIT ends the loop.
Destroy(o) ==
    /\ closing[o]
    /\ UIStep(o, "looping", "destroyed")
    /\ closing' = [closing EXCEPT ![o] = FALSE]
    /\ screen' = screen \ {o}
    /\ UNCHANGED <<owner, running, hwnd, blinkOn>>

Withdraw(o) ==
    /\ UIStep(o, "destroyed", "stopping")
    /\ hwnd' = [hwnd EXCEPT ![o] = FALSE]
    /\ UNCHANGED <<owner, running, closing, blinkOn, screen>>

Finish(o) ==
    /\ UIStep(o, "stopping", "finished")
    /\ running' = [running EXCEPT ![o] = FALSE]
    /\ UNCHANGED <<owner, hwnd, closing, blinkOn, screen>>

UI(o) == \/ Create(o) \/ CreateFails(o) \/ Appear(o) \/ Publish(o) \/ Start(o)
         \/ Blink(o) \/ Destroy(o) \/ Withdraw(o) \/ Finish(o)

Next == \E o \in Overlays : Owner(o) \/ UI(o)

Spec == Init /\ [][Next]_vars

\* The UI threads are scheduled, and so is a session thread inside a call; when
\* a session ends is up to its client.
Fairness == \A o \in Overlays : /\ WF_vars(UI(o))
                                /\ WF_vars(ShowReturns(o) \/ Post(o) \/ Join(o))
FairSpec == Spec /\ Fairness

-----------------------------------------------------------------------------
(* Properties.                                                             *)

OnScreen(o) == o \in screen

\* Every variable has its type, and a window is on the screen just between its
\* appearance and its destruction.
TypeOK ==
    /\ owner \in [Overlays -> OwnerPlaces]
    /\ ui \in [Overlays -> UIPlaces]
    /\ running \in [Overlays -> BOOLEAN]
    /\ hwnd \in [Overlays -> BOOLEAN]
    /\ closing \in [Overlays -> BOOLEAN]
    /\ blinkOn \in [Overlays -> BOOLEAN]
    /\ screen \subseteq Overlays
    /\ \A o \in Overlays : OnScreen(o) <=> ui[o] \in {"publishing", "starting", "looping"}

\* A banner is of a session that is running or ending: none is on the screen
\* before its session or once hide() has returned, and its thread is gone then.
\* And hide(), which looks at hwnd_ under mu_ and posts after releasing it,
\* posts to a window that is still there.
BannersOfSessions ==
    \A o \in Overlays :
        /\ owner[o] = "before" => ~OnScreen(o) /\ ui[o] = "none"
        /\ owner[o] = "after" => ~OnScreen(o) /\ ui[o] = "finished" /\ ~running[o]
        /\ owner[o] = "posting" => OnScreen(o)

\* A hide() that found its window returns, however early show() had given up
\* waiting for it; so does one whose window could not be made.
HideReturns ==
    \A o \in Overlays :
        (owner[o] = "posting" \/ (owner[o] = "joining" /\ ui[o] = "finished"))
            ~> owner[o] = "after"
=============================================================================
