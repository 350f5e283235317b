------------------------ MODULE SessionOverlayProofs ------------------------
(***************************************************************************)
(* Theorems about SessionOverlay, for any set of overlays, whether windows *)
(* may fail and polls give up or not.                                      *)
(***************************************************************************)
EXTENDS SessionOverlay, TLAPS

Shape ==
    /\ owner \in [Overlays -> OwnerPlaces]
    /\ ui \in [Overlays -> UIPlaces]
    /\ running \in [Overlays -> BOOLEAN]
    /\ hwnd \in [Overlays -> BOOLEAN]
    /\ closing \in [Overlays -> BOOLEAN]
    /\ blinkOn \in [Overlays -> BOOLEAN]
    /\ screen \subseteq Overlays

\* Where the two threads of an overlay can be at a time.  The window is asked
\* to close by a hide() that saw it published, and goes only when it was asked:
\* between the two the session thread waits in join().
Together(o) ==
    /\ owner[o] = "before" <=> ui[o] = "none"
    /\ owner[o] = "posting" => ui[o] \in {"starting", "looping"}
    /\ owner[o] = "after" => ui[o] = "finished"
    /\ ui[o] \in {"destroyed", "stopping"} => owner[o] = "joining"

\* What the UI thread's place says of its flags and of the screen.
Flags(o) ==
    /\ hwnd[o] <=> ui[o] \in {"starting", "looping", "destroyed"}
    /\ running[o] <=> ui[o] \in {"looping", "destroyed", "stopping"}
    /\ OnScreen(o) <=> ui[o] \in {"publishing", "starting", "looping"}
    /\ closing[o] => owner[o] = "joining" /\ ui[o] \in {"starting", "looping"}

IInv == Shape /\ \A o \in Overlays : Together(o) /\ Flags(o)

-----------------------------------------------------------------------------
\* Every step keeps the variables' types.
LEMMA ShapeStep ==
    ASSUME Shape, NEW o \in Overlays, Owner(o) \/ UI(o)
    PROVE  Shape'
<1> USE DEF Shape, OwnerPlaces, UIPlaces
<1>1. CASE Owner(o)
  BY <1>1 DEF Owner, Show, ShowReturns, Hide, Post, Join, Reuse
<1>2. CASE UI(o)
  BY <1>2 DEF UI, UIStep, Create, CreateFails, Appear, Publish, Start, Blink, Destroy, Withdraw, Finish
<1> QED
  BY <1>1, <1>2

\* A step of one overlay's threads leaves every other overlay as it was.
LEMMA OthersStay ==
    ASSUME Shape, NEW o \in Overlays, Owner(o) \/ UI(o), NEW p \in Overlays, p # o,
           Together(p), Flags(p)
    PROVE  Together(p)' /\ Flags(p)'
<1>1. /\ owner'[p] = owner[p] /\ ui'[p] = ui[p] /\ running'[p] = running[p]
      /\ hwnd'[p] = hwnd[p] /\ closing'[p] = closing[p]
  <2>1. CASE Owner(o)
    BY <2>1 DEF Shape, Owner, Show, ShowReturns, Hide, Post, Join, Reuse
  <2>2. CASE UI(o)
    BY <2>2 DEF Shape, UI, UIStep, Create, CreateFails, Appear, Publish, Start, Blink, Destroy, Withdraw, Finish
  <2> QED
    BY <2>1, <2>2
<1>2. p \in screen' <=> p \in screen
  <2>1. CASE Owner(o)
    BY <2>1 DEF Owner, Show, ShowReturns, Hide, Post, Join, Reuse
  <2>2. CASE UI(o)
    BY <2>2 DEF UI, Create, CreateFails, Appear, Publish, Start, Blink, Destroy, Withdraw, Finish
  <2> QED
    BY <2>1, <2>2
<1>3. Together(p)'
  BY <1>1 DEF Together
<1>4. Flags(p)'
  BY <1>1, <1>2 DEF Flags, OnScreen
<1> QED
  BY <1>3, <1>4

\* The two threads of one overlay: the steps of the session thread.
LEMMA OwnerStep ==
    ASSUME Shape, NEW o \in Overlays, Together(o), Flags(o), Owner(o)
    PROVE  Together(o)' /\ Flags(o)'
<1> USE DEF Shape, Together, Flags, OnScreen
<1>1. CASE Show(o)
  BY <1>1 DEF Show
<1>2. CASE ShowReturns(o)
  BY <1>2 DEF ShowReturns
<1>3. CASE Hide(o)
  BY <1>3 DEF Hide
<1>4. CASE Post(o)
  BY <1>4 DEF Post
<1>5. CASE Join(o)
  BY <1>5 DEF Join
<1>6. CASE Reuse(o)
  BY <1>6 DEF Reuse
<1> QED
  BY <1>1, <1>2, <1>3, <1>4, <1>5, <1>6 DEF Owner

\* The steps of the UI thread.
LEMMA UIKeeps ==
    ASSUME Shape, NEW o \in Overlays, Together(o), Flags(o), UI(o)
    PROVE  Together(o)' /\ Flags(o)'
<1> USE DEF Shape, Together, Flags, OnScreen, UIStep
<1>1. CASE Create(o)
  BY <1>1 DEF Create
<1>2. CASE CreateFails(o)
  BY <1>2 DEF CreateFails
<1>3. CASE Appear(o)
  BY <1>3 DEF Appear
<1>4. CASE Publish(o)
  BY <1>4 DEF Publish
<1>5. CASE Start(o)
  BY <1>5 DEF Start
<1>6. CASE Blink(o)
  BY <1>6 DEF Blink
<1>7. CASE Destroy(o)
  BY <1>7 DEF Destroy
<1>8. CASE Withdraw(o)
  BY <1>8 DEF Withdraw
<1>9. CASE Finish(o)
  BY <1>9 DEF Finish
<1> QED
  BY <1>1, <1>2, <1>3, <1>4, <1>5, <1>6, <1>7, <1>8, <1>9 DEF UI

LEMMA Inductive == Spec => []IInv
<1>1. Init => IInv
  BY DEF Init, IInv, Shape, Together, Flags, OnScreen, OwnerPlaces, UIPlaces
<1>2. IInv /\ [Next]_vars => IInv'
  <2> SUFFICES ASSUME IInv, [Next]_vars PROVE IInv'
    OBVIOUS
  <2>1. ASSUME NEW o \in Overlays, Owner(o) \/ UI(o) PROVE IInv'
    <3>1. Shape'
      BY <2>1, ShapeStep DEF IInv
    <3>2. ASSUME NEW p \in Overlays PROVE Together(p)' /\ Flags(p)'
      BY <2>1, OthersStay, OwnerStep, UIKeeps DEF IInv
    <3> QED
      BY <3>1, <3>2 DEF IInv
  <2>2. CASE UNCHANGED vars
    BY <2>2 DEF IInv, vars, Shape, Together, Flags, OnScreen
  <2> QED
    BY <2>1, <2>2 DEF Next
<1> QED
  BY <1>1, <1>2, PTL DEF Spec

-----------------------------------------------------------------------------
\* The variables keep their types, and a window is on the screen just between
\* its appearance and its destruction.
THEOREM TypeCorrect == Spec => []TypeOK
<1>1. IInv => TypeOK
  BY DEF IInv, Shape, Flags, TypeOK
<1> QED
  BY <1>1, Inductive, PTL

\* No banner is on the screen without its session, and hide() posts to a window
\* that is still there, however early show() gives up waiting for it.
THEOREM BannersCorrect == Spec => []BannersOfSessions
<1>1. IInv => BannersOfSessions
  BY DEF IInv, Together, Flags, BannersOfSessions
<1> QED
  BY <1>1, Inductive, PTL
=============================================================================
