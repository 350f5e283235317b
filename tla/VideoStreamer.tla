--------------------------- MODULE VideoStreamer ---------------------------
(***************************************************************************)
(* The picture of the screen on its way from the host to the viewer:       *)
(* video/ScreenCapture.cpp acquires it, video/VideoStreamer.cpp sends it   *)
(* as a key frame or as the tiles that changed (common/FrameDiff.cpp),     *)
(* server/ServerApp.cpp's session loop reinitialises a lost capture, and   *)
(* client/ClientApp.cpp's reader thread puts the frames together again.    *)
(*                                                                         *)
(* A picture is the sequence of its tiles; its geometry is its length.  A  *)
(* FrameData chunk, in the code a range of bytes, carries one tile here.   *)
(* Each message is sent and read in a step of its own; the TLS connection  *)
(* between the two keeps their order and holds a few of them.              *)
(***************************************************************************)
EXTENDS Naturals, Sequences, FiniteSets

CONSTANTS
    Colors,     \* what a tile may look like
    Blank,      \* the tile of a frame buffer that was just made
    Sizes,      \* the geometries of the screen
    LinkSize,   \* bound: messages the connection holds before a send blocks
    MaxChanges, \* bound: how often the screen changes
    MaxLosses,  \* bound: how often the duplication is lost
    MaySecure   \* the secure desktop may come up (logon, UAC)

ASSUME PictureAssumption ==
    /\ Blank \notin Colors
    /\ Sizes \subseteq Nat \ {0}
    /\ LinkSize \in Nat \ {0}
    /\ MaxChanges \in Nat /\ MaxLosses \in Nat
    /\ MaySecure \in BOOLEAN

VARIABLES
    screen,         \* what the desktop shows
    fresh,          \* it changed since the duplication was last asked
    dup,            \* the duplication is valid
    secure,         \* the secure desktop is up: nothing can be duplicated
    changes, losses,
    open,           \* the session loop runs
    captureOk,      \* the session streams video
    sentKeyframe,   \* sentKeyframe_
    prev,           \* prevFrame_ and its geometry
    frame,          \* the frame streamOnce works on
    sending,        \* the messages it has still to send
    captured,       \* history: the frames that were sent, seq_ is their number
    link,           \* messages on their way
    viewing,        \* the client's reader thread runs
    pending,        \* the frame buffer it fills
    front,          \* the frame it shows
    remote,         \* remoteW, remoteH: the geometry for mouse coordinates
    frontSeq        \* the number the FrameEnd of front carried

desktop == <<screen, fresh, dup, secure, changes, losses>>
streamer == <<open, captureOk, sentKeyframe, prev, frame, sending, captured>>
viewer == <<viewing, pending, front, remote, frontSeq>>
vars == <<desktop, streamer, link, viewer>>

Pictures == UNION {[1 .. n -> Colors] : n \in Sizes}
Buffers == UNION {[1 .. n -> Colors \cup {Blank}] : n \in Sizes \cup {0}}

Init ==
    /\ screen \in Pictures
    /\ secure \in {FALSE, MaySecure}
    /\ dup = ~secure /\ fresh = ~secure
    /\ changes = 0 /\ losses = 0
    /\ open = TRUE
    /\ captureOk = ~secure
    /\ sentKeyframe = FALSE
    /\ prev = <<>> /\ frame = <<>> /\ sending = <<>> /\ captured = <<>>
    /\ link = <<>>
    /\ viewing = TRUE
    /\ pending = <<>> /\ front = <<>>
    /\ remote = 0 /\ frontSeq = 0

-----------------------------------------------------------------------------
(* The desktop.                                                            *)

\* Something is drawn, or the resolution changes; the latter may come with the
\* loss of the duplication, and the code is ready for both.
Draw ==
    /\ changes < MaxChanges
    /\ changes' = changes + 1
    /\ screen' \in Pictures \ {screen}
    /\ fresh' = TRUE
    /\ \/ UNCHANGED dup
       \/ Len(screen') # Len(screen) /\ dup' = FALSE
    /\ UNCHANGED <<secure, losses, streamer, link, viewer>>

\* The duplication is lost, for a moment or while the secure desktop is up.
Lose ==
    /\ dup /\ losses < MaxLosses
    /\ losses' = losses + 1
    /\ dup' = FALSE
    /\ secure' \in {FALSE, MaySecure}
    /\ UNCHANGED <<screen, fresh, changes, streamer, link, viewer>>

Unlock ==
    /\ secure
    /\ secure' = FALSE
    /\ UNCHANGED <<screen, fresh, dup, changes, losses, streamer, link, viewer>>

-----------------------------------------------------------------------------
(* The session loop and the streamer.                                      *)

\* changedTiles, and the order it lists them in.
Changed(p, f) == IF Len(p) # Len(f) THEN {} ELSE {t \in 1 .. Len(f) : p[t] # f[t]}
Ascending(tiles) ==
    {order \in [1 .. Cardinality(tiles) -> tiles] :
        \A i, j \in 1 .. Cardinality(tiles) : i < j => order[i] < order[j]}

\* A mutant of NeedsKeyframe: the geometry is not compared.
OnlyFirstNeeds == ~sentKeyframe

NeedsKeyframe == ~sentKeyframe \/ Len(screen) # Len(prev)

Tile(op, f, t) == [op |-> op, at |-> t, pixel |-> f[t]]
FrameEnd == [op |-> "FrameEnd", seq |-> Len(captured) + 1]

KeyframeOf(f) ==
    <<[op |-> "FrameInfo", size |-> Len(f)]>>
        \o [t \in 1 .. Len(f) |-> Tile("FrameData", f, t)] \o <<FrameEnd>>

DeltaOf(f, order) == [i \in 1 .. Len(order) |-> Tile("FrameRect", f, order[i])] \o <<FrameEnd>>

Idle == open /\ captureOk /\ sending = <<>>

\* acquire() returned Ok.  A frame without a changed tile is skipped.
Acquire ==
    /\ Idle /\ dup /\ fresh
    /\ fresh' = FALSE
    /\ frame' = screen
    /\ \/ /\ NeedsKeyframe
          /\ sending' = KeyframeOf(screen)
          /\ captured' = Append(captured, screen)
       \/ /\ ~NeedsKeyframe /\ Changed(prev, screen) # {}
          /\ \E order \in Ascending(Changed(prev, screen)) : sending' = DeltaOf(screen, order)
          /\ captured' = Append(captured, screen)
       \/ /\ ~NeedsKeyframe /\ Changed(prev, screen) = {}
          /\ UNCHANGED <<sending, captured>>
    /\ UNCHANGED <<screen, dup, secure, changes, losses, open, captureOk, sentKeyframe, prev,
                   link, viewer>>

\* It returned Lost: initialize() makes a new duplication, whose first frame is
\* the whole desktop.  While the secure desktop is up that fails, and captureOk
\* keeps the loop from asking again.
AcquireLost ==
    /\ Idle /\ ~dup
    /\ sentKeyframe' = FALSE
    /\ captureOk' = ~secure
    /\ dup' = ~secure
    /\ fresh' = (fresh \/ ~secure)
    /\ UNCHANGED <<screen, secure, changes, losses, open, prev, frame, sending, captured,
                   link, viewer>>

\* It returned Error, or the session ends for another reason.
SessionEnds ==
    /\ open
    /\ open' = FALSE
    /\ sending' = <<>>
    /\ UNCHANGED <<desktop, captureOk, sentKeyframe, prev, frame, captured, link, viewer>>

\* A mutant of Mirror: prevFrame_ stays the last key frame.
MirrorKeyframes(m) ==
    IF m.op = "FrameEnd" /\ (~sentKeyframe \/ Len(prev) # Len(frame)) THEN frame ELSE prev

\* What prevFrame_ is after m: a delta is mirrored tile by tile and at its end is
\* frame already; a key frame is taken over when all of it was sent.
Mirror(m) ==
    IF m.op = "FrameRect" THEN [prev EXCEPT ![m.at] = m.pixel]
    ELSE IF m.op = "FrameEnd" THEN frame
    ELSE prev

Send ==
    /\ open /\ sending # <<>>
    /\ Len(link) < LinkSize
    /\ link' = Append(link, Head(sending))
    /\ sending' = Tail(sending)
    /\ prev' = Mirror(Head(sending))
    /\ sentKeyframe' = (sentKeyframe \/ Head(sending).op = "FrameEnd")
    /\ UNCHANGED <<desktop, open, captureOk, frame, captured, viewer>>

\* A send to a client that is gone fails: Step::Error, the session ends.
SendFails ==
    /\ open /\ sending # <<>> /\ ~viewing
    /\ open' = FALSE
    /\ sending' = <<>>
    /\ UNCHANGED <<desktop, captureOk, sentKeyframe, prev, frame, captured, link, viewer>>

-----------------------------------------------------------------------------
(* The client's reader thread.                                             *)

Reads(op) == viewing /\ link # <<>> /\ Head(link).op = op /\ link' = Tail(link)

\* A mutant of ReadInfo: the frame buffer keeps its size.
ReadInfoKeepsBuffer ==
    /\ Reads("FrameInfo")
    /\ remote' = Head(link).size
    /\ UNCHANGED <<desktop, streamer, viewing, pending, front, frontSeq>>

ReadInfo ==
    /\ Reads("FrameInfo")
    /\ pending' = [t \in 1 .. Head(link).size |-> Blank]
    /\ remote' = Head(link).size
    /\ UNCHANGED <<desktop, streamer, viewing, front, frontSeq>>

\* FrameData and FrameRect; what does not fit the buffer is dropped.
ReadTile ==
    /\ Reads("FrameData") \/ Reads("FrameRect")
    /\ LET m == Head(link)
       IN  pending' = IF m.at \in 1 .. Len(pending) THEN [pending EXCEPT ![m.at] = m.pixel]
                      ELSE pending
    /\ UNCHANGED <<desktop, streamer, viewing, front, remote, frontSeq>>

ReadEnd ==
    /\ Reads("FrameEnd")
    /\ front' = pending
    /\ frontSeq' = Head(link).seq
    /\ UNCHANGED <<desktop, streamer, viewing, pending, remote>>

\* The connection is closed: all that was sent has been read.
ReadClosed ==
    /\ viewing /\ ~open /\ link = <<>>
    /\ viewing' = FALSE
    /\ UNCHANGED <<desktop, streamer, link, pending, front, remote, frontSeq>>

\* The window is closed.
CloseViewer ==
    /\ viewing
    /\ viewing' = FALSE
    /\ link' = <<>>
    /\ UNCHANGED <<desktop, streamer, pending, front, remote, frontSeq>>

Desktop == Draw \/ Lose \/ Unlock
Stream == Acquire \/ AcquireLost \/ Send \/ SendFails
Read == ReadInfo \/ ReadTile \/ ReadEnd \/ ReadClosed

Next == Desktop \/ Stream \/ SessionEnds \/ Read \/ CloseViewer

Spec == Init /\ [][Next]_vars

\* The session thread and the reader thread are scheduled; what the desktop and
\* the two ends' users do is up to them.
FairSpec == Spec /\ WF_vars(Stream) /\ WF_vars(Read)

-----------------------------------------------------------------------------
(* Properties.                                                             *)

\* Every variable has its type; the client's coordinates are those of its frame
\* buffer.
TypeOK ==
    /\ screen \in Pictures
    /\ fresh \in BOOLEAN /\ dup \in BOOLEAN /\ secure \in BOOLEAN
    /\ changes \in 0 .. MaxChanges /\ losses \in 0 .. MaxLosses
    /\ open \in BOOLEAN /\ captureOk \in BOOLEAN /\ sentKeyframe \in BOOLEAN
    /\ prev \in Pictures \cup {<<>>} /\ frame \in Pictures \cup {<<>>}
    /\ captured \in Seq(Pictures)
    /\ Len(link) <= LinkSize
    /\ viewing \in BOOLEAN
    /\ pending \in Buffers /\ front \in Buffers
    /\ remote = Len(pending)
    /\ frontSeq \in 0 .. Len(captured)

\* What the viewer shows is what the screen showed at one moment, the one that
\* the frame's number says: never a mixture of two frames, never a tile that
\* was not sent, across key frames, deltas, resizes and lost captures.
\* VideoStreamer.h:52, prevFrame_ "mirrors the client": when nothing is on its
\* way the next delta is taken against the very buffer it will be applied to.
PicturesTrue ==
    /\ frontSeq > 0 => front = captured[frontSeq]
    /\ open /\ viewing /\ sentKeyframe /\ sending = <<>> /\ link = <<>> => pending = prev

\* The viewer catches up: the screen changes a bounded number of times, and from
\* then on the viewer shows it, as long as it is there and no capture was lost
\* to the secure desktop.
CatchesUp == []<>(front = screen \/ ~open \/ ~viewing \/ ~captureOk)
=============================================================================
