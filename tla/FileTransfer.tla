---------------------------- MODULE FileTransfer ----------------------------
(***************************************************************************)
(* server/ServerApp.cpp: the file operations of session()'s message        *)
(* handler, as the sessions of several clients run them on one file_root.  *)
(* Every call a handler makes on the file system is a step of its own;     *)
(* other sessions run between any two of them.                             *)
(*                                                                         *)
(* Files behave as Windows files opened by fstreams do: any number of      *)
(* handles may have a file open, for reading and for writing, each writing *)
(* at its own place; and a file that anybody has open is neither renamed,  *)
(* nor replaced, nor removed.                                              *)
(*                                                                         *)
(* A file is a sequence of blocks.  SHA-256 is free of collisions, so the  *)
(* digest of a sequence of blocks is the sequence.  A block the stream has *)
(* accepted is on disk at once.                                            *)
(***************************************************************************)
EXTENDS Naturals, Sequences, FiniteSets

CONSTANTS
    Sessions,   \* the sessions, each with its event loop
    Permitted,  \* those whose user has R_FileTransfer
    Names,      \* the paths under file_root that matter here
    Asked,      \* the names clients put in their requests
    Temp,       \* Temp[n] is the path of n's temporary file, n + ".part"
    Blocks,     \* what a FileBlock carries
    Hole,       \* a block of a file that was never written
    Claims,     \* the [size, sha256] a FileUploadReq states
    MaxBlocks,  \* bound: blocks of one upload
    MaxIds,     \* bound: transfer ids a session gives out
    MaxFaults   \* bound: writes that fail

ASSUME NamesAssumption ==
    /\ Permitted \subseteq Sessions
    /\ Asked \subseteq Names
    /\ Temp \in [Asked -> Names]
    /\ \A n \in Asked : Temp[n] # n
ASSUME DataAssumption ==
    /\ Hole \notin Blocks
    /\ Claims \subseteq [size : Nat, sha256 : Seq(Blocks)]
    /\ MaxBlocks \in Nat /\ MaxIds \in Nat /\ MaxFaults \in Nat

VARIABLES
    data,       \* the files that exist, and what is in them
    uploads,    \* the uploads map of each session
    nextId,     \* nextTransferId of each session
    pc,         \* where each session is: in its loop or inside a handler
    current,    \* the transfer a FileComplete handler is about, 0 outside one
    reading,    \* the files each session's downloads have open: one at most
    alive,      \* the server process runs
    faults,
    vouched,    \* history: what FileVerify(Ok) said of each name, and whether
                \* nobody else had touched the temporary file
    meddled     \* history: a client asked for the name of a temporary file

session == <<nextId, pc, current, reading>>
vars == <<data, uploads, session, alive, faults, vouched, meddled>>

Contents == Seq(Blocks \cup {Hole})
Upload == [final : Names, temp : Names, declared : Claims, hashed : Seq(Blocks),
           open : BOOLEAN, good : BOOLEAN, alone : BOOLEAN]

-----------------------------------------------------------------------------
(* Partial functions and files.                                            *)

With(f, k, v) == [x \in DOMAIN f \cup {k} |-> IF x = k THEN v ELSE f[x]]
Without(f, k) == [x \in DOMAIN f \ {k} |-> f[x]]

\* The file with block b at place k; places never written before it are holes.
WriteAt(c, k, b) ==
    [i \in 1 .. IF Len(c) > k THEN Len(c) ELSE k |->
        IF i = k THEN b ELSE IF i <= Len(c) THEN c[i] ELSE Hole]

Exists(n) == n \in DOMAIN data

\* Somebody has n open: an upload that writes it or a download that reads it.
InUse(n) == \/ \E s \in Sessions : \E id \in DOMAIN uploads[s] :
                  uploads[s][id].open /\ uploads[s][id].temp = n
            \/ \E s \in Sessions : n \in reading[s]

CanRemove(n) == Exists(n) /\ ~InUse(n)
CanRename(a, b) == Exists(a) /\ ~InUse(a) /\ ~InUse(b)

\* data after fs::rename(a, b) and after fs::remove(a).
Renamed(a, b) == IF a = b THEN data ELSE With(Without(data, a), b, data[a])

\* The uploads after a step of another took, replaced or truncated the files
\* ns: those whose temporary file is among them are alone no more.
Disturb(ups, ns) ==
    [s \in Sessions |-> [id \in DOMAIN ups[s] |->
        IF ups[s][id].temp \in ns THEN [ups[s][id] EXCEPT !.alone = FALSE] ELSE ups[s][id]]]

-----------------------------------------------------------------------------
Temps == {Temp[n] : n \in Asked}

\* A client's request for the names ns.
Asks(ns) == meddled' = (meddled \/ ns \cap Temps # {})

Init ==
    /\ data \in [Names \ Temps -> {<<>>}]
    /\ uploads = [s \in Sessions |-> <<>>]
    /\ nextId = [s \in Sessions |-> 1]
    /\ pc = [s \in Sessions |-> "loop"]
    /\ current = [s \in Sessions |-> 0]
    /\ reading = [s \in Sessions |-> {}]
    /\ alive = TRUE
    /\ faults = 0
    /\ vouched = [n \in DOMAIN data |-> [sha256 |-> data[n], alone |-> TRUE]]
    /\ meddled = FALSE

InLoop(s) == alive /\ pc[s] = "loop"
Mine(s) == uploads[s][current[s]]
Others(s) == [uploads EXCEPT ![s] = Without(@, current[s])]

Opened(n, claim) ==
    [final |-> n, temp |-> Temp[n], declared |-> claim, hashed |-> <<>>,
     open |-> TRUE, good |-> TRUE,
     alone |-> \A s \in Sessions : \A id \in DOMAIN uploads[s] : uploads[s][id].temp # Temp[n]]

\* FileUploadReq, accepted: the temporary file is truncated whoever has it.  A
\* request refused for want of the right, for a path outside file_root or
\* because the file cannot be created changes nothing here.
UploadReq(s, n, claim) ==
    /\ InLoop(s)
    /\ s \in Permitted
    /\ nextId[s] <= MaxIds
    /\ LET up == Opened(n, claim)
       IN  /\ data' = With(data, up.temp, <<>>)
           /\ uploads' = [Disturb(uploads, {up.temp}) EXCEPT ![s] = With(@, nextId[s], up)]
           /\ vouched' = Without(vouched, up.temp)
    /\ nextId' = [nextId EXCEPT ![s] = @ + 1]
    /\ Asks({n})
    /\ UNCHANGED <<pc, current, reading, alive, faults>>

\* FileBlock: written at the end of what this handle wrote, hashed, counted.
\* Nothing looks at the state of the stream, and a failed one stays failed.
Block(s, id, b) ==
    /\ InLoop(s)
    /\ id \in DOMAIN uploads[s]
    /\ Len(uploads[s][id].hashed) < MaxBlocks
    /\ LET up == uploads[s][id]
           k  == Len(up.hashed) + 1
       IN  \/ /\ up.good
              /\ data' = [data EXCEPT ![up.temp] = WriteAt(@, k, b)]
              /\ uploads' = [uploads EXCEPT ![s][id].hashed = Append(@, b)]
              /\ UNCHANGED faults
           \/ /\ up.good
              /\ faults < MaxFaults
              /\ faults' = faults + 1
              /\ uploads' = [uploads EXCEPT ![s][id].hashed = Append(@, b), ![s][id].good = FALSE]
              /\ UNCHANGED data
           \/ /\ ~up.good
              /\ uploads' = [uploads EXCEPT ![s][id].hashed = Append(@, b)]
              /\ UNCHANGED <<data, faults>>
    /\ UNCHANGED <<session, alive, vouched, meddled>>

\* A mutant of Matches: the digest is not compared.
MatchesSize(up) == Len(up.hashed) = up.declared.size

\* sizeOk && hashOk: what was received, against what was claimed.
Matches(up) == Len(up.hashed) = up.declared.size /\ up.hashed = up.declared.sha256

\* FileComplete: close the file and judge it...
Complete(s, id) ==
    /\ InLoop(s)
    /\ id \in DOMAIN uploads[s]
    /\ uploads' = [uploads EXCEPT ![s][id].open = FALSE]
    /\ current' = [current EXCEPT ![s] = id]
    /\ pc' = [pc EXCEPT ![s] = IF Matches(uploads[s][id]) THEN "rename" ELSE "discard"]
    /\ UNCHANGED <<data, nextId, reading, alive, faults, vouched, meddled>>

\* ...rename a good one into place and say so...
Install(s) ==
    /\ alive /\ pc[s] = "rename"
    /\ LET up == Mine(s)
       IN  IF CanRename(up.temp, up.final)
           THEN /\ data' = Renamed(up.temp, up.final)
                /\ vouched' = With(Without(vouched, up.temp), up.final,
                                   [sha256 |-> up.declared.sha256, alone |-> up.alone /\ up.good])
                /\ uploads' = Disturb(Others(s), {up.temp, up.final})
                /\ pc' = [pc EXCEPT ![s] = "loop"]
                /\ current' = [current EXCEPT ![s] = 0]
           ELSE /\ pc' = [pc EXCEPT ![s] = "discard"]
                /\ UNCHANGED <<data, uploads, current, vouched>>
    /\ UNCHANGED <<nextId, reading, alive, faults, meddled>>

\* A mutant of Discard: a temporary file that did not verify is left.
DiscardKeeps(s) ==
    /\ alive /\ pc[s] = "discard"
    /\ uploads' = Others(s)
    /\ pc' = [pc EXCEPT ![s] = "loop"]
    /\ current' = [current EXCEPT ![s] = 0]
    /\ UNCHANGED <<data, nextId, reading, alive, faults, vouched, meddled>>

\* ...or remove one that did not match, or that could not be renamed.
Discard(s) ==
    /\ alive /\ pc[s] = "discard"
    /\ IF CanRemove(Mine(s).temp)
       THEN /\ data' = Without(data, Mine(s).temp)
            /\ vouched' = Without(vouched, Mine(s).temp)
            /\ uploads' = Disturb(Others(s), {Mine(s).temp})
       ELSE uploads' = Others(s) /\ UNCHANGED <<data, vouched>>
    /\ pc' = [pc EXCEPT ![s] = "loop"]
    /\ current' = [current EXCEPT ![s] = 0]
    /\ UNCHANGED <<nextId, reading, alive, faults, meddled>>

\* FileDelete and FileMove: one call each, whose failure changes nothing.
Delete(s, n) ==
    /\ InLoop(s)
    /\ s \in Permitted
    /\ CanRemove(n)
    /\ data' = Without(data, n)
    /\ vouched' = Without(vouched, n)
    /\ uploads' = Disturb(uploads, {n})
    /\ Asks({n})
    /\ UNCHANGED <<session, alive, faults>>

Move(s, a, b) ==
    /\ InLoop(s)
    /\ s \in Permitted
    /\ a # b
    /\ CanRename(a, b)
    /\ data' = Renamed(a, b)
    /\ vouched' = IF a \in DOMAIN vouched THEN With(Without(vouched, a), b, vouched[a])
                  ELSE Without(vouched, b)
    /\ uploads' = Disturb(uploads, {a, b})
    /\ Asks({a, b})
    /\ UNCHANGED <<session, alive, faults>>

\* FileDownloadReq: the file is open from here to the end of the handler, over
\* its reading, hashing and sending.
DownloadReq(s, n) ==
    /\ InLoop(s)
    /\ s \in Permitted
    /\ Exists(n)
    /\ pc' = [pc EXCEPT ![s] = "sending"]
    /\ reading' = [reading EXCEPT ![s] = {n}]
    /\ Asks({n})
    /\ UNCHANGED <<data, uploads, nextId, current, alive, faults, vouched>>

Sent(s) ==
    /\ alive /\ pc[s] = "sending"
    /\ pc' = [pc EXCEPT ![s] = "loop"]
    /\ reading' = [reading EXCEPT ![s] = {}]
    /\ UNCHANGED <<data, uploads, nextId, current, alive, faults, vouched, meddled>>

\* The loop ends: Bye, a lost client, stop(), a failed video stream.
LoopEnds(s) ==
    /\ InLoop(s)
    /\ pc' = [pc EXCEPT ![s] = "ending"]
    /\ UNCHANGED <<data, uploads, nextId, current, reading, alive, faults, vouched, meddled>>

\* Uploads that never completed, in the order of their ids: close, then remove.
CloseUpload(s) ==
    /\ alive /\ pc[s] = "ending"
    /\ \E id \in DOMAIN uploads[s] :
          /\ \A j \in DOMAIN uploads[s] : id <= j
          /\ uploads[s][id].open
          /\ uploads' = [uploads EXCEPT ![s][id].open = FALSE]
    /\ UNCHANGED <<data, session, alive, faults, vouched, meddled>>

RemoveUpload(s) ==
    /\ alive /\ pc[s] = "ending"
    /\ \E id \in DOMAIN uploads[s] :
          /\ \A j \in DOMAIN uploads[s] : id <= j
          /\ ~uploads[s][id].open
          /\ LET temp == uploads[s][id].temp
                 rest == [uploads EXCEPT ![s] = Without(@, id)]
             IN  IF CanRemove(temp)
                 THEN /\ data' = Without(data, temp)
                      /\ vouched' = Without(vouched, temp)
                      /\ uploads' = Disturb(rest, {temp})
                 ELSE uploads' = rest /\ UNCHANGED <<data, vouched>>
    /\ UNCHANGED <<session, alive, faults, meddled>>

\* A mutant of NextSession: uploads that were in flight are left to it.
NextSessionKeepsUploads(s) ==
    /\ alive /\ pc[s] = "ending"
    /\ pc' = [pc EXCEPT ![s] = "loop"]
    /\ nextId' = [nextId EXCEPT ![s] = 1]
    /\ UNCHANGED <<data, uploads, current, reading, alive, faults, vouched, meddled>>

\* The session is over; its place is taken by the next one.
NextSession(s) ==
    /\ alive /\ pc[s] = "ending"
    /\ DOMAIN uploads[s] = {}
    /\ pc' = [pc EXCEPT ![s] = "loop"]
    /\ nextId' = [nextId EXCEPT ![s] = 1]
    /\ UNCHANGED <<data, uploads, current, reading, alive, faults, vouched, meddled>>

\* main() returns after stop(), or a thread throws: the sessions end where they
\* are, the system closes their files.
Exit ==
    /\ alive
    /\ alive' = FALSE
    /\ uploads' = [s \in Sessions |-> <<>>]
    /\ pc' = [s \in Sessions |-> "gone"]
    /\ current' = [s \in Sessions |-> 0]
    /\ reading' = [s \in Sessions |-> {}]
    /\ UNCHANGED <<data, nextId, faults, vouched, meddled>>

Handle(s) ==
    \/ \E n \in Asked, claim \in Claims : UploadReq(s, n, claim)
    \/ \E id \in DOMAIN uploads[s] : (\E b \in Blocks : Block(s, id, b)) \/ Complete(s, id)
    \/ Install(s) \/ Discard(s)
    \/ \E n \in Asked : Delete(s, n) \/ DownloadReq(s, n)
    \/ \E a, b \in Asked : Move(s, a, b)
    \/ Sent(s)
CleanUp(s) == LoopEnds(s) \/ CloseUpload(s) \/ RemoveUpload(s) \/ NextSession(s)

Next == (\E s \in Sessions : Handle(s) \/ CleanUp(s)) \/ Exit

Spec == Init /\ [][Next]_vars

-----------------------------------------------------------------------------
(* Properties.                                                             *)

\* Every variable has its type; the files the running server has open exist.
TypeOK ==
    /\ DOMAIN data \subseteq Names /\ \A n \in DOMAIN data : data[n] \in Contents
    /\ DOMAIN uploads = Sessions
    /\ \A s \in Sessions : /\ DOMAIN uploads[s] \subseteq 1 .. nextId[s] - 1
                           /\ \A id \in DOMAIN uploads[s] : uploads[s][id] \in Upload
    /\ nextId \in [Sessions -> 1 .. MaxIds + 1]
    /\ pc \in [Sessions -> {"loop", "rename", "discard", "sending", "ending", "gone"}]
    /\ current \in [Sessions -> 0 .. MaxIds]
    /\ reading \in [Sessions -> SUBSET Asked]
    /\ alive \in BOOLEAN
    /\ faults \in 0 .. MaxFaults
    /\ DOMAIN vouched \subseteq DOMAIN data
    /\ meddled \in BOOLEAN
    /\ \A n \in Names : InUse(n) => Exists(n)

\* Of every file that FileVerify(Ok) told a client is in place, and whose
\* temporary file no other request touched and no write failed on, the content
\* is what that client declared - whatever other sessions upload, move, delete
\* and download at any point between its blocks, its close and its rename.
VerifiedWhenAlone ==
    \A n \in DOMAIN vouched : vouched[n].alone => data[n] = vouched[n].sha256

\* As long as no client asks for a temporary file by its name, no file is ever
\* seen that was not installed by a verified upload: a transfer under way, one
\* that failed and one whose client went away are at most temporary files.  And
\* a temporary file belongs to a transfer as long as the server runs: none is
\* left behind.
NothingUnverified ==
    ~meddled =>
        /\ DOMAIN data \ Temps \subseteq DOMAIN vouched
        /\ alive => \A n \in DOMAIN data \ DOMAIN vouched :
               \E s \in Sessions : \E id \in DOMAIN uploads[s] : uploads[s][id].temp = n

-----------------------------------------------------------------------------
(* What the README says of the transfers and a run refutes.                 *)

\* README.md:150, "Only on a match is the temp file atomically renamed into
\* place": a file in place is the one its upload declared, also when several
\* clients uploaded to one path at a time.
OnlyMatchInPlace == \A n \in DOMAIN vouched : data[n] = vouched[n].sha256
=============================================================================
