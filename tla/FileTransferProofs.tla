------------------------- MODULE FileTransferProofs -------------------------
(***************************************************************************)
(* Theorems about FileTransfer, for every number of sessions, every set of *)
(* paths and of blocks, and every bound.                                   *)
(*                                                                         *)
(* The argument: what a session still has open it alone may write, and no  *)
(* verification speaks of it (Handles); what an upload hashed is what is   *)
(* in its temporary file for as long as no other request came near it      *)
(* (AloneIsExact).                                                         *)
(***************************************************************************)
EXTENDS FileTransfer, SequenceTheorems, TLAPS

USE NamesAssumption, DataAssumption

-----------------------------------------------------------------------------
(* The inductive invariant behind TypeOK.                                  *)

Files ==
    /\ data = [n \in DOMAIN data |-> data[n]]
    /\ DOMAIN data \subseteq Names
    /\ \A n \in DOMAIN data : data[n] \in Contents
    /\ DOMAIN vouched \subseteq DOMAIN data

\* The transfers of each session, and where their files are.
Transfers ==
    /\ uploads = [s \in Sessions |-> uploads[s]]
    /\ \A s \in Sessions :
          /\ uploads[s] = [id \in DOMAIN uploads[s] |-> uploads[s][id]]
          /\ DOMAIN uploads[s] \subseteq 1 .. nextId[s] - 1
          /\ \A id \in DOMAIN uploads[s] :
                /\ uploads[s][id] \in Upload
                /\ uploads[s][id].final \in Asked
                /\ uploads[s][id].temp = Temp[uploads[s][id].final]

Loops ==
    /\ nextId \in [Sessions -> 1 .. MaxIds + 1]
    /\ pc \in [Sessions -> {"loop", "rename", "discard", "sending", "ending", "gone"}]
    /\ current \in [Sessions -> 0 .. MaxIds]
    /\ reading \in [Sessions -> SUBSET Asked]
    /\ alive \in BOOLEAN
    /\ faults \in 0 .. MaxFaults
    /\ meddled \in BOOLEAN

\* A handler that judges a transfer has closed its file, and no other one.
AtHandOf(s) ==
    /\ pc[s] \in {"loop", "sending"} => \A id \in DOMAIN uploads[s] : uploads[s][id].open
    /\ pc[s] \in {"rename", "discard"} =>
          /\ current[s] \in DOMAIN uploads[s]
          /\ \A id \in DOMAIN uploads[s] : uploads[s][id].open <=> id # current[s]
    /\ pc[s] = "rename" => Matches(Mine(s))

AtHand == \A s \in Sessions : AtHandOf(s)

\* A file that an upload has open exists, and nothing was promised of it; one
\* that a download has open exists.
Handles ==
    \A s \in Sessions :
        /\ \A id \in DOMAIN uploads[s] :
              uploads[s][id].open => uploads[s][id].temp \in DOMAIN data \ DOMAIN vouched
        /\ reading[s] \subseteq DOMAIN data

TypeInv == Files /\ Transfers /\ Loops /\ AtHand /\ Handles

-----------------------------------------------------------------------------
(* What the helpers leave behind.                                          *)

\* An upload of a later state that continues one of an earlier state.
Kept(new, old) ==
    /\ new \in Upload
    /\ new.final = old.final /\ new.temp = old.temp /\ new.declared = old.declared
    /\ new.hashed = old.hashed /\ new.open = old.open /\ new.good = old.good
    /\ new.alone => old.alone

\* All uploads continue but number id of s, and those on a file of ns are
\* alone no more.
Remain(s, id, ns) ==
    /\ uploads' = [t \in Sessions |-> uploads'[t]]
    /\ \A t \in Sessions :
          /\ uploads'[t] = [j \in DOMAIN uploads'[t] |-> uploads'[t][j]]
          /\ DOMAIN uploads'[t] = {j \in DOMAIN uploads[t] : ~(t = s /\ j = id)}
          /\ \A j \in DOMAIN uploads'[t] :
                /\ Kept(uploads'[t][j], uploads[t][j])
                /\ uploads'[t][j].alone => uploads[t][j].temp \notin ns

\* Session s has one transfer more, and those on its file are alone no more.
Adds(s, up) ==
    /\ nextId[s] \notin DOMAIN uploads[s]
    /\ uploads' = [t \in Sessions |-> uploads'[t]]
    /\ DOMAIN uploads'[s] = DOMAIN uploads[s] \cup {nextId[s]}
    /\ uploads'[s][nextId[s]] = up
    /\ \A t \in Sessions :
          /\ uploads'[t] = [j \in DOMAIN uploads'[t] |-> uploads'[t][j]]
          /\ t # s => DOMAIN uploads'[t] = DOMAIN uploads[t]
          /\ \A j \in DOMAIN uploads[t] :
                /\ Kept(uploads'[t][j], uploads[t][j])
                /\ uploads'[t][j].alone => uploads[t][j].temp # up.temp

\* Number id of s changes, into an upload of the same file.
Changes(s, id) ==
    /\ uploads' = [t \in Sessions |-> uploads'[t]]
    /\ \A t \in Sessions :
          /\ uploads'[t] = [j \in DOMAIN uploads'[t] |-> uploads'[t][j]]
          /\ DOMAIN uploads'[t] = DOMAIN uploads[t]
          /\ \A j \in DOMAIN uploads[t] : ~(t = s /\ j = id) => uploads'[t][j] = uploads[t][j]
    /\ uploads'[s][id] \in Upload
    /\ uploads'[s][id].final = uploads[s][id].final
    /\ uploads'[s][id].temp = uploads[s][id].temp
    /\ uploads'[s][id].declared = uploads[s][id].declared
    /\ uploads'[s][id].alone = uploads[s][id].alone

\* Disturb changes only who is alone.
LEMMA DisturbKeeps ==
    ASSUME NEW ups, NEW ns, uploads' = Disturb(ups, ns),
           \A s \in Sessions : \A id \in DOMAIN ups[s] : ups[s][id] \in Upload
    PROVE  /\ uploads' = [s \in Sessions |-> uploads'[s]]
           /\ \A s \in Sessions :
                 /\ uploads'[s] = [id \in DOMAIN uploads'[s] |-> uploads'[s][id]]
                 /\ DOMAIN uploads'[s] = DOMAIN ups[s]
                 /\ \A id \in DOMAIN ups[s] :
                       /\ Kept(uploads'[s][id], ups[s][id])
                       /\ uploads'[s][id].alone => ups[s][id].temp \notin ns
<1>1. /\ uploads' = [s \in Sessions |-> uploads'[s]]
      /\ \A s \in Sessions : /\ uploads'[s] = [id \in DOMAIN uploads'[s] |-> uploads'[s][id]]
                             /\ DOMAIN uploads'[s] = DOMAIN ups[s]
  BY DEF Disturb
<1>2. ASSUME NEW s \in Sessions, NEW id \in DOMAIN ups[s]
      PROVE  /\ Kept(uploads'[s][id], ups[s][id])
             /\ uploads'[s][id].alone => ups[s][id].temp \notin ns
  <2>1. ups[s][id] \in Upload
    BY <1>2
  <2>2. uploads'[s][id] = IF ups[s][id].temp \in ns THEN [ups[s][id] EXCEPT !.alone = FALSE]
                          ELSE ups[s][id]
    BY <1>2 DEF Disturb
  <2>3. CASE ups[s][id].temp \in ns
    BY <2>1, <2>2, <2>3 DEF Kept, Upload
  <2>4. CASE ups[s][id].temp \notin ns
    BY <2>1, <2>2, <2>4 DEF Kept, Upload
  <2> QED
    BY <2>3, <2>4
<1> QED
  BY <1>1, <1>2

LEMMA DisturbAll ==
    ASSUME Transfers, NEW ns, NEW s, uploads' = Disturb(uploads, ns)
    PROVE  Remain(s, 0, ns)
<1>1. \A t \in Sessions : \A j \in DOMAIN uploads[t] : uploads[t][j] \in Upload /\ j # 0
  BY DEF Transfers
<1> QED
  BY <1>1, DisturbKeeps DEF Remain

LEMMA DisturbOthers ==
    ASSUME Transfers, NEW ns, NEW s \in Sessions, NEW id,
           uploads' = Disturb([uploads EXCEPT ![s] = Without(@, id)], ns)
    PROVE  Remain(s, id, ns)
<1> DEFINE ups == [uploads EXCEPT ![s] = Without(@, id)]
<1>1. \A t \in Sessions :
         /\ DOMAIN ups[t] = {j \in DOMAIN uploads[t] : ~(t = s /\ j = id)}
         /\ \A j \in DOMAIN ups[t] : ups[t][j] = uploads[t][j] /\ uploads[t][j] \in Upload
  BY DEF Transfers, Without
<1> HIDE DEF ups
<1>2. uploads' = Disturb(ups, ns)
  BY DEF ups
<1>3. \A t \in Sessions : \A j \in DOMAIN ups[t] : ups[t][j] \in Upload
  BY <1>1
<1>4. /\ uploads' = [t \in Sessions |-> uploads'[t]]
      /\ \A t \in Sessions :
            /\ uploads'[t] = [j \in DOMAIN uploads'[t] |-> uploads'[t][j]]
            /\ DOMAIN uploads'[t] = DOMAIN ups[t]
            /\ \A j \in DOMAIN ups[t] :
                  /\ Kept(uploads'[t][j], ups[t][j])
                  /\ uploads'[t][j].alone => ups[t][j].temp \notin ns
  BY <1>2, <1>3, DisturbKeeps
<1>5. ASSUME NEW t \in Sessions, NEW j \in DOMAIN uploads'[t]
      PROVE  /\ Kept(uploads'[t][j], uploads[t][j])
             /\ uploads'[t][j].alone => uploads[t][j].temp \notin ns
  <2>1. j \in DOMAIN ups[t] /\ ups[t][j] = uploads[t][j]
    BY <1>1, <1>4, <1>5
  <2> QED
    BY <1>4, <2>1
<1> QED
  BY <1>1, <1>4, <1>5 DEF Remain

LEMMA DropQuietly ==
    ASSUME Transfers, NEW s \in Sessions, NEW id,
           uploads' = [uploads EXCEPT ![s] = Without(@, id)]
    PROVE  Remain(s, id, {})
<1>1. uploads' = [t \in Sessions |-> uploads'[t]]
  BY DEF Transfers
<1>2. \A t \in Sessions :
         /\ uploads'[t] = [j \in DOMAIN uploads'[t] |-> uploads'[t][j]]
         /\ DOMAIN uploads'[t] = {j \in DOMAIN uploads[t] : ~(t = s /\ j = id)}
         /\ \A j \in DOMAIN uploads'[t] : uploads'[t][j] = uploads[t][j] /\ uploads[t][j] \in Upload
  BY DEF Transfers, Without
<1> QED
  BY <1>1, <1>2 DEF Remain, Kept

-----------------------------------------------------------------------------
(* The parts of TypeInv under the three ways in which files and transfers  *)
(* change: a file goes, a file is renamed, transfers remain.               *)

LEMMA FileGoes ==
    ASSUME Files, NEW n, data' = Without(data, n), vouched' = Without(vouched, n)
    PROVE  /\ Files'
           /\ \A m \in DOMAIN data \ {n} : m \in DOMAIN data' /\ data'[m] = data[m]
           /\ DOMAIN data' = DOMAIN data \ {n}
           /\ DOMAIN vouched' = DOMAIN vouched \ {n}
           /\ \A m \in DOMAIN vouched' : vouched'[m] = vouched[m]
  BY DEF Files, Without

LEMMA FileRenamed ==
    ASSUME Files, NEW a \in DOMAIN data, NEW b \in Names, data' = Renamed(a, b)
    PROVE  /\ data' = [n \in DOMAIN data' |-> data'[n]]
           /\ DOMAIN data' = (DOMAIN data \ {a}) \cup {b}
           /\ data'[b] = data[a]
           /\ \A m \in DOMAIN data \ {a, b} : data'[m] = data[m]
           /\ \A m \in DOMAIN data' : data'[m] \in Contents
<1>1. CASE a = b
  BY <1>1 DEF Files, Renamed
<1>2. CASE a # b
  <2>1. data' = With(Without(data, a), b, data[a])
    BY <1>2 DEF Renamed
  <2> QED
    BY <2>1, <1>2 DEF Files, With, Without
<1> QED
  BY <1>1, <1>2

LEMMA TransfersRemain ==
    ASSUME Transfers, NEW s, NEW id, NEW ns, Remain(s, id, ns), nextId' = nextId
    PROVE  Transfers'
  BY DEF Transfers, Remain, Kept

\* No handle is on a file that goes or appears, and the other files stay.
LEMMA HandlesRemain ==
    ASSUME Handles, NEW s, NEW id, NEW ns, Remain(s, id, ns),
           NEW ms, \A n \in ms : \A t \in Sessions :
                      /\ n \notin reading[t]
                      /\ \A j \in DOMAIN uploads'[t] : uploads'[t][j].open => uploads'[t][j].temp # n,
           \A n \in DOMAIN data \ ms :
              n \in DOMAIN data' /\ (n \in DOMAIN vouched' => n \in DOMAIN vouched),
           reading' = reading
    PROVE  Handles'
<1>1. ASSUME NEW t \in Sessions, NEW j \in DOMAIN uploads'[t], uploads'[t][j].open
      PROVE  uploads'[t][j].temp \in DOMAIN data' \ DOMAIN vouched'
  <2>1. /\ j \in DOMAIN uploads[t]
        /\ uploads[t][j].open /\ uploads[t][j].temp = uploads'[t][j].temp
    BY <1>1 DEF Remain, Kept
  <2>2. uploads'[t][j].temp \in DOMAIN data \ DOMAIN vouched
    BY <2>1 DEF Handles
  <2> QED
    BY <1>1, <2>2
<1>2. ASSUME NEW t \in Sessions, NEW n \in reading[t]
      PROVE  n \in DOMAIN data'
  <2>1. n \in DOMAIN data
    BY DEF Handles
  <2> QED
    BY <2>1
<1> QED
  BY <1>1, <1>2 DEF Handles

\* A transfer leaves a session that was judging it.
LEMMA JudgedGoes ==
    ASSUME TypeInv, NEW s \in Sessions, NEW ns, Remain(s, current[s], ns),
           pc[s] \in {"rename", "discard"}, pc' = [pc EXCEPT ![s] = "loop"],
           current' = [current EXCEPT ![s] = 0]
    PROVE  AtHand'
<1> SUFFICES ASSUME NEW t \in Sessions
             PROVE  AtHandOf(t)'
  BY DEF AtHand
<1>1. \A j \in DOMAIN uploads'[t] :
         /\ j \in DOMAIN uploads[t]
         /\ uploads'[t][j].open = uploads[t][j].open
         /\ Matches(uploads'[t][j]) = Matches(uploads[t][j])
  BY DEF Remain, Kept, Matches
<1>2. CASE t = s
  <2>1. pc'[t] = "loop"
    BY <1>2 DEF TypeInv, Loops
  <2>2. ASSUME NEW j \in DOMAIN uploads'[t]
        PROVE  uploads'[t][j].open
    <3>1. j \in DOMAIN uploads[t] /\ j # current[t]
      BY <1>2, <2>2 DEF Remain
    <3> QED
      BY <1>1, <1>2, <2>2, <3>1 DEF TypeInv, AtHand, AtHandOf
  <2> QED
    BY <2>1, <2>2 DEF AtHandOf
<1>3. CASE t # s
  <2>1. pc'[t] = pc[t] /\ current'[t] = current[t]
    BY <1>3 DEF TypeInv, Loops
  <2>2. DOMAIN uploads'[t] = DOMAIN uploads[t]
    BY <1>3 DEF Remain
  <2> QED
    BY <1>1, <2>1, <2>2 DEF TypeInv, AtHand, AtHandOf, Mine
<1> QED
  BY <1>2, <1>3

\* Transfers of sessions that are not judging, or that go on judging.
LEMMA AtHandRemains ==
    ASSUME TypeInv, NEW s \in Sessions, NEW id, NEW ns, Remain(s, id, ns),
           id = 0 \/ pc[s] = "ending", UNCHANGED <<pc, current>>
    PROVE  AtHand'
<1> SUFFICES ASSUME NEW t \in Sessions
             PROVE  AtHandOf(t)'
  BY DEF AtHand
<1>1. ASSUME id = 0
      PROVE  DOMAIN uploads'[t] = DOMAIN uploads[t]
  BY <1>1 DEF TypeInv, Transfers, Remain
<1>2. \A j \in DOMAIN uploads'[t] :
         /\ j \in DOMAIN uploads[t]
         /\ uploads'[t][j].open = uploads[t][j].open
         /\ Matches(uploads'[t][j]) = Matches(uploads[t][j])
  BY DEF Remain, Kept, Matches
<1>3. CASE id = 0 \/ t # s
  <2>1. DOMAIN uploads'[t] = DOMAIN uploads[t]
    BY <1>1, <1>3 DEF Remain
  <2> QED
    BY <1>2, <2>1 DEF TypeInv, AtHand, AtHandOf, Mine
<1>4. CASE id # 0 /\ t = s
  BY <1>4 DEF AtHand, AtHandOf
<1> QED
  BY <1>3, <1>4

-----------------------------------------------------------------------------
(* TypeInv, action by action.                                              *)

\* The upload that a request puts on its session's list.
LEMMA RequestAdds ==
    ASSUME TypeInv, NEW s \in Sessions, NEW n \in Asked, NEW claim \in Claims,
           UploadReq(s, n, claim)
    PROVE  Adds(s, Opened(n, claim))
<1> DEFINE up == Opened(n, claim)
           ups == Disturb(uploads, {up.temp})
<1>1. up \in Upload /\ up.temp = Temp[n] /\ up.final = n /\ up.open
  BY DEF Opened, Upload
<1>2. nextId[s] \notin DOMAIN uploads[s]
  BY DEF TypeInv, Transfers, Loops
<1>3. uploads' = [ups EXCEPT ![s] = With(@, nextId[s], up)]
  BY DEF UploadReq
<1>4. /\ ups = [t \in Sessions |-> ups[t]]
      /\ \A t \in Sessions :
            /\ ups[t] = [j \in DOMAIN ups[t] |-> ups[t][j]]
            /\ DOMAIN ups[t] = DOMAIN uploads[t]
  BY DEF Disturb
<1>5. ASSUME NEW t \in Sessions, NEW j \in DOMAIN uploads[t]
      PROVE  /\ Kept(ups[t][j], uploads[t][j])
             /\ ups[t][j].alone => uploads[t][j].temp # Temp[n]
  <2>1. uploads[t][j] \in Upload
    BY DEF TypeInv, Transfers
  <2>2. ups[t][j] = IF uploads[t][j].temp = Temp[n]
                    THEN [uploads[t][j] EXCEPT !.alone = FALSE] ELSE uploads[t][j]
    BY <1>1 DEF Disturb
  <2> QED
    BY <2>1, <2>2 DEF Kept, Upload
<1> HIDE DEF up, ups
<1>6. \A t \in Sessions : t # s => uploads'[t] = ups[t]
  BY <1>3, <1>4
<1>7. uploads'[s] = With(ups[s], nextId[s], up)
  BY <1>3, <1>4
<1>8. /\ uploads'[s] = [j \in DOMAIN uploads'[s] |-> uploads'[s][j]]
      /\ DOMAIN uploads'[s] = DOMAIN uploads[s] \cup {nextId[s]}
      /\ \A j \in DOMAIN uploads[s] : uploads'[s][j] = ups[s][j]
      /\ uploads'[s][nextId[s]] = up
  BY <1>2, <1>4, <1>7 DEF With
<1>9. uploads' = [t \in Sessions |-> uploads'[t]]
  BY <1>3, <1>4
<1>10. ASSUME NEW t \in Sessions, NEW j \in DOMAIN uploads[t]
       PROVE  /\ Kept(uploads'[t][j], uploads[t][j])
              /\ uploads'[t][j].alone => uploads[t][j].temp # Temp[n]
  <2>1. uploads'[t][j] = ups[t][j]
    BY <1>6, <1>8
  <2> QED
    BY <1>5, <2>1
<1>11. ASSUME NEW t \in Sessions
       PROVE  /\ uploads'[t] = [j \in DOMAIN uploads'[t] |-> uploads'[t][j]]
              /\ t # s => DOMAIN uploads'[t] = DOMAIN uploads[t]
  BY <1>4, <1>6, <1>8
<1>12. Adds(s, up)
  BY <1>1, <1>2, <1>8, <1>9, <1>10, <1>11 DEF Adds
<1> QED
  BY <1>12 DEF up

LEMMA TypeUploadReq ==
    ASSUME TypeInv, NEW s \in Sessions, NEW n \in Asked, NEW claim \in Claims,
           UploadReq(s, n, claim)
    PROVE  TypeInv'
<1> DEFINE up == Opened(n, claim)
<1>1. /\ up \in Upload /\ up.temp = Temp[n] /\ up.final = n /\ up.open
      /\ uploads' = [t \in Sessions |-> uploads'[t]]
      /\ uploads'[s][nextId[s]] = up
  <2>1. Adds(s, up)
    BY RequestAdds
  <2> QED
    BY <2>1 DEF Adds, Opened, Upload
<1>2. /\ DOMAIN uploads'[s] = DOMAIN uploads[s] \cup {nextId[s]}
      /\ \A t \in Sessions :
            /\ uploads'[t] = [j \in DOMAIN uploads'[t] |-> uploads'[t][j]]
            /\ t # s => DOMAIN uploads'[t] = DOMAIN uploads[t]
            /\ \A j \in DOMAIN uploads[t] : Kept(uploads'[t][j], uploads[t][j])
  <2>1. Adds(s, up)
    BY RequestAdds
  <2> HIDE DEF up
  <2> QED
    BY <2>1 DEF Adds
<1>3. /\ data' = With(data, Temp[n], <<>>)
      /\ vouched' = Without(vouched, Temp[n])
      /\ nextId' = [nextId EXCEPT ![s] = @ + 1]
      /\ nextId[s] <= MaxIds /\ pc[s] = "loop"
      /\ meddled' = (meddled \/ {n} \cap Temps # {})
      /\ UNCHANGED <<pc, current, reading, alive, faults>>
  BY <1>1 DEF UploadReq, InLoop, Asks
<1> HIDE DEF up
<1>4. Temp[n] \in Names /\ <<>> \in Contents
  BY DEF Contents
<1>5. Files'
  BY <1>3, <1>4 DEF TypeInv, Files, With, Without
<1>6. Transfers'
  <2>1. nextId'[s] = nextId[s] + 1 /\ \A t \in Sessions \ {s} : nextId'[t] = nextId[t]
    BY <1>3 DEF TypeInv, Loops
  <2>2. \A t \in Sessions : nextId[t] \in Nat \ {0}
    BY DEF TypeInv, Loops
  <2>3. ASSUME NEW t \in Sessions
        PROVE  DOMAIN uploads'[t] \subseteq 1 .. nextId'[t] - 1
    <3>1. DOMAIN uploads[t] \subseteq 1 .. nextId[t] - 1
      BY DEF TypeInv, Transfers
    <3>2. CASE t = s
      <4>1. DOMAIN uploads'[s] = DOMAIN uploads[s] \cup {nextId[s]}
        BY <1>2
      <4> QED
        BY <2>1, <2>2, <3>1, <3>2, <4>1
    <3>3. CASE t # s
      BY <1>2, <2>1, <3>1, <3>3
    <3> QED
      BY <3>2, <3>3
  <2>4. ASSUME NEW t \in Sessions, NEW j \in DOMAIN uploads'[t]
        PROVE  /\ uploads'[t][j] \in Upload
               /\ uploads'[t][j].final \in Asked
               /\ uploads'[t][j].temp = Temp[uploads'[t][j].final]
    <3>1. CASE j \in DOMAIN uploads[t]
      <4>1. Kept(uploads'[t][j], uploads[t][j])
        BY <1>2, <3>1
      <4> QED
        BY <3>1, <4>1 DEF TypeInv, Transfers, Kept
    <3>2. CASE j \notin DOMAIN uploads[t]
      <4>1. t = s /\ j = nextId[s]
        BY <1>2, <2>4, <3>2
      <4> QED
        BY <1>1, <4>1
    <3> QED
      BY <3>1, <3>2
  <2> QED
    BY <1>1, <1>2, <2>3, <2>4 DEF Transfers
<1>7. Loops'
  BY <1>3 DEF TypeInv, Loops
<1>8. AtHand'
  <2> SUFFICES ASSUME NEW t \in Sessions
               PROVE  AtHandOf(t)'
    BY DEF AtHand
  <2>1. CASE t = s
    <3>1. ASSUME NEW j \in DOMAIN uploads'[s]
          PROVE  uploads'[s][j].open
      <4>1. CASE j \in DOMAIN uploads[s]
        <5>1. Kept(uploads'[s][j], uploads[s][j])
          BY <1>2, <4>1
        <5> QED
          BY <1>3, <4>1, <5>1 DEF TypeInv, AtHand, AtHandOf, Kept
      <4>2. CASE j = nextId[s]
        BY <1>1, <4>2
      <4> QED
        BY <1>2, <3>1, <4>1, <4>2
    <3> QED
      BY <1>3, <2>1, <3>1 DEF AtHandOf
  <2>2. CASE t # s
    <3>1. ASSUME NEW j \in DOMAIN uploads[t]
          PROVE  /\ uploads'[t][j].open = uploads[t][j].open
                 /\ Matches(uploads'[t][j]) = Matches(uploads[t][j])
      <4>1. Kept(uploads'[t][j], uploads[t][j])
        BY <1>2
      <4> QED
        BY <4>1 DEF Kept, Matches
    <3> QED
      BY <1>2, <1>3, <2>2, <3>1 DEF TypeInv, AtHand, AtHandOf, Mine
  <2> QED
    BY <2>1, <2>2
<1>9. Handles'
  <2>1. /\ DOMAIN data' = DOMAIN data \cup {Temp[n]}
        /\ DOMAIN vouched' = DOMAIN vouched \ {Temp[n]}
    BY <1>3 DEF With, Without
  <2>2. ASSUME NEW t \in Sessions, NEW j \in DOMAIN uploads'[t], uploads'[t][j].open
        PROVE  uploads'[t][j].temp \in DOMAIN data' \ DOMAIN vouched'
    <3>1. CASE j \in DOMAIN uploads[t]
      <4>1. Kept(uploads'[t][j], uploads[t][j])
        BY <1>2, <3>1
      <4> QED
        BY <2>1, <2>2, <3>1, <4>1 DEF TypeInv, Handles, Kept
    <3>2. CASE j \notin DOMAIN uploads[t]
      <4>1. t = s /\ j = nextId[s]
        BY <1>2, <2>2, <3>2
      <4> QED
        BY <1>1, <2>1, <4>1
    <3> QED
      BY <3>1, <3>2
  <2> QED
    BY <1>3, <2>1, <2>2 DEF TypeInv, Handles
<1> QED
  BY <1>5, <1>6, <1>7, <1>8, <1>9 DEF TypeInv

LEMMA TransfersChange ==
    ASSUME Transfers, NEW s \in Sessions, NEW id \in DOMAIN uploads[s], Changes(s, id),
           nextId' = nextId
    PROVE  Transfers'
<1>1. ASSUME NEW t \in Sessions, NEW j \in DOMAIN uploads[t]
      PROVE  /\ uploads'[t][j] \in Upload
             /\ uploads'[t][j].final = uploads[t][j].final
             /\ uploads'[t][j].temp = uploads[t][j].temp
  <2>1. CASE t = s /\ j = id
    BY <2>1 DEF Changes
  <2>2. CASE ~(t = s /\ j = id)
    <3>1. uploads'[t][j] = uploads[t][j]
      BY <2>2 DEF Changes
    <3> QED
      BY <3>1 DEF Transfers
  <2> QED
    BY <2>1, <2>2
<1>2. ASSUME NEW t \in Sessions
      PROVE  /\ uploads'[t] = [j \in DOMAIN uploads'[t] |-> uploads'[t][j]]
             /\ DOMAIN uploads'[t] = DOMAIN uploads[t]
             /\ DOMAIN uploads'[t] \subseteq 1 .. nextId'[t] - 1
  BY DEF Transfers, Changes
<1>3. uploads' = [t \in Sessions |-> uploads'[t]]
  BY DEF Changes
<1> QED
  BY <1>1, <1>2, <1>3 DEF Transfers

LEMMA PutChanges ==
    ASSUME Transfers, NEW s \in Sessions, NEW id \in DOMAIN uploads[s], NEW up \in Upload,
           up.final = uploads[s][id].final, up.temp = uploads[s][id].temp,
           up.declared = uploads[s][id].declared, up.alone = uploads[s][id].alone,
           uploads' = [uploads EXCEPT ![s] = [uploads[s] EXCEPT ![id] = up]]
    PROVE  Changes(s, id) /\ uploads'[s][id] = up
<1>1. /\ uploads' = [t \in Sessions |-> uploads'[t]]
      /\ uploads'[s][id] = up
      /\ \A t \in Sessions :
            /\ uploads'[t] = [j \in DOMAIN uploads'[t] |-> uploads'[t][j]]
            /\ DOMAIN uploads'[t] = DOMAIN uploads[t]
            /\ \A j \in DOMAIN uploads[t] :
                  ~(t = s /\ j = id) => uploads'[t][j] = uploads[t][j]
  BY DEF Transfers
<1> QED
  BY <1>1 DEF Changes

\* A block makes the hash longer, and may break the stream.
LEMMA BlockChanges ==
    ASSUME Transfers, NEW s \in Sessions, NEW id \in DOMAIN uploads[s], NEW b \in Blocks,
           Block(s, id, b)
    PROVE  /\ Changes(s, id)
           /\ uploads'[s][id].open = uploads[s][id].open
           /\ uploads'[s][id].hashed = Append(uploads[s][id].hashed, b)
           /\ \/ /\ uploads[s][id].good /\ uploads'[s][id].good
                 /\ data' = [data EXCEPT ![uploads[s][id].temp] =
                                WriteAt(@, Len(uploads[s][id].hashed) + 1, b)]
                 /\ faults' = faults
              \/ /\ ~uploads'[s][id].good
                 /\ data' = data
                 /\ faults' = faults \/ (faults < MaxFaults /\ faults' = faults + 1)
<1> DEFINE up == uploads[s][id]
<1>1. up \in Upload
  BY DEF Transfers
<1>2. PICK g \in BOOLEAN :
         /\ uploads' = [uploads EXCEPT ![s] = [uploads[s] EXCEPT ![id] =
                           [up EXCEPT !.hashed = Append(up.hashed, b), !.good = g]]]
         /\ \/ /\ up.good /\ g
               /\ data' = [data EXCEPT ![up.temp] = WriteAt(@, Len(up.hashed) + 1, b)]
               /\ faults' = faults
            \/ /\ ~g
               /\ data' = data
               /\ faults' = faults \/ (faults < MaxFaults /\ faults' = faults + 1)
  <2> DEFINE Leaves(g) == uploads' = [uploads EXCEPT ![s] = [uploads[s] EXCEPT ![id] =
                             [up EXCEPT !.hashed = Append(up.hashed, b), !.good = g]]]
  <2>1. /\ up.good \in BOOLEAN
        /\ [up EXCEPT !.hashed = Append(up.hashed, b)]
              = [up EXCEPT !.hashed = Append(up.hashed, b), !.good = up.good]
    BY <1>1 DEF Upload
  <2>2. CASE /\ up.good
             /\ data' = [data EXCEPT ![up.temp] = WriteAt(@, Len(up.hashed) + 1, b)]
             /\ uploads' = [uploads EXCEPT ![s][id].hashed = Append(@, b)]
             /\ faults' = faults
    <3>1. Leaves(up.good)
      BY <2>1, <2>2
    <3> QED
      BY <2>1, <2>2, <3>1
  <2>3. CASE /\ uploads' = [uploads EXCEPT ![s][id].hashed = Append(@, b), ![s][id].good = FALSE]
             /\ data' = data
             /\ faults < MaxFaults /\ faults' = faults + 1
    <3>1. Leaves(FALSE)
      BY <2>3
    <3> QED
      BY <2>3, <3>1
  <2>4. CASE /\ ~up.good
             /\ uploads' = [uploads EXCEPT ![s][id].hashed = Append(@, b)]
             /\ data' = data /\ faults' = faults
    <3>1. Leaves(up.good)
      BY <2>1, <2>4
    <3> QED
      BY <2>1, <2>4, <3>1
  <2> QED
    BY <2>2, <2>3, <2>4 DEF Block
<1> DEFINE new == [up EXCEPT !.hashed = Append(up.hashed, b), !.good = g]
<1>3. /\ new \in Upload /\ new.final = up.final /\ new.temp = up.temp
      /\ new.declared = up.declared /\ new.alone = up.alone /\ new.open = up.open
      /\ new.hashed = Append(up.hashed, b) /\ new.good = g
  <2>1. Append(up.hashed, b) \in Seq(Blocks)
    BY <1>1 DEF Upload
  <2> HIDE DEF up
  <2> QED
    BY <1>1, <2>1 DEF Upload
<1> HIDE DEF new
<1>4. uploads' = [uploads EXCEPT ![s] = [uploads[s] EXCEPT ![id] = new]]
  BY <1>2 DEF new
<1>5. Changes(s, id) /\ uploads'[s][id] = new
  BY <1>3, <1>4, PutChanges
<1> QED
  BY <1>2, <1>3, <1>5

\* A transfer's file is closed.
Closed(up) == [up EXCEPT !.open = FALSE]

LEMMA CloseChanges ==
    ASSUME Transfers, NEW s \in Sessions, NEW id \in DOMAIN uploads[s],
           uploads' = [uploads EXCEPT ![s] = [uploads[s] EXCEPT ![id] = Closed(uploads[s][id])]]
    PROVE  /\ Changes(s, id)
           /\ ~uploads'[s][id].open
           /\ uploads'[s][id].hashed = uploads[s][id].hashed
           /\ uploads'[s][id].good = uploads[s][id].good
<1> DEFINE new == Closed(uploads[s][id])
<1>1. uploads[s][id] \in Upload
  BY DEF Transfers
<1>2. /\ new \in Upload /\ new.final = uploads[s][id].final /\ new.temp = uploads[s][id].temp
      /\ new.declared = uploads[s][id].declared /\ new.alone = uploads[s][id].alone /\ ~new.open
      /\ new.hashed = uploads[s][id].hashed /\ new.good = uploads[s][id].good
  BY <1>1 DEF Upload, Closed
<1>3. Changes(s, id) /\ uploads'[s][id] = new
  BY <1>2, PutChanges
<1> QED
  BY <1>2, <1>3

LEMMA HandlesChange ==
    ASSUME Handles, NEW s \in Sessions, NEW id \in DOMAIN uploads[s], Changes(s, id),
           uploads'[s][id].open => uploads[s][id].open,
           DOMAIN data' = DOMAIN data, vouched' = vouched, reading' = reading
    PROVE  Handles'
<1>1. ASSUME NEW t \in Sessions, NEW j \in DOMAIN uploads[t], uploads'[t][j].open
      PROVE  uploads'[t][j].temp \in DOMAIN data' \ DOMAIN vouched'
  <2>1. uploads[t][j].open /\ uploads'[t][j].temp = uploads[t][j].temp
    <3>1. CASE t = s /\ j = id
      BY <1>1, <3>1 DEF Changes
    <3>2. CASE ~(t = s /\ j = id)
      BY <1>1, <3>2 DEF Changes
    <3> QED
      BY <3>1, <3>2
  <2> QED
    BY <2>1 DEF Handles
<1>2. \A t \in Sessions : DOMAIN uploads'[t] = DOMAIN uploads[t]
  BY DEF Changes
<1> QED
  BY <1>1, <1>2 DEF Handles

\* The other sessions are where they were.
LEMMA OthersAtHand ==
    ASSUME TypeInv, NEW s \in Sessions, NEW id, Changes(s, id),
           NEW t \in Sessions \ {s}, pc'[t] = pc[t], current'[t] = current[t]
    PROVE  AtHandOf(t)'
<1>1. /\ DOMAIN uploads'[t] = DOMAIN uploads[t]
      /\ \A j \in DOMAIN uploads[t] : uploads'[t][j] = uploads[t][j]
  BY DEF Changes
<1>2. AtHandOf(t)
  BY DEF TypeInv, AtHand
<1>3. pc[t] = "rename" => Mine(t)' = Mine(t)
  BY <1>1, <1>2 DEF Mine, AtHandOf
<1> QED
  BY <1>1, <1>2, <1>3 DEF AtHandOf, Matches

\* A file a stream writes stays a file of blocks.
LEMMA WriteKeepsContents ==
    ASSUME NEW c \in Contents, NEW k \in Nat \ {0}, NEW b \in Blocks
    PROVE  WriteAt(c, k, b) \in Contents
<1>1. Len(c) \in Nat /\ \A i \in 1 .. Len(c) : c[i] \in Blocks \cup {Hole}
  BY DEF Contents
<1> DEFINE n == IF Len(c) > k THEN Len(c) ELSE k
<1>2. n \in Nat /\ \A i \in 1 .. n :
         (IF i = k THEN b ELSE IF i <= Len(c) THEN c[i] ELSE Hole) \in Blocks \cup {Hole}
  BY <1>1
<1> HIDE DEF n
<1>3. WriteAt(c, k, b) \in [1 .. n -> Blocks \cup {Hole}]
  BY <1>2 DEF WriteAt, n
<1> QED
  BY <1>2, <1>3 DEF Contents

LEMMA TypeBlock ==
    ASSUME TypeInv, NEW s \in Sessions, NEW id \in DOMAIN uploads[s], NEW b \in Blocks,
           Block(s, id, b)
    PROVE  TypeInv'
<1>1. Changes(s, id) /\ uploads'[s][id].open = uploads[s][id].open
  BY BlockChanges DEF TypeInv
<1>2. /\ pc[s] = "loop" /\ UNCHANGED <<nextId, pc, current, reading, alive, vouched, meddled>>
  BY DEF Block, InLoop, session
<1>3. uploads[s][id] \in Upload
  BY DEF TypeInv, Transfers
<1>4. \/ data' = [data EXCEPT ![uploads[s][id].temp] = WriteAt(@, Len(uploads[s][id].hashed) + 1, b)]
      \/ data' = data
  BY BlockChanges DEF TypeInv
<1>5. faults' = faults \/ (faults < MaxFaults /\ faults' = faults + 1)
  BY BlockChanges DEF TypeInv
<1>6. Files' /\ DOMAIN data' = DOMAIN data
  <2>1. CASE data' = data
    BY <1>2, <2>1 DEF TypeInv, Files
  <2>2. CASE data' = [data EXCEPT ![uploads[s][id].temp] =
                         WriteAt(@, Len(uploads[s][id].hashed) + 1, b)]
    <3> DEFINE m == uploads[s][id].temp
               k == Len(uploads[s][id].hashed) + 1
    <3>1. k \in Nat \ {0}
      BY <1>3 DEF Upload
    <3> HIDE DEF m, k
    <3>2. data' = [data EXCEPT ![m] = WriteAt(@, k, b)]
      BY <2>2 DEF m, k
    <3>3. /\ DOMAIN data' = DOMAIN data /\ data' = [n \in DOMAIN data' |-> data'[n]]
          /\ \A n \in DOMAIN data : data'[n] = data[n] \/ data'[n] = WriteAt(data[n], k, b)
      BY <3>2 DEF TypeInv, Files
    <3>4. \A n \in DOMAIN data' : data'[n] \in Contents
      BY <3>1, <3>3, WriteKeepsContents DEF TypeInv, Files
    <3> QED
      BY <1>2, <3>3, <3>4 DEF TypeInv, Files
  <2> QED
    BY <1>4, <2>1, <2>2
<1>7. Transfers'
  BY <1>1, <1>2, TransfersChange DEF TypeInv
<1>8. Loops'
  BY <1>2, <1>5 DEF TypeInv, Loops
<1>9. AtHand'
  <2>1. AtHandOf(s)'
    <3>1. \A j \in DOMAIN uploads[s] : uploads'[s][j].open = uploads[s][j].open
      BY <1>1 DEF Changes
    <3> QED
      BY <1>1, <1>2, <3>1 DEF TypeInv, AtHand, AtHandOf, Changes
  <2>2. ASSUME NEW t \in Sessions \ {s} PROVE AtHandOf(t)'
    BY <1>1, <1>2, OthersAtHand
  <2> QED
    BY <2>1, <2>2 DEF AtHand
<1>10. Handles'
  BY <1>1, <1>2, <1>6, HandlesChange DEF TypeInv
<1> QED
  BY <1>6, <1>7, <1>8, <1>9, <1>10 DEF TypeInv

LEMMA TypeComplete ==
    ASSUME TypeInv, NEW s \in Sessions, NEW id \in DOMAIN uploads[s], Complete(s, id)
    PROVE  TypeInv'
<1>1. /\ uploads' = [uploads EXCEPT ![s] = [uploads[s] EXCEPT ![id] = Closed(uploads[s][id])]]
      /\ pc[s] = "loop"
      /\ current' = [current EXCEPT ![s] = id]
      /\ pc' = [pc EXCEPT ![s] = IF Matches(uploads[s][id]) THEN "rename" ELSE "discard"]
      /\ UNCHANGED <<data, nextId, reading, alive, faults, vouched, meddled>>
  BY DEF Complete, InLoop, Closed
<1>2. /\ Changes(s, id) /\ ~uploads'[s][id].open
      /\ uploads'[s][id].hashed = uploads[s][id].hashed
  BY <1>1, CloseChanges DEF TypeInv
<1>3. id \in 1 .. MaxIds
  BY DEF TypeInv, Transfers, Loops
<1>4. Files'
  BY <1>1 DEF TypeInv, Files
<1>5. Transfers'
  BY <1>1, <1>2, TransfersChange DEF TypeInv
<1>6. Loops'
  BY <1>1, <1>3 DEF TypeInv, Loops
<1>7. AtHand'
  <2>1. AtHandOf(s)'
    <3>1. /\ current'[s] = id /\ DOMAIN uploads'[s] = DOMAIN uploads[s]
          /\ pc'[s] = IF Matches(uploads[s][id]) THEN "rename" ELSE "discard"
      BY <1>1, <1>2 DEF TypeInv, Loops, Changes
    <3>2. \A j \in DOMAIN uploads[s] : uploads[s][j].open
      BY <1>1 DEF TypeInv, AtHand, AtHandOf
    <3>3. \A j \in DOMAIN uploads[s] : uploads'[s][j].open <=> j # id
      BY <1>2, <3>2 DEF Changes
    <3>4. Matches(uploads'[s][id]) = Matches(uploads[s][id])
      BY <1>2 DEF Matches, Changes
    <3> QED
      BY <3>1, <3>3, <3>4 DEF AtHandOf, Mine
  <2>2. ASSUME NEW t \in Sessions \ {s} PROVE AtHandOf(t)'
    <3>1. pc'[t] = pc[t] /\ current'[t] = current[t]
      BY <1>1 DEF TypeInv, Loops
    <3> QED
      BY <1>2, <3>1, OthersAtHand
  <2> QED
    BY <2>1, <2>2 DEF AtHand
<1>8. Handles'
  BY <1>1, <1>2, HandlesChange DEF TypeInv
<1> QED
  BY <1>4, <1>5, <1>6, <1>7, <1>8 DEF TypeInv

LEMMA TypeCloseUpload ==
    ASSUME TypeInv, NEW s \in Sessions, CloseUpload(s)
    PROVE  TypeInv'
<1>1. PICK id \in DOMAIN uploads[s] :
         uploads' = [uploads EXCEPT ![s] = [uploads[s] EXCEPT ![id] = Closed(uploads[s][id])]]
  BY DEF CloseUpload, Closed
<1>2. /\ pc[s] = "ending"
      /\ UNCHANGED <<data, nextId, pc, current, reading, alive, faults, vouched, meddled>>
  BY DEF CloseUpload, session
<1>3. Changes(s, id) /\ ~uploads'[s][id].open
  BY <1>1, CloseChanges DEF TypeInv
<1>4. Files' /\ Loops'
  BY <1>2 DEF TypeInv, Files, Loops
<1>5. Transfers'
  BY <1>2, <1>3, TransfersChange DEF TypeInv
<1>6. AtHand'
  <2>1. AtHandOf(s)'
    BY <1>2 DEF AtHandOf
  <2>2. ASSUME NEW t \in Sessions \ {s} PROVE AtHandOf(t)'
    BY <1>2, <1>3, OthersAtHand
  <2> QED
    BY <2>1, <2>2 DEF AtHand
<1>7. Handles'
  BY <1>2, <1>3, HandlesChange DEF TypeInv
<1> QED
  BY <1>4, <1>5, <1>6, <1>7 DEF TypeInv

\* What Install does when the file system lets it.
LEMMA InstallMoves ==
    ASSUME TypeInv, NEW s \in Sessions, Install(s), CanRename(Mine(s).temp, Mine(s).final)
    PROVE  /\ current[s] \in DOMAIN uploads[s] /\ Mine(s) \in Upload
           /\ ~Mine(s).open /\ Matches(Mine(s))
           /\ Mine(s).final \in Asked /\ Mine(s).temp = Temp[Mine(s).final]
           /\ Mine(s).temp \in DOMAIN data
           /\ data' = Renamed(Mine(s).temp, Mine(s).final)
           /\ vouched' = With(Without(vouched, Mine(s).temp), Mine(s).final,
                              [sha256 |-> Mine(s).declared.sha256,
                               alone |-> Mine(s).alone /\ Mine(s).good])
           /\ Remain(s, current[s], {Mine(s).temp, Mine(s).final})
           /\ pc[s] = "rename" /\ pc' = [pc EXCEPT ![s] = "loop"]
           /\ current' = [current EXCEPT ![s] = 0]
           /\ UNCHANGED <<nextId, reading, alive, faults, meddled>>
<1>1. /\ current[s] \in DOMAIN uploads[s]
      /\ ~Mine(s).open /\ Matches(Mine(s))
  BY DEF Install, TypeInv, AtHand, AtHandOf, Mine
<1>2. Mine(s) \in Upload /\ Mine(s).final \in Asked /\ Mine(s).temp = Temp[Mine(s).final]
  BY <1>1 DEF TypeInv, Transfers, Mine
<1>3. /\ data' = Renamed(Mine(s).temp, Mine(s).final)
      /\ vouched' = With(Without(vouched, Mine(s).temp), Mine(s).final,
                         [sha256 |-> Mine(s).declared.sha256,
                          alone |-> Mine(s).alone /\ Mine(s).good])
      /\ uploads' = Disturb(Others(s), {Mine(s).temp, Mine(s).final})
      /\ pc[s] = "rename" /\ pc' = [pc EXCEPT ![s] = "loop"]
      /\ current' = [current EXCEPT ![s] = 0]
      /\ UNCHANGED <<nextId, reading, alive, faults, meddled>>
  BY DEF Install
<1>4. Remain(s, current[s], {Mine(s).temp, Mine(s).final})
  BY <1>3, DisturbOthers DEF TypeInv, Others
<1> QED
  BY <1>1, <1>2, <1>3, <1>4 DEF CanRename, Exists

\* A handle that is left is on no file that the file system let go.
LEMMA FreeFiles ==
    ASSUME NEW n, ~InUse(n), NEW s, NEW id, NEW ns, Remain(s, id, ns), reading' = reading
    PROVE  \A t \in Sessions :
              /\ n \notin reading[t]
              /\ \A j \in DOMAIN uploads'[t] : uploads'[t][j].open => uploads'[t][j].temp # n
  BY DEF InUse, Remain, Kept

LEMMA TypeInstall ==
    ASSUME TypeInv, NEW s \in Sessions, Install(s)
    PROVE  TypeInv'
<1>1. CASE CanRename(Mine(s).temp, Mine(s).final)
  <2> DEFINE a == Mine(s).temp
             b == Mine(s).final
  <2>1. /\ a \in DOMAIN data /\ b \in Names
        /\ data' = Renamed(a, b)
        /\ DOMAIN vouched' = (DOMAIN vouched \ {a}) \cup {b}
        /\ Remain(s, current[s], {a, b})
        /\ pc[s] = "rename" /\ pc' = [pc EXCEPT ![s] = "loop"]
        /\ current' = [current EXCEPT ![s] = 0]
        /\ UNCHANGED <<nextId, reading, alive, faults, meddled>>
    BY <1>1, InstallMoves DEF With, Without
  <2>2. ~InUse(a) /\ ~InUse(b)
    BY <1>1 DEF CanRename
  <2> HIDE DEF a, b
  <2>3. Files' /\ DOMAIN data' = (DOMAIN data \ {a}) \cup {b}
    <3>1. /\ data' = [n \in DOMAIN data' |-> data'[n]]
          /\ DOMAIN data' = (DOMAIN data \ {a}) \cup {b}
          /\ \A m \in DOMAIN data' : data'[m] \in Contents
      BY <2>1, FileRenamed DEF TypeInv
    <3> QED
      BY <2>1, <3>1 DEF TypeInv, Files
  <2>4. Transfers'
    BY <2>1, TransfersRemain DEF TypeInv
  <2>5. Loops'
    BY <2>1 DEF TypeInv, Loops
  <2>6. AtHand'
    BY <2>1, JudgedGoes
  <2>7. Handles'
    <3>1. \A n \in {a, b} : \A t \in Sessions :
             /\ n \notin reading[t]
             /\ \A j \in DOMAIN uploads'[t] : uploads'[t][j].open => uploads'[t][j].temp # n
      BY <2>1, <2>2, FreeFiles
    <3>2. \A n \in DOMAIN data \ {a, b} :
             n \in DOMAIN data' /\ (n \in DOMAIN vouched' => n \in DOMAIN vouched)
      BY <2>1, <2>3
    <3> DEFINE ms == {a, b}
    <3> HIDE DEF ms
    <3>3. /\ \A n \in ms : \A t \in Sessions :
              /\ n \notin reading[t]
              /\ \A j \in DOMAIN uploads'[t] : uploads'[t][j].open => uploads'[t][j].temp # n
         /\ \A n \in DOMAIN data \ ms :
              n \in DOMAIN data' /\ (n \in DOMAIN vouched' => n \in DOMAIN vouched)
      BY <3>1, <3>2 DEF ms
    <3> QED
      BY <2>1, <3>3, HandlesRemain DEF TypeInv
  <2> QED
    BY <2>3, <2>4, <2>5, <2>6, <2>7 DEF TypeInv
<1>2. CASE ~CanRename(Mine(s).temp, Mine(s).final)
  <2>1. /\ pc[s] = "rename" /\ pc' = [pc EXCEPT ![s] = "discard"]
        /\ UNCHANGED <<data, uploads, current, vouched, nextId, reading, alive, faults, meddled>>
    BY <1>2 DEF Install
  <2>2. Files' /\ Transfers' /\ Loops' /\ Handles'
    BY <2>1 DEF TypeInv, Files, Transfers, Loops, Handles
  <2>3. AtHand'
    BY <2>1 DEF TypeInv, Loops, AtHand, AtHandOf, Mine
  <2> QED
    BY <2>2, <2>3 DEF TypeInv
<1> QED
  BY <1>1, <1>2

\* Of a file that goes with its transfer, or stays because it cannot be removed.
LEMMA TypeWithout ==
    ASSUME TypeInv, NEW n, CanRemove(n), NEW s, NEW id, NEW ns, Remain(s, id, ns),
           data' = Without(data, n), vouched' = Without(vouched, n),
           UNCHANGED <<nextId, reading>>
    PROVE  Files' /\ Transfers' /\ Handles'
<1>1. Files' /\ DOMAIN data' = DOMAIN data \ {n} /\ DOMAIN vouched' = DOMAIN vouched \ {n}
  BY FileGoes DEF TypeInv
<1>2. Transfers'
  BY TransfersRemain DEF TypeInv
<1>3. \A t \in Sessions :
         /\ n \notin reading[t]
         /\ \A j \in DOMAIN uploads'[t] : uploads'[t][j].open => uploads'[t][j].temp # n
  BY FreeFiles DEF CanRemove
<1>4. Handles'
  BY <1>1, <1>3, HandlesRemain DEF TypeInv
<1> QED
  BY <1>1, <1>2, <1>4

LEMMA TypeNothingGoes ==
    ASSUME TypeInv, NEW s, NEW id, NEW ns, Remain(s, id, ns),
           UNCHANGED <<data, vouched, nextId, reading>>
    PROVE  Files' /\ Transfers' /\ Handles'
<1>1. Files'
  BY DEF TypeInv, Files
<1>2. Transfers'
  BY TransfersRemain DEF TypeInv
<1>3. Handles'
  BY DEF TypeInv, Handles, Remain, Kept
<1> QED
  BY <1>1, <1>2, <1>3

LEMMA DiscardDrops ==
    ASSUME TypeInv, NEW s \in Sessions, Discard(s)
    PROVE  /\ current[s] \in DOMAIN uploads[s] /\ ~Mine(s).open
           /\ pc[s] = "discard" /\ pc' = [pc EXCEPT ![s] = "loop"]
           /\ current' = [current EXCEPT ![s] = 0]
           /\ alive /\ UNCHANGED <<nextId, reading, alive, faults, meddled>>
           /\ \/ /\ CanRemove(Mine(s).temp)
                 /\ data' = Without(data, Mine(s).temp)
                 /\ vouched' = Without(vouched, Mine(s).temp)
                 /\ Remain(s, current[s], {Mine(s).temp})
              \/ /\ ~CanRemove(Mine(s).temp)
                 /\ UNCHANGED <<data, vouched>>
                 /\ Remain(s, current[s], {})
<1>1. current[s] \in DOMAIN uploads[s] /\ ~Mine(s).open
  BY DEF Discard, TypeInv, AtHand, AtHandOf, Mine
<1>2. CASE CanRemove(Mine(s).temp)
  <2>1. /\ uploads' = Disturb([uploads EXCEPT ![s] = Without(@, current[s])], {Mine(s).temp})
        /\ data' = Without(data, Mine(s).temp)
        /\ vouched' = Without(vouched, Mine(s).temp)
    BY <1>2 DEF Discard, Others
  <2>2. Remain(s, current[s], {Mine(s).temp})
    BY <2>1, DisturbOthers DEF TypeInv
  <2> QED
    BY <1>1, <1>2, <2>1, <2>2 DEF Discard
<1>3. CASE ~CanRemove(Mine(s).temp)
  <2>1. uploads' = [uploads EXCEPT ![s] = Without(@, current[s])] /\ UNCHANGED <<data, vouched>>
    BY <1>3 DEF Discard, Others
  <2>2. Remain(s, current[s], {})
    BY <2>1, DropQuietly DEF TypeInv
  <2> QED
    BY <1>1, <1>3, <2>1, <2>2 DEF Discard
<1> QED
  BY <1>2, <1>3

LEMMA TypeDiscard ==
    ASSUME TypeInv, NEW s \in Sessions, Discard(s)
    PROVE  TypeInv'
<1>1. /\ pc[s] = "discard" /\ pc' = [pc EXCEPT ![s] = "loop"]
      /\ current' = [current EXCEPT ![s] = 0]
      /\ UNCHANGED <<nextId, reading, alive, faults, meddled>>
      /\ \E ns : Remain(s, current[s], ns)
  BY DiscardDrops
<1>2. Files' /\ Transfers' /\ Handles'
  BY <1>1, DiscardDrops, TypeWithout, TypeNothingGoes
<1>3. Loops'
  BY <1>1 DEF TypeInv, Loops
<1>4. AtHand'
  BY <1>1, JudgedGoes
<1> QED
  BY <1>2, <1>3, <1>4 DEF TypeInv

LEMMA RemoveDrops ==
    ASSUME TypeInv, NEW s \in Sessions, RemoveUpload(s)
    PROVE  \E id \in DOMAIN uploads[s] :
              /\ ~uploads[s][id].open
              /\ \/ /\ CanRemove(uploads[s][id].temp)
                    /\ data' = Without(data, uploads[s][id].temp)
                    /\ vouched' = Without(vouched, uploads[s][id].temp)
                    /\ Remain(s, id, {uploads[s][id].temp})
                 \/ /\ ~CanRemove(uploads[s][id].temp)
                    /\ UNCHANGED <<data, vouched>>
                    /\ Remain(s, id, {})
<1>1. PICK id \in DOMAIN uploads[s] :
         /\ ~uploads[s][id].open
         /\ IF CanRemove(uploads[s][id].temp)
            THEN /\ data' = Without(data, uploads[s][id].temp)
                 /\ vouched' = Without(vouched, uploads[s][id].temp)
                 /\ uploads' = Disturb([uploads EXCEPT ![s] = Without(@, id)],
                                       {uploads[s][id].temp})
            ELSE uploads' = [uploads EXCEPT ![s] = Without(@, id)] /\ UNCHANGED <<data, vouched>>
  BY DEF RemoveUpload
<1>2. CASE CanRemove(uploads[s][id].temp)
  <2>1. Remain(s, id, {uploads[s][id].temp})
    BY <1>1, <1>2, DisturbOthers DEF TypeInv
  <2> QED
    BY <1>1, <1>2, <2>1
<1>3. CASE ~CanRemove(uploads[s][id].temp)
  <2>1. Remain(s, id, {})
    BY <1>1, <1>3, DropQuietly DEF TypeInv
  <2> QED
    BY <1>1, <1>3, <2>1
<1> QED
  BY <1>2, <1>3

LEMMA TypeRemoveUpload ==
    ASSUME TypeInv, NEW s \in Sessions, RemoveUpload(s)
    PROVE  TypeInv'
<1>1. /\ pc[s] = "ending"
      /\ UNCHANGED <<nextId, pc, current, reading, alive, faults, meddled>>
  BY DEF RemoveUpload, session
<1>2. Files' /\ Transfers' /\ Handles' /\ \E id, ns : Remain(s, id, ns)
  BY <1>1, RemoveDrops, TypeWithout, TypeNothingGoes
<1>3. Loops'
  BY <1>1 DEF TypeInv, Loops
<1>4. AtHand'
  BY <1>1, <1>2, AtHandRemains
<1> QED
  BY <1>2, <1>3, <1>4 DEF TypeInv

LEMMA TypeDelete ==
    ASSUME TypeInv, NEW s \in Sessions, NEW n \in Asked, Delete(s, n)
    PROVE  TypeInv'
<1>1. /\ CanRemove(n)
      /\ data' = Without(data, n) /\ vouched' = Without(vouched, n)
      /\ uploads' = Disturb(uploads, {n})
      /\ meddled' = (meddled \/ {n} \cap Temps # {})
      /\ UNCHANGED <<nextId, pc, current, reading, alive, faults>>
  BY DEF Delete, Asks, session
<1>2. Remain(s, 0, {n})
  BY <1>1, DisturbAll DEF TypeInv
<1>3. Files' /\ Transfers' /\ Handles'
  BY <1>1, <1>2, TypeWithout
<1>4. Loops'
  BY <1>1 DEF TypeInv, Loops
<1>5. AtHand'
  BY <1>1, <1>2, AtHandRemains
<1> QED
  BY <1>3, <1>4, <1>5 DEF TypeInv

LEMMA TypeMove ==
    ASSUME TypeInv, NEW s \in Sessions, NEW a \in Asked, NEW b \in Asked, Move(s, a, b)
    PROVE  TypeInv'
<1>1. /\ a # b /\ a \in DOMAIN data /\ b \in Names /\ ~InUse(a) /\ ~InUse(b)
      /\ data' = Renamed(a, b)
      /\ uploads' = Disturb(uploads, {a, b})
      /\ meddled' = (meddled \/ {a, b} \cap Temps # {})
      /\ UNCHANGED <<nextId, pc, current, reading, alive, faults>>
  BY DEF Move, Asks, session, CanRename, Exists
<1>2. DOMAIN vouched' \subseteq (DOMAIN vouched \ {a}) \cup {b}
  BY DEF Move, With, Without
<1>3. Remain(s, 0, {a, b})
  BY <1>1, DisturbAll DEF TypeInv
<1>4. Files' /\ DOMAIN data' = (DOMAIN data \ {a}) \cup {b}
  <2>1. /\ data' = [n \in DOMAIN data' |-> data'[n]]
        /\ DOMAIN data' = (DOMAIN data \ {a}) \cup {b}
        /\ \A m \in DOMAIN data' : data'[m] \in Contents
    BY <1>1, FileRenamed DEF TypeInv
  <2> QED
    BY <1>1, <1>2, <2>1 DEF TypeInv, Files
<1>5. Transfers'
  BY <1>1, <1>3, TransfersRemain DEF TypeInv
<1>6. Loops'
  BY <1>1 DEF TypeInv, Loops
<1>7. AtHand'
  BY <1>1, <1>3, AtHandRemains
<1>8. Handles'
  <2>1. \A n \in {a, b} : \A t \in Sessions :
           /\ n \notin reading[t]
           /\ \A j \in DOMAIN uploads'[t] : uploads'[t][j].open => uploads'[t][j].temp # n
    BY <1>1, <1>3, FreeFiles
  <2>2. \A n \in DOMAIN data \ {a, b} :
           n \in DOMAIN data' /\ (n \in DOMAIN vouched' => n \in DOMAIN vouched)
    BY <1>2, <1>4
  <2> DEFINE ms == {a, b}
  <2> HIDE DEF ms
  <2>3. /\ \A n \in ms : \A t \in Sessions :
            /\ n \notin reading[t]
            /\ \A j \in DOMAIN uploads'[t] : uploads'[t][j].open => uploads'[t][j].temp # n
       /\ \A n \in DOMAIN data \ ms :
            n \in DOMAIN data' /\ (n \in DOMAIN vouched' => n \in DOMAIN vouched)
    BY <2>1, <2>2 DEF ms
  <2> QED
    BY <1>1, <1>3, <2>3, HandlesRemain DEF TypeInv
<1> QED
  BY <1>4, <1>5, <1>6, <1>7, <1>8 DEF TypeInv

\* The steps that leave files and transfers alone.
LEMMA TypeElse ==
    ASSUME TypeInv, NEW s \in Sessions,
           (\E n \in Asked : DownloadReq(s, n)) \/ Sent(s) \/ LoopEnds(s) \/ NextSession(s)
    PROVE  TypeInv'
<1>1. UNCHANGED <<data, uploads, current, alive, faults, vouched>>
  BY DEF DownloadReq, Sent, LoopEnds, NextSession
<1>2. Files'
  BY <1>1 DEF TypeInv, Files
<1>3. Transfers'
  <2>1. CASE nextId' = nextId
    BY <1>1, <2>1 DEF TypeInv, Transfers
  <2>2. CASE NextSession(s)
    <3>1. DOMAIN uploads[s] = {} /\ \A t \in Sessions \ {s} : nextId'[t] = nextId[t]
      BY <2>2 DEF NextSession, TypeInv, Loops
    <3> QED
      BY <1>1, <3>1 DEF TypeInv, Transfers
  <2> QED
    BY <2>1, <2>2 DEF DownloadReq, Sent, LoopEnds
<1>4. Loops'
  <2>1. CASE \E n \in Asked : DownloadReq(s, n)
    BY <2>1 DEF DownloadReq, Asks, TypeInv, Loops
  <2>2. CASE Sent(s)
    BY <2>2 DEF Sent, TypeInv, Loops
  <2>3. CASE LoopEnds(s)
    BY <2>3 DEF LoopEnds, TypeInv, Loops
  <2>4. CASE NextSession(s)
    BY <2>4 DEF NextSession, TypeInv, Loops
  <2> QED
    BY <2>1, <2>2, <2>3, <2>4
<1>5. AtHand'
  <2>1. AtHandOf(s)'
    <3>1. AtHandOf(s)
      BY DEF TypeInv, AtHand
    <3>2. CASE NextSession(s)
      BY <1>1, <3>2 DEF NextSession, TypeInv, Loops, AtHandOf
    <3>3. CASE (\E n \in Asked : DownloadReq(s, n)) \/ Sent(s) \/ LoopEnds(s)
      BY <1>1, <3>1, <3>3 DEF DownloadReq, Sent, LoopEnds, InLoop, TypeInv, Loops, AtHandOf
    <3> QED
      BY <3>2, <3>3
  <2>2. ASSUME NEW t \in Sessions \ {s} PROVE AtHandOf(t)'
    <3>1. pc'[t] = pc[t]
      BY DEF DownloadReq, Sent, LoopEnds, NextSession, TypeInv, Loops
    <3> QED
      BY <1>1, <3>1 DEF TypeInv, AtHand, AtHandOf, Mine
  <2> QED
    BY <2>1, <2>2 DEF AtHand
<1>6. Handles'
  <2>1. ASSUME NEW t \in Sessions PROVE reading'[t] \subseteq DOMAIN data
    <3>1. reading[t] \subseteq DOMAIN data /\ reading \in [Sessions -> SUBSET Asked]
      BY DEF TypeInv, Handles, Loops
    <3>2. CASE \E n \in Asked : DownloadReq(s, n)
      BY <3>1, <3>2 DEF DownloadReq, Exists
    <3>3. CASE Sent(s)
      BY <3>1, <3>3 DEF Sent
    <3>4. CASE LoopEnds(s) \/ NextSession(s)
      BY <3>1, <3>4 DEF LoopEnds, NextSession
    <3> QED
      BY <3>2, <3>3, <3>4
  <2> QED
    BY <1>1, <2>1 DEF TypeInv, Handles
<1> QED
  BY <1>2, <1>3, <1>4, <1>5, <1>6 DEF TypeInv

LEMMA TypeExit ==
    ASSUME TypeInv, Exit
    PROVE  TypeInv'
<1>1. /\ uploads' = [s \in Sessions |-> <<>>]
      /\ pc' = [s \in Sessions |-> "gone"]
      /\ current' = [s \in Sessions |-> 0]
      /\ reading' = [s \in Sessions |-> {}]
      /\ alive' = FALSE
      /\ UNCHANGED <<data, nextId, faults, vouched, meddled>>
  BY DEF Exit
<1>2. DOMAIN <<>> = {} /\ <<>> = [i \in {} |-> <<>>[i]]
  OBVIOUS
<1>3. Files' /\ Loops'
  <2>1. 0 \in 0 .. MaxIds
    OBVIOUS
  <2>2. Files'
    BY <1>1 DEF TypeInv, Files
  <2> QED
    BY <1>1, <2>1, <2>2 DEF TypeInv, Loops
<1>4. Transfers'
  BY <1>1, <1>2 DEF TypeInv, Transfers
<1>5. AtHand' /\ Handles'
  BY <1>1, <1>2 DEF AtHand, AtHandOf, Handles
<1> QED
  BY <1>3, <1>4, <1>5 DEF TypeInv

LEMMA TypeStep ==
    ASSUME TypeInv, [Next]_vars
    PROVE  TypeInv'
<1>1. CASE UNCHANGED vars
  BY <1>1 DEF vars, session, TypeInv, Files, Transfers, Loops, AtHand, AtHandOf, Handles, Mine
<1>2. ASSUME NEW s \in Sessions, Handle(s) PROVE TypeInv'
  BY <1>2, TypeUploadReq, TypeBlock, TypeComplete, TypeInstall, TypeDiscard, TypeDelete,
     TypeMove, TypeElse DEF Handle
<1>3. ASSUME NEW s \in Sessions, CleanUp(s) PROVE TypeInv'
  BY <1>3, TypeElse, TypeCloseUpload, TypeRemoveUpload DEF CleanUp
<1> QED
  BY <1>1, <1>2, <1>3, TypeExit DEF Next

\* Init, as the proofs need it.
LEMMA TypeInit ==
    ASSUME Init
    PROVE  TypeInv
<1>1. DOMAIN <<>> = {} /\ <<>> = [i \in {} |-> <<>>[i]] /\ <<>> \in Contents
  BY DEF Contents
<1>2. Files
  BY <1>1 DEF Init, Files
<1>3. Transfers
  BY <1>1 DEF Init, Transfers
<1>4. Loops
  <2>1. 1 \in 1 .. MaxIds + 1 /\ 0 \in 0 .. MaxIds /\ 0 \in 0 .. MaxFaults
    OBVIOUS
  <2> QED
    BY <2>1 DEF Init, Loops
<1>5. AtHand /\ Handles
  BY <1>1 DEF Init, AtHand, AtHandOf, Handles
<1> QED
  BY <1>2, <1>3, <1>4, <1>5 DEF TypeInv

\* Every variable has its type, and what the running server has open exists.
THEOREM TypeCorrect == Spec => []TypeOK
<1>1. Init => TypeInv
  BY TypeInit
<1>2. TypeInv /\ [Next]_vars => TypeInv'
  BY TypeStep
<1>3. TypeInv => TypeOK
  <2> SUFFICES ASSUME TypeInv PROVE TypeOK
    OBVIOUS
  <2>1. \A n \in Names : InUse(n) => Exists(n)
    BY DEF TypeInv, Handles, InUse, Exists
  <2>2. DOMAIN uploads = Sessions
    BY DEF TypeInv, Transfers
  <2> QED
    BY <2>1, <2>2 DEF TypeInv, Files, Transfers, Loops, TypeOK
<1> QED
  BY <1>1, <1>2, <1>3, PTL DEF Spec

-----------------------------------------------------------------------------
(* The promise of FileVerify(Ok).                                          *)

\* The temporary file of an upload that nobody came near holds what was
\* hashed, unless a write failed; and no other upload is on it.
Exact(s, id) ==
    uploads[s][id].alone =>
        /\ uploads[s][id].good =>
              /\ uploads[s][id].temp \in DOMAIN data
              /\ data[uploads[s][id].temp] = uploads[s][id].hashed
        /\ \A t \in Sessions : \A j \in DOMAIN uploads[t] :
              uploads[t][j].temp = uploads[s][id].temp => t = s /\ j = id

AloneIsExact == \A s \in Sessions : \A id \in DOMAIN uploads[s] : Exact(s, id)

PromiseInv == AloneIsExact /\ VerifiedWhenAlone

LEMMA ExactRemains ==
    ASSUME AloneIsExact, NEW s, NEW id, NEW ns, Remain(s, id, ns),
           \A n \in DOMAIN data \ ns : n \in DOMAIN data' /\ data'[n] = data[n]
    PROVE  AloneIsExact'
<1> SUFFICES ASSUME NEW t \in Sessions, NEW j \in DOMAIN uploads'[t], uploads'[t][j].alone
             PROVE  Exact(t, j)'
  BY DEF AloneIsExact, Exact
<1>1. \A r \in Sessions : \A k \in DOMAIN uploads'[r] :
         k \in DOMAIN uploads[r] /\ uploads'[r][k].temp = uploads[r][k].temp
  BY DEF Remain, Kept
<1>2. /\ uploads[t][j].alone /\ uploads[t][j].temp \notin ns
      /\ uploads'[t][j].good = uploads[t][j].good
      /\ uploads'[t][j].hashed = uploads[t][j].hashed
  BY DEF Remain, Kept
<1>3. Exact(t, j)
  BY <1>1 DEF AloneIsExact
<1>4. uploads'[t][j].good =>
         /\ uploads'[t][j].temp \in DOMAIN data'
         /\ data'[uploads'[t][j].temp] = uploads'[t][j].hashed
  BY <1>1, <1>2, <1>3 DEF Exact
<1>5. \A r \in Sessions : \A k \in DOMAIN uploads'[r] :
         uploads'[r][k].temp = uploads'[t][j].temp => r = t /\ k = j
  BY <1>1, <1>2, <1>3 DEF Exact
<1> QED
  BY <1>4, <1>5 DEF Exact

LEMMA ExactChange ==
    ASSUME AloneIsExact, NEW s \in Sessions, NEW id \in DOMAIN uploads[s], Changes(s, id),
           uploads'[s][id].hashed = uploads[s][id].hashed,
           uploads'[s][id].good = uploads[s][id].good, data' = data
    PROVE  AloneIsExact'
<1> SUFFICES ASSUME NEW t \in Sessions, NEW j \in DOMAIN uploads'[t]
             PROVE  Exact(t, j)'
  BY DEF AloneIsExact
<1>1. \A r \in Sessions : \A k \in DOMAIN uploads'[r] :
         /\ k \in DOMAIN uploads[r]
         /\ uploads'[r][k].temp = uploads[r][k].temp
         /\ uploads'[r][k].alone = uploads[r][k].alone
         /\ uploads'[r][k].good = uploads[r][k].good
         /\ uploads'[r][k].hashed = uploads[r][k].hashed
  BY DEF Changes
<1>2. Exact(t, j)
  BY <1>1 DEF AloneIsExact
<1> QED
  BY <1>1, <1>2 DEF Exact

\* Nothing is promised of a file that goes, and the others stay.
LEMMA PromiseGoes ==
    ASSUME TypeInv, VerifiedWhenAlone, NEW n, data' = Without(data, n),
           vouched' = Without(vouched, n)
    PROVE  VerifiedWhenAlone'
  BY DEF TypeInv, Files, VerifiedWhenAlone, Without

LEMMA PromiseUploadReq ==
    ASSUME TypeInv, PromiseInv, NEW s \in Sessions, NEW n \in Asked, NEW claim \in Claims,
           UploadReq(s, n, claim)
    PROVE  PromiseInv'
<1> DEFINE up == Opened(n, claim)
           k  == nextId[s]
<1>1. Adds(s, up)
  BY RequestAdds
<1>2. /\ up.temp = Temp[n] /\ up.hashed = <<>>
      /\ up.alone => \A t \in Sessions : \A j \in DOMAIN uploads[t] : uploads[t][j].temp # Temp[n]
  BY DEF Opened
<1>3. data' = With(data, Temp[n], <<>>) /\ vouched' = Without(vouched, Temp[n])
  BY <1>2 DEF UploadReq
<1> HIDE DEF up
<1>4. VerifiedWhenAlone'
  BY <1>3 DEF TypeInv, Files, PromiseInv, VerifiedWhenAlone, With, Without
<1>5. /\ \A m \in DOMAIN data \ {Temp[n]} : m \in DOMAIN data' /\ data'[m] = data[m]
      /\ Temp[n] \in DOMAIN data' /\ data'[Temp[n]] = <<>>
  BY <1>3 DEF With
<1>6. \A t \in Sessions : \A j \in DOMAIN uploads'[t] :
         \/ t = s /\ j = k /\ uploads'[t][j] = up
         \/ /\ j \in DOMAIN uploads[t] /\ Kept(uploads'[t][j], uploads[t][j])
            /\ uploads'[t][j].alone => uploads[t][j].temp # Temp[n]
  BY <1>1, <1>2 DEF Adds
<1>7. k \notin DOMAIN uploads[s]
  BY <1>1 DEF Adds
<1> HIDE DEF k
<1>8. ASSUME NEW t \in Sessions, NEW j \in DOMAIN uploads'[t], uploads'[t][j].alone
      PROVE  Exact(t, j)'
  <2>1. CASE t = s /\ j = k /\ uploads'[t][j] = up
    <3>1. \A r \in Sessions : \A i \in DOMAIN uploads'[r] :
             uploads'[r][i].temp = Temp[n] => r = s /\ i = k
      BY <1>2, <1>6, <1>8, <2>1 DEF Kept
    <3> QED
      BY <1>2, <1>5, <2>1, <3>1 DEF Exact
  <2>2. CASE /\ j \in DOMAIN uploads[t] /\ Kept(uploads'[t][j], uploads[t][j])
             /\ uploads[t][j].temp # Temp[n]
    <3>1. Exact(t, j) /\ uploads[t][j].alone
      BY <1>8, <2>2 DEF PromiseInv, AloneIsExact, Kept
    <3>2. uploads'[t][j].good =>
             /\ uploads'[t][j].temp \in DOMAIN data'
             /\ data'[uploads'[t][j].temp] = uploads'[t][j].hashed
      BY <1>5, <2>2, <3>1 DEF Exact, Kept
    <3>3. ASSUME NEW r \in Sessions, NEW i \in DOMAIN uploads'[r],
                 uploads'[r][i].temp = uploads'[t][j].temp
          PROVE  r = t /\ i = j
      <4>1. i \in DOMAIN uploads[r] /\ uploads[r][i].temp = uploads[t][j].temp
        BY <1>2, <1>6, <2>2, <3>3 DEF Kept
      <4> QED
        BY <3>1, <4>1 DEF Exact
    <3> QED
      BY <3>2, <3>3 DEF Exact
  <2> QED
    BY <1>6, <1>8, <2>1, <2>2
<1>9. AloneIsExact'
  BY <1>8 DEF AloneIsExact, Exact
<1> QED
  BY <1>4, <1>9 DEF PromiseInv

\* Writing behind the end of a file appends.
LEMMA WriteAppends ==
    ASSUME NEW S, NEW c \in Seq(S), NEW b \in S
    PROVE  WriteAt(c, Len(c) + 1, b) = Append(c, b)
<1>1. Len(c) \in Nat /\ ~(Len(c) > Len(c) + 1)
  OBVIOUS
<1>2. WriteAt(c, Len(c) + 1, b) = [i \in 1 .. Len(c) + 1 |->
         IF i = Len(c) + 1 THEN b ELSE IF i <= Len(c) THEN c[i] ELSE Hole]
  BY <1>1 DEF WriteAt
<1> DEFINE w == WriteAt(c, Len(c) + 1, b)
<1>3. /\ w \in Seq(S) /\ Len(w) = Len(c) + 1
      /\ \A i \in 1 .. Len(c) + 1 : w[i] = IF i = Len(c) + 1 THEN b ELSE c[i]
  <2>1. \A i \in 1 .. Len(c) + 1 : i # Len(c) + 1 => i \in 1 .. Len(c)
    BY <1>1
  <2>2. \A i \in 1 .. Len(c) : c[i] \in S
    OBVIOUS
  <2> HIDE DEF w
  <2>0. w = [i \in 1 .. Len(c) + 1 |->
               IF i = Len(c) + 1 THEN b ELSE IF i <= Len(c) THEN c[i] ELSE Hole]
    BY <1>2 DEF w
  <2>3. /\ w = [i \in 1 .. Len(c) + 1 |-> w[i]]
        /\ \A i \in 1 .. Len(c) + 1 : w[i] = IF i = Len(c) + 1 THEN b ELSE c[i]
    BY <1>1, <2>0, <2>1
  <2>4. w \in [1 .. Len(c) + 1 -> S]
    BY <2>1, <2>2, <2>3
  <2> QED
    BY <1>1, <2>3, <2>4
<1>4. /\ Append(c, b) \in Seq(S) /\ Len(Append(c, b)) = Len(c) + 1
      /\ \A i \in 1 .. Len(c) + 1 : Append(c, b)[i] = IF i = Len(c) + 1 THEN b ELSE c[i]
  OBVIOUS
<1> HIDE DEF w
<1>5. w = Append(c, b)
  BY <1>3, <1>4, SeqEqual
<1> QED
  BY <1>5 DEF w

LEMMA PromiseBlock ==
    ASSUME TypeInv, PromiseInv, NEW s \in Sessions, NEW id \in DOMAIN uploads[s],
           NEW b \in Blocks, Block(s, id, b)
    PROVE  PromiseInv'
<1> DEFINE up == uploads[s][id]
           m  == up.temp
<1>1. /\ up \in Upload /\ up.open /\ m \in DOMAIN data \ DOMAIN vouched
  BY DEF Block, InLoop, TypeInv, Transfers, AtHand, AtHandOf, Handles
<1>2. Changes(s, id) /\ uploads'[s][id].hashed = Append(up.hashed, b)
  BY BlockChanges DEF TypeInv
<1>3. \/ /\ up.good /\ uploads'[s][id].good
         /\ data' = [data EXCEPT ![m] = WriteAt(@, Len(up.hashed) + 1, b)]
      \/ ~uploads'[s][id].good /\ data' = data
  BY BlockChanges DEF TypeInv
<1>4. vouched' = vouched
  BY DEF Block
<1>5. /\ DOMAIN data' = DOMAIN data
      /\ \A n \in DOMAIN data \ {m} : data'[n] = data[n]
      /\ uploads'[s][id].good => up.good /\ data'[m] = WriteAt(data[m], Len(up.hashed) + 1, b)
  <2>1. data = [n \in DOMAIN data |-> data[n]]
    BY DEF TypeInv, Files
  <2> HIDE DEF up, m
  <2> QED
    BY <1>1, <1>3, <2>1
<1>6. VerifiedWhenAlone'
  BY <1>1, <1>4, <1>5 DEF PromiseInv, VerifiedWhenAlone, TypeInv, Files
<1>7. \A r \in Sessions : \A k \in DOMAIN uploads'[r] :
         /\ k \in DOMAIN uploads[r]
         /\ uploads'[r][k].temp = uploads[r][k].temp
         /\ uploads'[r][k].alone = uploads[r][k].alone
         /\ ~(r = s /\ k = id) => uploads'[r][k] = uploads[r][k]
  BY <1>2 DEF Changes
<1>8. ASSUME NEW t \in Sessions, NEW j \in DOMAIN uploads'[t], uploads'[t][j].alone
      PROVE  Exact(t, j)'
  <2>1. Exact(t, j) /\ Exact(s, id) /\ uploads[t][j].alone
    BY <1>7, <1>8 DEF PromiseInv, AloneIsExact
  <2>2. \A r \in Sessions : \A i \in DOMAIN uploads'[r] :
           uploads'[r][i].temp = uploads'[t][j].temp => r = t /\ i = j
    BY <1>7, <2>1 DEF Exact
  <2>3. CASE t = s /\ j = id
    <3>1. ASSUME uploads'[s][id].good
          PROVE  data'[m] = uploads'[s][id].hashed
      <4>1. up.hashed \in Seq(Blocks) /\ data[m] = up.hashed
        BY <1>1, <1>5, <2>1, <2>3, <3>1 DEF Exact, Upload
      <4> QED
        BY <1>2, <1>5, <3>1, <4>1, WriteAppends
    <3> QED
      BY <1>1, <1>5, <1>7, <2>2, <2>3, <3>1 DEF Exact
  <2>4. CASE ~(t = s /\ j = id)
    <3>1. uploads'[t][j] = uploads[t][j] /\ uploads[t][j].temp # m
      BY <1>7, <2>1, <2>4 DEF Exact
    <3> QED
      BY <1>5, <2>1, <2>2, <3>1 DEF Exact
  <2> QED
    BY <2>3, <2>4
<1>9. AloneIsExact'
  BY <1>8 DEF AloneIsExact, Exact
<1> QED
  BY <1>6, <1>9 DEF PromiseInv

LEMMA PromiseInstall ==
    ASSUME TypeInv, PromiseInv, NEW s \in Sessions, Install(s)
    PROVE  PromiseInv'
<1>1. CASE CanRename(Mine(s).temp, Mine(s).final)
  <2> DEFINE a == Mine(s).temp
             b == Mine(s).final
             d == Mine(s).declared.sha256
             ok == Mine(s).alone /\ Mine(s).good
  <2>1. /\ current[s] \in DOMAIN uploads[s] /\ Mine(s).hashed = d
        /\ a \in DOMAIN data /\ b \in Names
        /\ data' = Renamed(a, b)
        /\ vouched' = With(Without(vouched, a), b, [sha256 |-> d, alone |-> ok])
        /\ Remain(s, current[s], {a, b})
    BY <1>1, InstallMoves DEF Matches
  <2>2. ok => data[a] = d
    <3>1. Exact(s, current[s])
      BY <2>1 DEF PromiseInv, AloneIsExact
    <3> QED
      BY <2>1, <3>1 DEF Exact, Mine
  <2> HIDE DEF a, b, d, ok
  <2>3. /\ DOMAIN data' = (DOMAIN data \ {a}) \cup {b}
        /\ data'[b] = data[a]
        /\ \A m \in DOMAIN data \ {a, b} : data'[m] = data[m]
    BY <2>1, FileRenamed DEF TypeInv
  <2>4. /\ DOMAIN vouched' = (DOMAIN vouched \ {a}) \cup {b}
        /\ vouched'[b].alone = ok /\ vouched'[b].sha256 = d
        /\ \A m \in DOMAIN vouched \ {a, b} : vouched'[m] = vouched[m]
    BY <2>1 DEF With, Without
  <2>5. VerifiedWhenAlone'
    BY <2>2, <2>3, <2>4 DEF PromiseInv, VerifiedWhenAlone, TypeInv, Files
  <2>6. AloneIsExact'
    BY <2>1, <2>3, ExactRemains DEF PromiseInv
  <2> QED
    BY <2>5, <2>6 DEF PromiseInv
<1>2. CASE ~CanRename(Mine(s).temp, Mine(s).final)
  <2>1. UNCHANGED <<data, uploads, vouched>>
    BY <1>2 DEF Install
  <2> QED
    BY <2>1 DEF PromiseInv, AloneIsExact, Exact, VerifiedWhenAlone
<1> QED
  BY <1>1, <1>2

LEMMA PromiseDiscard ==
    ASSUME TypeInv, PromiseInv, NEW s \in Sessions, Discard(s)
    PROVE  PromiseInv'
<1> DEFINE n == Mine(s).temp
<1>1. CASE /\ data' = Without(data, n) /\ vouched' = Without(vouched, n)
           /\ Remain(s, current[s], {n})
  <2> HIDE DEF n
  <2>1. \A m \in DOMAIN data \ {n} : m \in DOMAIN data' /\ data'[m] = data[m]
    BY <1>1, FileGoes DEF TypeInv
  <2>2. AloneIsExact'
    BY <1>1, <2>1, ExactRemains DEF PromiseInv
  <2>3. VerifiedWhenAlone'
    BY <1>1, PromiseGoes DEF PromiseInv
  <2> QED
    BY <2>2, <2>3 DEF PromiseInv
<1>2. CASE UNCHANGED <<data, vouched>> /\ Remain(s, current[s], {})
  <2>1. AloneIsExact'
    BY <1>2, ExactRemains DEF PromiseInv
  <2> QED
    BY <1>2, <2>1 DEF PromiseInv, VerifiedWhenAlone
<1> QED
  BY <1>1, <1>2, DiscardDrops

LEMMA PromiseRemoveUpload ==
    ASSUME TypeInv, PromiseInv, NEW s \in Sessions, RemoveUpload(s)
    PROVE  PromiseInv'
<1>1. ASSUME NEW id, NEW n, data' = Without(data, n), vouched' = Without(vouched, n),
             Remain(s, id, {n})
      PROVE  PromiseInv'
  <2>1. \A m \in DOMAIN data \ {n} : m \in DOMAIN data' /\ data'[m] = data[m]
    BY <1>1, FileGoes DEF TypeInv
  <2>2. AloneIsExact'
    BY <1>1, <2>1, ExactRemains DEF PromiseInv
  <2>3. VerifiedWhenAlone'
    BY <1>1, PromiseGoes DEF PromiseInv
  <2> QED
    BY <2>2, <2>3 DEF PromiseInv
<1>2. ASSUME NEW id, UNCHANGED <<data, vouched>>, Remain(s, id, {})
      PROVE  PromiseInv'
  <2>1. AloneIsExact'
    BY <1>2, ExactRemains DEF PromiseInv
  <2> QED
    BY <1>2, <2>1 DEF PromiseInv, VerifiedWhenAlone
<1> QED
  BY <1>1, <1>2, RemoveDrops

LEMMA PromiseDelete ==
    ASSUME TypeInv, PromiseInv, NEW s \in Sessions, NEW n \in Asked, Delete(s, n)
    PROVE  PromiseInv'
<1>1. /\ data' = Without(data, n) /\ vouched' = Without(vouched, n)
      /\ uploads' = Disturb(uploads, {n})
  BY DEF Delete
<1>2. Remain(s, 0, {n})
  BY <1>1, DisturbAll DEF TypeInv
<1>3. \A m \in DOMAIN data \ {n} : m \in DOMAIN data' /\ data'[m] = data[m]
  BY <1>1, FileGoes DEF TypeInv
<1>4. AloneIsExact'
  BY <1>2, <1>3, ExactRemains DEF PromiseInv
<1>5. VerifiedWhenAlone'
  BY <1>1, PromiseGoes DEF PromiseInv
<1> QED
  BY <1>4, <1>5 DEF PromiseInv

LEMMA PromiseMove ==
    ASSUME TypeInv, PromiseInv, NEW s \in Sessions, NEW a \in Asked, NEW b \in Asked,
           Move(s, a, b)
    PROVE  PromiseInv'
<1>1. /\ a # b /\ a \in DOMAIN data /\ b \in Names
      /\ data' = Renamed(a, b) /\ uploads' = Disturb(uploads, {a, b})
  BY DEF Move, CanRename, Exists
<1>2. /\ a \notin DOMAIN vouched' /\ DOMAIN vouched' \ {b} = DOMAIN vouched \ {a, b}
      /\ \A m \in DOMAIN vouched' \ {b} : vouched'[m] = vouched[m]
      /\ b \in DOMAIN vouched' => a \in DOMAIN vouched /\ vouched'[b] = vouched[a]
  <2>1. CASE a \in DOMAIN vouched
    BY <1>1, <2>1 DEF Move, With, Without
  <2>2. CASE a \notin DOMAIN vouched
    BY <1>1, <2>2 DEF Move, Without
  <2> QED
    BY <2>1, <2>2
<1>3. /\ DOMAIN data' = (DOMAIN data \ {a}) \cup {b}
      /\ data'[b] = data[a]
      /\ \A m \in DOMAIN data \ {a, b} : data'[m] = data[m]
  BY <1>1, FileRenamed DEF TypeInv
<1>4. VerifiedWhenAlone'
  BY <1>2, <1>3 DEF PromiseInv, VerifiedWhenAlone, TypeInv, Files
<1>5. Remain(s, 0, {a, b})
  BY <1>1, DisturbAll DEF TypeInv
<1>6. AloneIsExact'
  BY <1>3, <1>5, ExactRemains DEF PromiseInv
<1> QED
  BY <1>4, <1>6 DEF PromiseInv

LEMMA PromiseStep ==
    ASSUME TypeInv, PromiseInv, [Next]_vars
    PROVE  PromiseInv'
<1> DEFINE Elsewhere(s) == (\E n \in Asked : DownloadReq(s, n)) \/ Sent(s) \/ LoopEnds(s)
                              \/ NextSession(s)
<1>1. ASSUME UNCHANGED <<data, uploads, vouched>> PROVE PromiseInv'
  BY <1>1 DEF PromiseInv, AloneIsExact, Exact, VerifiedWhenAlone
<1>2. ASSUME NEW s \in Sessions, Elsewhere(s) PROVE PromiseInv'
  BY <1>1, <1>2 DEF DownloadReq, Sent, LoopEnds, NextSession
<1>3. ASSUME NEW s \in Sessions, NEW id \in DOMAIN uploads[s],
             uploads' = [uploads EXCEPT ![s] = [uploads[s] EXCEPT ![id] = Closed(uploads[s][id])]],
             UNCHANGED <<data, vouched>>
      PROVE  PromiseInv'
  <2>1. AloneIsExact'
    BY <1>3, CloseChanges, ExactChange DEF PromiseInv, TypeInv
  <2> QED
    BY <1>3, <2>1 DEF PromiseInv, VerifiedWhenAlone
<1>4. ASSUME NEW s \in Sessions, NEW id \in DOMAIN uploads[s], Complete(s, id)
      PROVE  PromiseInv'
  BY <1>3, <1>4 DEF Complete, Closed
<1>5. ASSUME NEW s \in Sessions, CloseUpload(s)
      PROVE  PromiseInv'
  BY <1>3, <1>5 DEF CloseUpload, Closed
<1>6. CASE Exit
  BY <1>6 DEF Exit, PromiseInv, AloneIsExact, VerifiedWhenAlone
<1>7. ASSUME NEW s \in Sessions, Handle(s) PROVE PromiseInv'
  BY <1>2, <1>4, <1>7, PromiseUploadReq, PromiseBlock, PromiseInstall, PromiseDiscard,
     PromiseDelete, PromiseMove DEF Handle
<1>8. ASSUME NEW s \in Sessions, CleanUp(s) PROVE PromiseInv'
  BY <1>2, <1>5, <1>8, PromiseRemoveUpload DEF CleanUp
<1>9. CASE UNCHANGED vars
  BY <1>1, <1>9 DEF vars
<1> QED
  BY <1>6, <1>7, <1>8, <1>9 DEF Next

\* What FileVerify(Ok) said of a file is true of it, when nobody else touched
\* its temporary file and no write failed on it.
THEOREM PromisesKept == Spec => []VerifiedWhenAlone
<1>1. Init => TypeInv /\ PromiseInv
  <2> SUFFICES ASSUME Init PROVE PromiseInv
    BY TypeInit
  <2>1. DOMAIN <<>> = {}
    OBVIOUS
  <2>2. AloneIsExact
    BY <2>1 DEF Init, AloneIsExact
  <2>3. VerifiedWhenAlone
    BY DEF Init, VerifiedWhenAlone
  <2> QED
    BY <2>2, <2>3 DEF PromiseInv
<1>2. TypeInv /\ PromiseInv /\ [Next]_vars => TypeInv' /\ PromiseInv'
  BY TypeStep, PromiseStep
<1>3. PromiseInv => VerifiedWhenAlone
  BY DEF PromiseInv
<1> QED
  BY <1>1, <1>2, <1>3, PTL DEF Spec

-----------------------------------------------------------------------------
(* What is seen, and what is left behind.                                  *)

\* A file that some transfer works on.
Owned(n) == \E s \in Sessions : \E id \in DOMAIN uploads[s] : uploads[s][id].temp = n

\* No request so far was about a temporary file.
Unnamed ==
    ~meddled =>
        /\ \A s \in Sessions : reading[s] \cap Temps = {}
        /\ \A s \in Sessions : \A id \in DOMAIN uploads[s] : uploads[s][id].final \notin Temps

Clean ==
    ~meddled =>
        /\ DOMAIN data \ Temps \subseteq DOMAIN vouched
        /\ alive => \A n \in DOMAIN data \ DOMAIN vouched : Owned(n)

CleanInv == Unnamed /\ Clean

LEMMA OwnedIsTemp ==
    ASSUME TypeInv, NEW n, Owned(n)
    PROVE  n \in Temps
  BY DEF TypeInv, Transfers, Owned, Temps

LEMMA UnnamedRemains ==
    ASSUME Unnamed, NEW s, NEW id, NEW ns, Remain(s, id, ns), reading' = reading,
           meddled => meddled'
    PROVE  Unnamed'
  BY DEF Unnamed, Remain, Kept

\* A file goes, and with it the transfer that worked on it, or none.
LEMMA CleanGoes ==
    ASSUME TypeInv, CleanInv, NEW s \in Sessions, NEW id, NEW ns, Remain(s, id, ns), NEW n,
           data' = Without(data, n), vouched' = Without(vouched, n),
           id \in DOMAIN uploads[s] => uploads[s][id].temp = n,
           reading' = reading, alive' = alive, meddled => meddled'
    PROVE  CleanInv'
<1>1. Unnamed'
  BY UnnamedRemains DEF CleanInv
<1>2. /\ DOMAIN data' = DOMAIN data \ {n}
      /\ DOMAIN vouched' = DOMAIN vouched \ {n}
  BY FileGoes DEF TypeInv
<1>3. ASSUME NEW m, Owned(m), m # n
      PROVE  Owned(m)'
  <2>1. PICK t, j : t \in Sessions /\ j \in DOMAIN uploads[t] /\ uploads[t][j].temp = m
    BY <1>3 DEF Owned
  <2>2. ~(t = s /\ j = id)
    BY <1>3, <2>1
  <2>3. j \in DOMAIN uploads'[t] /\ uploads'[t][j].temp = m
    BY <2>1, <2>2 DEF Remain, Kept
  <2> QED
    BY <2>1, <2>3 DEF Owned
<1>4. Clean'
  BY <1>2, <1>3 DEF CleanInv, Clean
<1> QED
  BY <1>1, <1>4 DEF CleanInv

\* A transfer goes and its file cannot be removed: another one has it open.
LEMMA CleanStays ==
    ASSUME TypeInv, CleanInv, NEW s \in Sessions, NEW id \in DOMAIN uploads[s], NEW ns,
           Remain(s, id, ns), ~uploads[s][id].open, ~CanRemove(uploads[s][id].temp),
           UNCHANGED <<data, vouched, reading, alive>>, meddled => meddled'
    PROVE  CleanInv'
<1>1. Unnamed'
  BY UnnamedRemains DEF CleanInv
<1>2. ASSUME ~meddled, NEW m \in DOMAIN data, Owned(m)
      PROVE  Owned(m)'
  <2>1. PICK t, j : /\ t \in Sessions /\ j \in DOMAIN uploads[t] /\ uploads[t][j].temp = m
                    /\ ~(t = s /\ j = id)
    <3>1. CASE uploads[s][id].temp # m
      BY <1>2, <3>1 DEF Owned
    <3>2. CASE uploads[s][id].temp = m
      <4>1. InUse(m)
        BY <3>2 DEF CanRemove, Exists
      <4>2. m \in Temps
        BY <1>2, OwnedIsTemp
      <4>3. \A t \in Sessions : m \notin reading[t]
        BY <1>2, <4>2 DEF CleanInv, Unnamed
      <4> QED
        BY <4>1, <4>3 DEF InUse
    <3> QED
      BY <3>1, <3>2
  <2>2. j \in DOMAIN uploads'[t] /\ uploads'[t][j].temp = m
    BY <2>1 DEF Remain, Kept
  <2> QED
    BY <2>1, <2>2 DEF Owned
<1>3. Clean'
  BY <1>2 DEF CleanInv, Clean
<1> QED
  BY <1>1, <1>3 DEF CleanInv

LEMMA CleanUploadReq ==
    ASSUME TypeInv, CleanInv, NEW s \in Sessions, NEW n \in Asked, NEW claim \in Claims,
           UploadReq(s, n, claim)
    PROVE  CleanInv'
<1> DEFINE up == Opened(n, claim)
<1>1. /\ Adds(s, up) /\ up.temp = Temp[n] /\ up.final = n
  BY RequestAdds DEF Opened
<1>2. /\ data' = With(data, Temp[n], <<>>) /\ vouched' = Without(vouched, Temp[n])
      /\ reading' = reading /\ alive' = alive
      /\ meddled' = (meddled \/ {n} \cap Temps # {})
  BY <1>1 DEF UploadReq, Asks
<1> HIDE DEF up
<1>3. /\ DOMAIN data' = DOMAIN data \cup {Temp[n]}
      /\ DOMAIN vouched' = DOMAIN vouched \ {Temp[n]}
      /\ Temp[n] \in Temps
  BY <1>2 DEF With, Without, Temps
<1>4. \A t \in Sessions : \A j \in DOMAIN uploads'[t] :
         \/ uploads'[t][j].final = n
         \/ j \in DOMAIN uploads[t] /\ uploads'[t][j].final = uploads[t][j].final
  BY <1>1 DEF Adds, Kept
<1>5. Unnamed'
  BY <1>2, <1>4 DEF CleanInv, Unnamed
<1>6. \A m : Owned(m) \/ m = Temp[n] => Owned(m)'
  BY <1>1 DEF Adds, Kept, Owned
<1>7. Clean'
  BY <1>2, <1>3, <1>6 DEF CleanInv, Clean
<1> QED
  BY <1>5, <1>7 DEF CleanInv

LEMMA CleanInstall ==
    ASSUME TypeInv, CleanInv, NEW s \in Sessions, Install(s)
    PROVE  CleanInv'
<1>1. CASE CanRename(Mine(s).temp, Mine(s).final)
  <2> DEFINE a == Mine(s).temp
             b == Mine(s).final
  <2>1. /\ current[s] \in DOMAIN uploads[s]
        /\ a \in DOMAIN data /\ b \in Names /\ a = Temp[b] /\ b \in Asked
        /\ data' = Renamed(a, b)
        /\ DOMAIN vouched' = (DOMAIN vouched \ {a}) \cup {b}
        /\ Remain(s, current[s], {a, b})
        /\ UNCHANGED <<reading, alive, meddled>>
    BY <1>1, InstallMoves DEF With, Without
  <2>2. uploads[s][current[s]].temp = a
    BY DEF Mine
  <2> HIDE DEF a, b
  <2>3. DOMAIN data' = (DOMAIN data \ {a}) \cup {b}
    BY <2>1, FileRenamed DEF TypeInv
  <2>4. Unnamed'
    BY <2>1, UnnamedRemains DEF CleanInv
  <2>5. ASSUME NEW m, Owned(m), m # a
        PROVE  Owned(m)'
    <3>1. PICK t, j : t \in Sessions /\ j \in DOMAIN uploads[t] /\ uploads[t][j].temp = m
      BY <2>5 DEF Owned
    <3>2. j \in DOMAIN uploads'[t] /\ uploads'[t][j].temp = m
      BY <2>1, <2>2, <2>5, <3>1 DEF Remain, Kept
    <3> QED
      BY <3>1, <3>2 DEF Owned
  <2>6. Clean'
    BY <2>1, <2>3, <2>5 DEF CleanInv, Clean
  <2> QED
    BY <2>4, <2>6 DEF CleanInv
<1>2. CASE ~CanRename(Mine(s).temp, Mine(s).final)
  <2>1. UNCHANGED <<data, uploads, vouched, reading, alive, meddled>>
    BY <1>2 DEF Install
  <2> QED
    BY <2>1 DEF CleanInv, Unnamed, Clean, Owned
<1> QED
  BY <1>1, <1>2

LEMMA CleanDiscard ==
    ASSUME TypeInv, CleanInv, NEW s \in Sessions, Discard(s)
    PROVE  CleanInv'
<1> DEFINE id == current[s]
           n  == uploads[s][id].temp
<1>1. /\ id \in DOMAIN uploads[s] /\ ~uploads[s][id].open
      /\ UNCHANGED <<reading, alive, meddled>>
      /\ \/ /\ data' = Without(data, n) /\ vouched' = Without(vouched, n)
            /\ Remain(s, id, {n})
         \/ ~CanRemove(n) /\ UNCHANGED <<data, vouched>> /\ Remain(s, id, {})
  BY DiscardDrops DEF Mine
<1> HIDE DEF id
<1> QED
  BY <1>1, CleanGoes, CleanStays

LEMMA CleanRemoveUpload ==
    ASSUME TypeInv, CleanInv, NEW s \in Sessions, RemoveUpload(s)
    PROVE  CleanInv'
<1>1. UNCHANGED <<reading, alive, meddled>>
  BY DEF RemoveUpload, session
<1> QED
  BY <1>1, RemoveDrops, CleanGoes, CleanStays

LEMMA CleanDelete ==
    ASSUME TypeInv, CleanInv, NEW s \in Sessions, NEW n \in Asked, Delete(s, n)
    PROVE  CleanInv'
<1>1. /\ data' = Without(data, n) /\ vouched' = Without(vouched, n)
      /\ uploads' = Disturb(uploads, {n})
      /\ UNCHANGED <<reading, alive>> /\ (meddled => meddled')
  BY DEF Delete, Asks, session
<1>2. Remain(s, 0, {n})
  BY <1>1, DisturbAll DEF TypeInv
<1>3. 0 \notin DOMAIN uploads[s]
  BY DEF TypeInv, Transfers
<1> QED
  BY <1>1, <1>2, <1>3, CleanGoes

LEMMA CleanMove ==
    ASSUME TypeInv, CleanInv, NEW s \in Sessions, NEW a \in Asked, NEW b \in Asked,
           Move(s, a, b)
    PROVE  CleanInv'
<1>1. /\ a # b /\ a \in DOMAIN data /\ b \in Names
      /\ data' = Renamed(a, b) /\ uploads' = Disturb(uploads, {a, b})
      /\ UNCHANGED <<reading, alive>>
      /\ meddled' = (meddled \/ {a, b} \cap Temps # {})
  BY DEF Move, CanRename, Exists, Asks, session
<1>2. a \in DOMAIN vouched => DOMAIN vouched' = (DOMAIN vouched \ {a}) \cup {b}
  BY DEF Move, With, Without
<1>3. DOMAIN data' = (DOMAIN data \ {a}) \cup {b}
  BY <1>1, FileRenamed DEF TypeInv
<1>4. Remain(s, 0, {a, b}) /\ \A t \in Sessions : 0 \notin DOMAIN uploads[t]
  <2>1. Remain(s, 0, {a, b})
    BY <1>1, DisturbAll DEF TypeInv
  <2>2. \A t \in Sessions : 0 \notin DOMAIN uploads[t]
    BY DEF TypeInv, Transfers
  <2> QED
    BY <2>1, <2>2
<1>5. Unnamed'
  BY <1>1, <1>4, UnnamedRemains DEF CleanInv
<1>6. \A m : Owned(m) => Owned(m)'
  BY <1>4 DEF Owned, Remain, Kept
<1>7. ~meddled' => ~meddled /\ a \in DOMAIN vouched
  BY <1>1 DEF CleanInv, Clean
<1>8. Clean'
  BY <1>1, <1>2, <1>3, <1>6, <1>7 DEF CleanInv, Clean
<1> QED
  BY <1>5, <1>8 DEF CleanInv

\* The steps that change no file and end no transfer.
LEMMA CleanElse ==
    ASSUME TypeInv, CleanInv, NEW s \in Sessions,
           \/ \E n \in Asked : DownloadReq(s, n)
           \/ Sent(s) \/ LoopEnds(s) \/ NextSession(s)
           \/ \E id \in DOMAIN uploads[s] :
                 Complete(s, id) \/ \E b \in Blocks : Block(s, id, b)
           \/ CloseUpload(s)
    PROVE  CleanInv'
<1>1. /\ DOMAIN data' = DOMAIN data /\ vouched' = vouched /\ alive' = alive
      /\ uploads' = uploads \/ \E id \in DOMAIN uploads[s] : Changes(s, id)
  <2>1. ASSUME NEW id \in DOMAIN uploads[s], NEW b \in Blocks, Block(s, id, b)
        PROVE  /\ DOMAIN data' = DOMAIN data /\ vouched' = vouched /\ alive' = alive
               /\ Changes(s, id)
    <3>1. vouched' = vouched /\ alive' = alive
      BY <2>1 DEF Block
    <3>2. /\ Changes(s, id)
          /\ \/ data' = data
             \/ data' = [data EXCEPT ![uploads[s][id].temp] =
                            WriteAt(@, Len(uploads[s][id].hashed) + 1, b)]
      BY <2>1, BlockChanges DEF TypeInv
    <3>3. DOMAIN data' = DOMAIN data
      BY <3>2 DEF TypeInv, Files
    <3> QED
      BY <3>1, <3>2, <3>3
  <2>2. ASSUME NEW id \in DOMAIN uploads[s], Complete(s, id)
        PROVE  UNCHANGED <<data, vouched, alive>> /\ Changes(s, id)
    <3>1. /\ UNCHANGED <<data, vouched, alive>>
          /\ uploads' = [uploads EXCEPT ![s] = [uploads[s] EXCEPT ![id] = Closed(uploads[s][id])]]
      BY <2>2 DEF Complete, Closed
    <3> QED
      BY <3>1, CloseChanges DEF TypeInv
  <2>3. CASE CloseUpload(s)
    <3>1. /\ UNCHANGED <<data, vouched, alive>>
          /\ \E id \in DOMAIN uploads[s] :
                uploads' = [uploads EXCEPT ![s] =
                              [uploads[s] EXCEPT ![id] = Closed(uploads[s][id])]]
      BY <2>3 DEF CloseUpload, Closed
    <3> QED
      BY <3>1, CloseChanges DEF TypeInv
  <2>4. CASE \/ \E n \in Asked : DownloadReq(s, n)
             \/ Sent(s) \/ LoopEnds(s) \/ NextSession(s)
    BY <2>4 DEF DownloadReq, Sent, LoopEnds, NextSession
  <2> QED
    BY <2>1, <2>2, <2>3, <2>4
<1>2. \A t \in Sessions :
         /\ DOMAIN uploads'[t] = DOMAIN uploads[t]
         /\ \A j \in DOMAIN uploads[t] : /\ uploads'[t][j].temp = uploads[t][j].temp
                                         /\ uploads'[t][j].final = uploads[t][j].final
  <2>1. ASSUME NEW id \in DOMAIN uploads[s], Changes(s, id), NEW t \in Sessions
        PROVE  /\ DOMAIN uploads'[t] = DOMAIN uploads[t]
               /\ \A j \in DOMAIN uploads[t] : /\ uploads'[t][j].temp = uploads[t][j].temp
                                               /\ uploads'[t][j].final = uploads[t][j].final
    BY <2>1 DEF Changes
  <2> QED
    BY <1>1, <2>1
<1>3. (~meddled' => ~meddled) /\ \A t \in Sessions :
         ~meddled' => reading'[t] \subseteq reading[t] \/ reading'[t] \cap Temps = {}
  <2>1. reading \in [Sessions -> SUBSET Asked]
    BY DEF TypeInv, Loops
  <2>2. ASSUME NEW n \in Asked, DownloadReq(s, n)
        PROVE  /\ ~meddled' => ~meddled /\ n \notin Temps
               /\ reading' = [reading EXCEPT ![s] = {n}]
    BY <2>2 DEF DownloadReq, Asks
  <2>3. CASE Sent(s)
    BY <2>1, <2>3 DEF Sent
  <2>4. CASE LoopEnds(s) \/ NextSession(s) \/ CloseUpload(s)
    BY <2>4 DEF LoopEnds, NextSession, CloseUpload, session
  <2>5. CASE \E id \in DOMAIN uploads[s] : Complete(s, id) \/ \E b \in Blocks : Block(s, id, b)
    <3>1. ASSUME NEW id, Complete(s, id)
          PROVE  UNCHANGED <<reading, meddled>>
      BY <3>1 DEF Complete
    <3>2. ASSUME NEW id, NEW b, Block(s, id, b)
          PROVE  UNCHANGED <<reading, meddled>>
      BY <3>2 DEF Block, session
    <3>3. UNCHANGED <<reading, meddled>>
      BY <2>5, <3>1, <3>2
    <3> QED
      BY <3>3
  <2>6. CASE \E n \in Asked : DownloadReq(s, n)
    BY <2>1, <2>2, <2>6
  <2> QED
    BY <2>3, <2>4, <2>5, <2>6
<1>4. Unnamed'
  BY <1>2, <1>3 DEF CleanInv, Unnamed
<1>5. \A m : Owned(m) => Owned(m)'
  BY <1>2 DEF Owned
<1>6. Clean'
  BY <1>1, <1>3, <1>5 DEF CleanInv, Clean
<1> QED
  BY <1>4, <1>6 DEF CleanInv

LEMMA CleanStep ==
    ASSUME TypeInv, CleanInv, [Next]_vars
    PROVE  CleanInv'
<1>1. CASE UNCHANGED vars
  BY <1>1 DEF vars, session, CleanInv, Unnamed, Clean, Owned
<1>2. CASE Exit
  BY <1>2 DEF Exit, CleanInv, Unnamed, Clean
<1>3. ASSUME NEW s \in Sessions, Handle(s) PROVE CleanInv'
  BY <1>3, CleanElse, CleanUploadReq, CleanInstall, CleanDiscard, CleanDelete, CleanMove
     DEF Handle
<1>4. ASSUME NEW s \in Sessions, CleanUp(s) PROVE CleanInv'
  BY <1>4, CleanElse, CleanRemoveUpload DEF CleanUp
<1> QED
  BY <1>1, <1>2, <1>3, <1>4 DEF Next

\* As long as no client names a temporary file, every other file in place was
\* installed by a verified upload, and none is left without its transfer.
THEOREM NothingUnverifiedSeen == Spec => []NothingUnverified
<1>1. Init => TypeInv /\ CleanInv
  <2> SUFFICES ASSUME Init PROVE CleanInv
    BY TypeInit
  <2>1. DOMAIN <<>> = {}
    OBVIOUS
  <2>2. Unnamed
    BY <2>1 DEF Init, Unnamed
  <2>3. Clean
    BY DEF Init, Clean
  <2> QED
    BY <2>2, <2>3 DEF CleanInv
<1>2. TypeInv /\ CleanInv /\ [Next]_vars => TypeInv' /\ CleanInv'
  BY TypeStep, CleanStep
<1>3. CleanInv => NothingUnverified
  BY DEF CleanInv, Clean, Owned, NothingUnverified
<1> QED
  BY <1>1, <1>2, <1>3, PTL DEF Spec
=============================================================================
