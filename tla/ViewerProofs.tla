--------------------------- MODULE ViewerProofs ---------------------------
(***************************************************************************)
(* Theorems about the interactive viewer: what it shows (VideoStreamer),   *)
(* for every set of colours, every geometry and every number of messages   *)
(* the connection holds; and its two threads (ClientViewer).               *)
(*                                                                         *)
(* The argument for the picture: what the viewer's buffer will be after    *)
(* each message that is still to come is determined when the message is    *)
(* made, and after the last one it is what the streamer mirrors (Ahead).   *)
(***************************************************************************)
EXTENDS VideoStreamer, ClientViewer, FiniteSetTheorems, SequenceTheorems, TLAPS

USE PictureAssumption

-----------------------------------------------------------------------------
(* Pictures and buffers.                                                   *)

LEMMA BufferIs ==
    /\ \A b \in Buffers : Len(b) \in Sizes \cup {0} /\ b \in [1 .. Len(b) -> Colors \cup {Blank}]
    /\ \A n \in Sizes \cup {0} : [1 .. n -> Colors \cup {Blank}] \subseteq Buffers
    /\ \A n \in Sizes \cup {0} : \A b \in [1 .. n -> Colors \cup {Blank}] : Len(b) = n
<1>1. \A n \in Sizes \cup {0} : \A b \in [1 .. n -> Colors \cup {Blank}] : Len(b) = n
  OBVIOUS
<1> QED
  BY <1>1 DEF Buffers

LEMMA PictureIs ==
    /\ \A p \in Pictures : Len(p) \in Sizes /\ p \in [1 .. Len(p) -> Colors] /\ p \in Buffers
    /\ \A n \in Sizes : [1 .. n -> Colors] \subseteq Pictures
    /\ \A n \in Sizes : \A p \in [1 .. n -> Colors] : Len(p) = n
<1>1. \A n \in Sizes : \A p \in [1 .. n -> Colors] : Len(p) = n
  OBVIOUS
<1>2. \A n \in Sizes : [1 .. n -> Colors] \subseteq [1 .. n -> Colors \cup {Blank}]
  OBVIOUS
<1>3. Pictures \subseteq Buffers
  BY <1>2 DEF Pictures, Buffers
<1> QED
  BY <1>1, <1>3 DEF Pictures

LEMMA EmptyBuffer ==
    <<>> \in Buffers /\ Len(<<>>) = 0
<1>1. <<>> \in [1 .. 0 -> Colors \cup {Blank}]
  OBVIOUS
<1> QED
  BY <1>1, BufferIs

\* A tile put into a buffer, and into a picture.
LEMMA OneTile ==
    /\ \A b \in Buffers : \A t \in 1 .. Len(b) : \A x \in Colors : [b EXCEPT ![t] = x] \in Buffers
    /\ \A p \in Pictures \cup {<<>>} : \A t : \A x \in Colors :
          [p EXCEPT ![t] = x] \in Pictures \cup {<<>>}
<1>1. ASSUME NEW b \in Buffers, NEW t \in 1 .. Len(b), NEW x \in Colors
      PROVE  [b EXCEPT ![t] = x] \in Buffers
  <2>1. b \in [1 .. Len(b) -> Colors \cup {Blank}] /\ Len(b) \in Sizes \cup {0}
    BY BufferIs
  <2>2. [b EXCEPT ![t] = x] \in [1 .. Len(b) -> Colors \cup {Blank}]
    BY <2>1
  <2> QED
    BY <2>1, <2>2, BufferIs
<1>2. ASSUME NEW p \in Pictures, NEW t, NEW x \in Colors
      PROVE  [p EXCEPT ![t] = x] \in Pictures
  <2>1. p \in [1 .. Len(p) -> Colors] /\ Len(p) \in Sizes
    BY PictureIs
  <2>2. [p EXCEPT ![t] = x] \in [1 .. Len(p) -> Colors]
    BY <2>1
  <2> QED
    BY <2>1, <2>2, PictureIs
<1>3. ASSUME NEW t, NEW x \in Colors
      PROVE  [<<>> EXCEPT ![t] = x] = <<>>
  OBVIOUS
<1> QED
  BY <1>1, <1>2, <1>3

-----------------------------------------------------------------------------
(* Messages.                                                               *)

\* The messages there are once n frames were captured.
Messages(n) ==
    [op : {"FrameInfo"}, size : Sizes]
      \cup [op : {"FrameData", "FrameRect"}, at : Nat, pixel : Colors]
      \cup [op : {"FrameEnd"}, seq : 1 .. n]

\* A frame's messages, one by one.
LEMMA KeyframeList ==
    ASSUME NEW f \in Pictures, Len(captured) \in Nat
    PROVE  /\ KeyframeOf(f) \in Seq(Messages(Len(captured) + 1)) /\ Len(KeyframeOf(f)) = Len(f) + 2
           /\ KeyframeOf(f)[1] = [op |-> "FrameInfo", size |-> Len(f)]
           /\ \A t \in 1 .. Len(f) : KeyframeOf(f)[t + 1] = Tile("FrameData", f, t)
           /\ KeyframeOf(f)[Len(f) + 2] = FrameEnd
<1> DEFINE Msgs == Messages(Len(captured) + 1)
           i == [op |-> "FrameInfo", size |-> Len(f)]
           tiles == [t \in 1 .. Len(f) |-> Tile("FrameData", f, t)]
           first == <<i>> \o tiles
<1>1. Len(f) \in Sizes /\ Len(f) \in Nat /\ \A t \in 1 .. Len(f) : f[t] \in Colors
  BY PictureIs
<1>2. i \in Msgs /\ FrameEnd \in Msgs
      /\ \A t \in 1 .. Len(f) : Tile("FrameData", f, t) \in Msgs
  BY <1>1 DEF Messages, FrameEnd, Tile
<1>3. tiles \in Seq(Msgs) /\ Len(tiles) = Len(f)
      /\ \A t \in 1 .. Len(f) : tiles[t] = Tile("FrameData", f, t)
  BY <1>1, <1>2
<1> HIDE DEF Msgs, i, tiles
<1>4. <<i>> \in Seq(Msgs) /\ Len(<<i>>) = 1 /\ <<i>>[1] = i
      /\ <<FrameEnd>> \in Seq(Msgs) /\ Len(<<FrameEnd>>) = 1 /\ <<FrameEnd>>[1] = FrameEnd
  BY <1>2
<1>5. /\ first \in Seq(Msgs) /\ Len(first) = Len(f) + 1
      /\ \A k \in 1 .. Len(f) + 1 : first[k] = IF k <= 1 THEN <<i>>[k] ELSE tiles[k - 1]
  BY <1>1, <1>3, <1>4, ConcatProperties
<1>6. first[1] = i /\ \A t \in 1 .. Len(f) : first[t + 1] = Tile("FrameData", f, t)
  BY <1>1, <1>3, <1>4, <1>5
<1> HIDE DEF first
<1>7. /\ first \o <<FrameEnd>> \in Seq(Msgs) /\ Len(first \o <<FrameEnd>>) = Len(f) + 2
      /\ \A k \in 1 .. Len(f) + 2 :
            (first \o <<FrameEnd>>)[k] = IF k <= Len(f) + 1 THEN first[k] ELSE <<FrameEnd>>[k - (Len(f) + 1)]
  BY <1>1, <1>4, <1>5, ConcatProperties
<1>8. KeyframeOf(f) = first \o <<FrameEnd>>
  BY DEF KeyframeOf, first, i, tiles
<1>9. /\ (first \o <<FrameEnd>>)[1] = i
      /\ \A t \in 1 .. Len(f) : (first \o <<FrameEnd>>)[t + 1] = Tile("FrameData", f, t)
      /\ (first \o <<FrameEnd>>)[Len(f) + 2] = FrameEnd
  BY <1>1, <1>4, <1>6, <1>7
<1> QED
  BY <1>7, <1>8, <1>9 DEF i, Msgs

LEMMA DeltaList ==
    ASSUME NEW f \in Pictures, NEW n \in Nat, NEW order \in [1 .. n -> 1 .. Len(f)],
           Len(captured) \in Nat
    PROVE  /\ DeltaOf(f, order) \in Seq(Messages(Len(captured) + 1)) /\ Len(DeltaOf(f, order)) = n + 1
           /\ \A k \in 1 .. n : DeltaOf(f, order)[k] = Tile("FrameRect", f, order[k])
           /\ DeltaOf(f, order)[n + 1] = FrameEnd
<1> DEFINE Msgs == Messages(Len(captured) + 1)
           tiles == [k \in 1 .. Len(order) |-> Tile("FrameRect", f, order[k])]
<1>1. Len(f) \in Nat /\ (\A t \in 1 .. Len(f) : f[t] \in Colors) /\ Len(order) = n
  BY PictureIs
<1>2. FrameEnd \in Msgs /\ \A k \in 1 .. n : Tile("FrameRect", f, order[k]) \in Msgs
  BY <1>1 DEF Messages, FrameEnd, Tile
<1>3. tiles \in Seq(Msgs) /\ Len(tiles) = n
      /\ \A k \in 1 .. n : tiles[k] = Tile("FrameRect", f, order[k])
  BY <1>1, <1>2
<1> HIDE DEF Msgs, tiles
<1>4. <<FrameEnd>> \in Seq(Msgs) /\ Len(<<FrameEnd>>) = 1 /\ <<FrameEnd>>[1] = FrameEnd
  BY <1>2
<1>5. /\ tiles \o <<FrameEnd>> \in Seq(Msgs) /\ Len(tiles \o <<FrameEnd>>) = n + 1
      /\ \A k \in 1 .. n + 1 :
            (tiles \o <<FrameEnd>>)[k] = IF k <= n THEN tiles[k] ELSE <<FrameEnd>>[k - n]
  BY <1>3, <1>4, ConcatProperties
<1>6. /\ \A k \in 1 .. n : (tiles \o <<FrameEnd>>)[k] = Tile("FrameRect", f, order[k])
      /\ (tiles \o <<FrameEnd>>)[n + 1] = FrameEnd
  <2>1. \A k \in 1 .. n : k \in 1 .. n + 1 /\ k <= n
    OBVIOUS
  <2>2. n + 1 \in 1 .. n + 1 /\ ~(n + 1 <= n) /\ (n + 1) - n = 1
    OBVIOUS
  <2> QED
    BY <1>3, <1>4, <1>5, <2>1, <2>2
<1>7. DeltaOf(f, order) = tiles \o <<FrameEnd>>
  BY DEF DeltaOf, tiles
<1> QED
  BY <1>5, <1>6, <1>7 DEF Msgs

\* An order of the changed tiles leaves none out.
LEMMA EveryTile ==
    ASSUME NEW n \in Nat, NEW tiles \in SUBSET (1 .. n), NEW order \in Ascending(tiles)
    PROVE  /\ Cardinality(tiles) \in Nat
           /\ order \in [1 .. Cardinality(tiles) -> 1 .. n]
           /\ \A t \in tiles : \E k \in 1 .. Cardinality(tiles) : order[k] = t
<1>1. IsFiniteSet(tiles) /\ Cardinality(tiles) \in Nat
  <2>1. 1 \in Int /\ n \in Int
    OBVIOUS
  <2>2. IsFiniteSet(1 .. n)
    BY <2>1, FS_Interval
  <2>3. IsFiniteSet(tiles)
    BY <2>2, FS_Subset
  <2> QED
    BY <2>3, FS_CardinalityType
<1>2. order \in [1 .. Cardinality(tiles) -> tiles]
  BY DEF Ascending
<1> DEFINE places == 1 .. Cardinality(tiles)
<1>3. IsFiniteSet(places) /\ Cardinality(places) = Cardinality(tiles)
  <2> DEFINE m == Cardinality(tiles)
  <2>1. 1 \in Int /\ m \in Int /\ m \in Nat
    BY <1>1
  <2> HIDE DEF m
  <2>2. IsFiniteSet(1 .. m) /\ Cardinality(1 .. m) = IF 1 > m THEN 0 ELSE m - 1 + 1
    BY <2>1, FS_Interval
  <2>3. Cardinality(1 .. m) = m
    BY <2>1, <2>2
  <2> QED
    BY <2>2, <2>3 DEF m
<1>4. ASSUME NEW i \in places, NEW j \in places, order[i] = order[j]
      PROVE  i = j
  <2>1. i \in Int /\ j \in Int
    BY <1>1
  <2>2. order[i] \in Int /\ order[j] \in Int
    <3>1. order[i] \in tiles /\ order[j] \in tiles /\ \A t \in tiles : t \in Int
      BY <1>2
    <3> QED
      BY <3>1
  <2>3. (i < j => order[i] < order[j]) /\ (j < i => order[j] < order[i])
    BY DEF Ascending
  <2> QED
    BY <1>4, <2>1, <2>2, <2>3
<1>5. order \in Injection(places, tiles)
  BY <1>2, <1>4 DEF Injection, IsInjective
<1>6. order \in Surjection(places, tiles)
  BY <1>1, <1>3, <1>5, FS_Injection
<1>7. \A t \in tiles : \E k \in places : order[k] = t
  BY <1>6 DEF Surjection
<1> QED
  BY <1>1, <1>2, <1>7

-----------------------------------------------------------------------------
(* What the viewer's buffer will be.                                       *)

\* The buffer after the reader thread took in a message.
After(b, m) ==
    IF m.op = "FrameInfo" THEN [t \in 1 .. m.size |-> Blank]
    ELSE IF m.op = "FrameEnd" THEN b
    ELSE IF m.at \in 1 .. Len(b) THEN [b EXCEPT ![m.at] = m.pixel] ELSE b

\* The i-th of the messages to come: those on their way, then those to send.
Coming(l, s, i) == IF i <= Len(l) THEN l[i] ELSE s[i - Len(l)]

\* h tells what the buffer b will be after each message to come; where a frame
\* ends, it is the frame of that number.
Foretold(h, b, l, s, frames) ==
    /\ h \in [Nat -> Buffers]
    /\ h[0] = b
    /\ \A i \in 1 .. Len(l) + Len(s) :
          /\ h[i] = After(h[i - 1], Coming(l, s, i))
          /\ Coming(l, s, i).op = "FrameEnd" => h[i] = frames[Coming(l, s, i).seq]

LEMMA AfterType ==
    ASSUME NEW n \in Nat, NEW b \in Buffers, NEW m \in Messages(n)
    PROVE  After(b, m) \in Buffers
<1>1. CASE m.op = "FrameInfo"
  <2>1. m.size \in Sizes
    BY <1>1 DEF Messages
  <2>2. [t \in 1 .. m.size |-> Blank] \in [1 .. m.size -> Colors \cup {Blank}]
    OBVIOUS
  <2> QED
    BY <1>1, <2>1, <2>2, BufferIs DEF After
<1>2. CASE m.op = "FrameEnd"
  BY <1>2 DEF After
<1>3. CASE m.op \in {"FrameData", "FrameRect"}
  <2>1. m.pixel \in Colors
    BY <1>3 DEF Messages
  <2> QED
    BY <1>3, <2>1, OneTile DEF After
<1> QED
  BY <1>1, <1>2, <1>3 DEF Messages

\* The reader thread takes in a message: the rest comes true as foretold.
LEMMA ReadOn ==
    ASSUME NEW n \in Nat, NEW l \in Seq(Messages(n)), l # <<>>, NEW s \in Seq(Messages(n)),
           NEW b, NEW h, NEW frames, Foretold(h, b, l, s, frames)
    PROVE  \E g : /\ Foretold(g, After(b, Head(l)), Tail(l), s, frames)
                  /\ g[Len(Tail(l)) + Len(s)] = h[Len(l) + Len(s)]
                  /\ Head(l).op = "FrameEnd" => After(b, Head(l)) = frames[Head(l).seq]
<1> DEFINE g == [i \in Nat |-> h[i + 1]]
           ll == Len(l)
           ls == Len(s)
<1>1. /\ ll \in Nat /\ ll > 0 /\ ls \in Nat /\ Len(Tail(l)) = ll - 1 /\ Head(l) = l[1]
      /\ \A i \in 1 .. ll - 1 : Tail(l)[i] = l[i + 1]
  OBVIOUS
<1>2. /\ h \in [Nat -> Buffers] /\ h[0] = b
      /\ \A i \in 1 .. ll + ls :
            /\ h[i] = After(h[i - 1], Coming(l, s, i))
            /\ Coming(l, s, i).op = "FrameEnd" => h[i] = frames[Coming(l, s, i).seq]
  BY DEF Foretold
<1>3. g \in [Nat -> Buffers] /\ \A i \in Nat : g[i] = h[i + 1]
  BY <1>2
<1>4. \A i \in 1 .. ll - 1 + ls : Coming(Tail(l), s, i) = Coming(l, s, i + 1)
  BY <1>1 DEF Coming
<1> HIDE DEF g, ll, ls
<1>5. Coming(l, s, 1) = Head(l)
  BY <1>1 DEF Coming, ll
<1>6. 1 \in 1 .. ll + ls
  BY <1>1
<1>7. h[1] = After(b, Head(l)) /\ (Head(l).op = "FrameEnd" => h[1] = frames[Head(l).seq])
  BY <1>2, <1>5, <1>6
<1>8. ASSUME NEW i \in 1 .. ll - 1 + ls
      PROVE  /\ g[i] = After(g[i - 1], Coming(Tail(l), s, i))
             /\ Coming(Tail(l), s, i).op = "FrameEnd" => g[i] = frames[Coming(Tail(l), s, i).seq]
  <2>1. i \in Nat /\ i - 1 \in Nat /\ i + 1 \in 1 .. ll + ls /\ (i + 1) - 1 = i /\ (i - 1) + 1 = i
    BY <1>1
  <2>2. g[i] = h[i + 1] /\ g[i - 1] = h[i]
    BY <1>3, <2>1
  <2>3. h[i + 1] = After(h[i], Coming(l, s, i + 1))
        /\ (Coming(l, s, i + 1).op = "FrameEnd" => h[i + 1] = frames[Coming(l, s, i + 1).seq])
    BY <1>2, <2>1
  <2> QED
    BY <1>4, <2>2, <2>3
<1>9. g[0] = h[1]
  <2>1. 0 \in Nat /\ 0 + 1 = 1
    OBVIOUS
  <2> QED
    BY <1>3, <2>1
<1>10. Foretold(g, After(b, Head(l)), Tail(l), s, frames)
  BY <1>1, <1>3, <1>7, <1>8, <1>9 DEF Foretold, ls
<1>11. g[ll - 1 + ls] = h[ll + ls]
  <2>1. ll - 1 + ls \in Nat /\ (ll - 1 + ls) + 1 = ll + ls
    BY <1>1
  <2> QED
    BY <1>3, <2>1
<1> QED
  BY <1>1, <1>7, <1>10, <1>11 DEF ll, ls

\* A message is sent: what is to come stays what it was.
LEMMA SendOn ==
    ASSUME NEW n \in Nat, NEW l \in Seq(Messages(n)), NEW s \in Seq(Messages(n)), s # <<>>,
           NEW b, NEW h, NEW frames, Foretold(h, b, l, s, frames)
    PROVE  /\ Foretold(h, b, Append(l, Head(s)), Tail(s), frames)
           /\ Len(Append(l, Head(s))) + Len(Tail(s)) = Len(l) + Len(s)
<1>1. /\ Len(l) \in Nat /\ Len(s) \in Nat /\ Len(s) > 0
      /\ Len(Append(l, Head(s))) = Len(l) + 1 /\ Len(Tail(s)) = Len(s) - 1
  OBVIOUS
<1>2. \A i \in 1 .. Len(l) + Len(s) : Coming(Append(l, Head(s)), Tail(s), i) = Coming(l, s, i)
  BY <1>1 DEF Coming
<1>3. (Len(l) + 1) + (Len(s) - 1) = Len(l) + Len(s)
  BY <1>1
<1> QED
  BY <1>1, <1>2, <1>3 DEF Foretold

\* The session ends: what was still to send does not come.
LEMMA SendNoMore ==
    ASSUME NEW n \in Nat, NEW l \in Seq(Messages(n)), NEW s \in Seq(Messages(n)),
           NEW b, NEW h, NEW frames, Foretold(h, b, l, s, frames)
    PROVE  Foretold(h, b, l, <<>>, frames)
<1>1. Len(l) \in Nat /\ Len(s) \in Nat /\ Len(<<>>) = 0
  OBVIOUS
<1>2. \A i \in 1 .. Len(l) + 0 : i \in 1 .. Len(l) + Len(s) /\ Coming(l, <<>>, i) = Coming(l, s, i)
  BY <1>1 DEF Coming
<1> QED
  BY <1>1, <1>2 DEF Foretold

\* A frame is captured when nothing is left to send: its messages come after
\* those on their way.
LEMMA SendMore ==
    ASSUME NEW frames \in Seq(Pictures), NEW f \in Pictures,
           NEW l \in Seq(Messages(Len(frames))), NEW s \in Seq(Messages(Len(frames) + 1)),
           NEW b, NEW h, Foretold(h, b, l, <<>>, frames),
           NEW g, Foretold(g, h[Len(l)], <<>>, s, Append(frames, f))
    PROVE  \E k : /\ Foretold(k, b, l, s, Append(frames, f))
                  /\ k[Len(l) + Len(s)] = g[Len(s)]
<1> DEFINE ll == Len(l)
           ls == Len(s)
           more == Append(frames, f)
           k == [i \in Nat |-> IF i <= ll THEN h[i] ELSE g[i - ll]]
<1>1. ll \in Nat /\ ls \in Nat /\ Len(<<>>) = 0
  OBVIOUS
<1>2. /\ h \in [Nat -> Buffers] /\ h[0] = b
      /\ \A i \in 1 .. ll :
            /\ h[i] = After(h[i - 1], Coming(l, <<>>, i))
            /\ Coming(l, <<>>, i).op = "FrameEnd" => h[i] = frames[Coming(l, <<>>, i).seq]
  BY <1>1 DEF Foretold
<1>3. /\ g \in [Nat -> Buffers] /\ g[0] = h[ll]
      /\ \A i \in 1 .. ls :
            /\ g[i] = After(g[i - 1], Coming(<<>>, s, i))
            /\ Coming(<<>>, s, i).op = "FrameEnd" => g[i] = more[Coming(<<>>, s, i).seq]
  <2>1. Len(<<>>) + Len(s) = ls
    BY <1>1
  <2>2. h[ll] = h[Len(l)] /\ more = Append(frames, f)
    OBVIOUS
  <2> HIDE DEF more, ll, ls
  <2> QED
    BY <2>1, <2>2 DEF Foretold
<1>4. \A i \in 1 .. ll : l[i] \in Messages(Len(frames))
  OBVIOUS
<1>5. \A q \in 1 .. Len(frames) : more[q] = frames[q]
  OBVIOUS
<1> HIDE DEF ll, ls, more
<1>6. \A i \in 1 .. ll : Coming(l, s, i) = l[i] /\ Coming(l, <<>>, i) = l[i]
  BY <1>1 DEF Coming, ll
<1>7. \A i \in 1 .. ls : Coming(<<>>, s, i) = s[i] /\ Coming(l, s, ll + i) = s[i]
  BY <1>1 DEF Coming, ll
<1>8. \A i \in Nat : i - ll \in Nat \/ i <= ll
  BY <1>1
<1>9. k \in [Nat -> Buffers] /\ \A i \in Nat : k[i] = IF i <= ll THEN h[i] ELSE g[i - ll]
  BY <1>2, <1>3, <1>8
<1> HIDE DEF k
<1>10. k[0] = b
  BY <1>1, <1>2, <1>9
<1>11. ASSUME NEW i \in 1 .. ll
       PROVE  /\ k[i] = After(k[i - 1], Coming(l, s, i))
              /\ Coming(l, s, i).op = "FrameEnd" => k[i] = more[Coming(l, s, i).seq]
  <2>1. k[i] = h[i] /\ k[i - 1] = h[i - 1]
    BY <1>1, <1>9
  <2>2. l[i].op = "FrameEnd" => l[i].seq \in 1 .. Len(frames)
    BY <1>4 DEF Messages
  <2>3. h[i] = After(h[i - 1], Coming(l, <<>>, i))
        /\ (Coming(l, <<>>, i).op = "FrameEnd" => h[i] = frames[Coming(l, <<>>, i).seq])
    BY <1>2, Zenon
  <2>4. Coming(l, <<>>, i) = l[i] /\ Coming(l, s, i) = l[i]
    BY <1>6, Zenon
  <2>5. k[i] = After(k[i - 1], l[i]) /\ (l[i].op = "FrameEnd" => k[i] = frames[l[i].seq])
    BY <2>1, <2>3, <2>4, Zenon
  <2>6. l[i].op = "FrameEnd" => k[i] = more[l[i].seq]
    BY <1>5, <2>2, <2>5
  <2> QED
    BY <2>4, <2>5, <2>6, Zenon
<1>12. ASSUME NEW j \in 1 .. ls
       PROVE  /\ k[ll + j] = After(k[(ll + j) - 1], Coming(l, s, ll + j))
              /\ Coming(l, s, ll + j).op = "FrameEnd" => k[ll + j] = more[Coming(l, s, ll + j).seq]
  <2>1. k[ll + j] = g[j]
    <3>1. ll + j \in Nat /\ ~(ll + j <= ll) /\ (ll + j) - ll = j
      BY <1>1
    <3> QED
      BY <1>9, <3>1
  <2>2. k[(ll + j) - 1] = g[j - 1]
    <3>1. CASE j = 1
      <4>1. (ll + j) - 1 = ll /\ j - 1 = 0
        BY <1>1, <3>1
      <4> QED
        BY <1>1, <1>3, <1>9, <4>1
    <3>2. CASE j # 1
      <4>1. (ll + j) - 1 \in Nat /\ ~((ll + j) - 1 <= ll) /\ ((ll + j) - 1) - ll = j - 1
        BY <1>1, <3>2
      <4> QED
        BY <1>9, <4>1
    <3> QED
      BY <3>1, <3>2
  <2>3. g[j] = After(g[j - 1], Coming(<<>>, s, j))
        /\ (Coming(<<>>, s, j).op = "FrameEnd" => g[j] = more[Coming(<<>>, s, j).seq])
    BY <1>3, Zenon
  <2>4. Coming(<<>>, s, j) = s[j] /\ Coming(l, s, ll + j) = s[j]
    BY <1>7, Zenon
  <2> QED
    BY <2>1, <2>2, <2>3, <2>4, Zenon
<1>13. ASSUME NEW i \in 1 .. ll + ls
       PROVE  /\ k[i] = After(k[i - 1], Coming(l, s, i))
              /\ Coming(l, s, i).op = "FrameEnd" => k[i] = more[Coming(l, s, i).seq]
  <2>1. CASE i <= ll
    <3>1. i \in 1 .. ll
      BY <1>1, <2>1
    <3> QED
      BY <1>11, <3>1
  <2>2. CASE ~(i <= ll)
    <3>1. i - ll \in 1 .. ls /\ ll + (i - ll) = i
      BY <1>1, <2>2
    <3> QED
      BY <1>12, <3>1
  <2> QED
    BY <2>1, <2>2
<1>14. Foretold(k, b, l, s, more)
  BY <1>9, <1>10, <1>13 DEF Foretold, ll, ls
<1>15. k[ll + ls] = g[ls]
  <2>1. CASE ls = 0
    <3>1. ll + ls = ll
      BY <1>1, <2>1
    <3> QED
      BY <1>1, <1>3, <1>9, <2>1, <3>1
  <2>2. CASE ls # 0
    <3>1. ll + ls \in Nat /\ ~(ll + ls <= ll) /\ (ll + ls) - ll = ls
      BY <1>1, <2>2
    <3> QED
      BY <1>9, <3>1
  <2> QED
    BY <2>1, <2>2
<1> QED
  BY <1>14, <1>15 DEF more, ll, ls

\* A key frame: whatever the buffer was, tile by tile it becomes the picture.
LEMMA KeyframeTells ==
    ASSUME captured \in Seq(Pictures), NEW f \in Pictures, NEW b \in Buffers
    PROVE  \E g : /\ Foretold(g, b, <<>>, KeyframeOf(f), Append(captured, f))
                  /\ g[Len(KeyframeOf(f))] = f
<1> DEFINE n == Len(f)
           s == KeyframeOf(f)
           more == Append(captured, f)
           after(i) == [k \in 1 .. n |-> IF k < i THEN f[k] ELSE Blank]
           g == [i \in Nat |-> IF i = 0 THEN b ELSE after(i)]
<1>1. /\ n \in Sizes /\ n \in Nat /\ f \in [1 .. n -> Colors] /\ f \in Buffers
      /\ \A k \in 1 .. n : f[k] \in Colors
  BY PictureIs
<1>2. /\ Len(captured) \in Nat /\ more[Len(captured) + 1] = f
  OBVIOUS
<1>3. /\ Len(s) = n + 2
      /\ s[1] = [op |-> "FrameInfo", size |-> n]
      /\ \A t \in 1 .. n : s[t + 1] = [op |-> "FrameData", at |-> t, pixel |-> f[t]]
      /\ s[n + 2] = [op |-> "FrameEnd", seq |-> Len(captured) + 1]
  BY <1>2, KeyframeList DEF Tile, FrameEnd
<1>4. \A i \in 1 .. n + 2 : Coming(<<>>, s, i) = s[i]
  <2>1. Len(<<>>) = 0 /\ \A i \in 1 .. n + 2 : ~(i <= 0) /\ i - 0 = i
    BY <1>1
  <2> QED
    BY <2>1 DEF Coming
<1> HIDE DEF n, s, more
<1>5. \A i \in Nat : /\ after(i) \in [1 .. n -> Colors \cup {Blank}]
                     /\ after(i) \in Buffers /\ Len(after(i)) = n
  <2>1. \A i \in Nat : after(i) \in [1 .. n -> Colors \cup {Blank}]
    BY <1>1
  <2> HIDE DEF after
  <2> QED
    BY <1>1, <2>1, BufferIs
<1>6. after(1) = [t \in 1 .. n |-> Blank]
  BY <1>1
<1>7. ASSUME NEW t \in 1 .. n
      PROVE  after(t + 1) = [after(t) EXCEPT ![t] = f[t]]
  <2>1. \A k \in 1 .. n : k < t + 1 <=> k = t \/ k < t
    BY <1>1
  <2>2. after(t + 1) = [k \in 1 .. n |-> IF k = t \/ k < t THEN f[k] ELSE Blank]
    BY <2>1
  <2>3. [after(t) EXCEPT ![t] = f[t]]
          = [k \in 1 .. n |-> IF k = t THEN f[t] ELSE IF k < t THEN f[k] ELSE Blank]
    OBVIOUS
  <2>4. [k \in 1 .. n |-> IF k = t \/ k < t THEN f[k] ELSE Blank]
          = [k \in 1 .. n |-> IF k = t THEN f[t] ELSE IF k < t THEN f[k] ELSE Blank]
    OBVIOUS
  <2> QED
    BY <2>2, <2>3, <2>4
<1>8. after(n + 1) = f /\ after(n + 2) = f
  BY <1>1
<1> HIDE DEF after
<1>9. g \in [Nat -> Buffers] /\ \A i \in Nat : g[i] = IF i = 0 THEN b ELSE after(i)
  BY <1>5
<1> HIDE DEF g
<1>10. g[0] = b /\ \A i \in 1 .. n + 2 : g[i] = after(i)
  BY <1>1, <1>9
<1>11. g[1] = After(b, s[1]) /\ s[1].op # "FrameEnd"
  BY <1>1, <1>3, <1>6, <1>10 DEF After
<1>12. ASSUME NEW t \in 1 .. n
       PROVE  g[t + 1] = After(g[t], s[t + 1]) /\ s[t + 1].op # "FrameEnd"
  <2>1. g[t + 1] = after(t + 1) /\ g[t] = after(t)
    BY <1>1, <1>10
  <2>2. s[t + 1].op = "FrameData" /\ s[t + 1].at = t /\ s[t + 1].pixel = f[t]
    <3>1. s[t + 1] = [op |-> "FrameData", at |-> t, pixel |-> f[t]]
      BY <1>3
    <3> QED
      BY <3>1
  <2>3. t \in 1 .. Len(after(t))
    BY <1>1, <1>5
  <2> QED
    BY <1>7, <2>1, <2>2, <2>3 DEF After
<1>13. /\ g[n + 2] = After(g[n + 1], s[n + 2])
       /\ g[n + 2] = f /\ g[n + 2] = more[s[n + 2].seq]
  <2>1. g[n + 2] = f /\ g[n + 1] = f
    BY <1>1, <1>8, <1>10
  <2> QED
    BY <1>2, <1>3, <2>1 DEF After
<1>14. ASSUME NEW i \in 1 .. n + 2
       PROVE  /\ g[i] = After(g[i - 1], s[i])
              /\ s[i].op = "FrameEnd" => g[i] = more[s[i].seq]
  <2>1. CASE i = 1
    <3>1. i - 1 = 0
      BY <2>1
    <3> QED
      BY <1>10, <1>11, <2>1, <3>1
  <2>2. CASE i = n + 2
    <3>1. i - 1 = n + 1
      BY <1>1, <2>2
    <3> QED
      BY <1>13, <2>2, <3>1
  <2>3. CASE i # 1 /\ i # n + 2
    <3>1. i - 1 \in 1 .. n /\ (i - 1) + 1 = i
      BY <1>1, <2>3
    <3> QED
      BY <1>12, <3>1
  <2> QED
    BY <2>1, <2>2, <2>3
<1>15. Foretold(g, b, <<>>, s, more)
  <2>1. Len(<<>>) + Len(s) = n + 2
    BY <1>1, <1>3
  <2> QED
    BY <1>4, <1>9, <1>10, <1>14, <2>1 DEF Foretold
<1> QED
  BY <1>3, <1>13, <1>15 DEF s, more

\* A delta: the buffer was the picture the tiles were compared with, and the
\* tiles that changed, in any order that has all of them, make it the new one.
LEMMA DeltaTells ==
    ASSUME captured \in Seq(Pictures), NEW f \in Pictures, NEW p \in Pictures, Len(p) = Len(f),
           NEW order \in Ascending(Changed(p, f))
    PROVE  \E g : /\ Foretold(g, p, <<>>, DeltaOf(f, order), Append(captured, f))
                  /\ g[Len(DeltaOf(f, order))] = f
<1> DEFINE n == Len(f)
           tiles == Changed(p, f)
           m == Cardinality(tiles)
           s == DeltaOf(f, order)
           more == Append(captured, f)
           sent(i, k) == \E j \in 1 .. m : j <= i /\ order[j] = k
           g == [i \in Nat |-> [k \in 1 .. n |-> IF sent(i, k) THEN f[k] ELSE p[k]]]
<1>1. /\ n \in Sizes /\ n \in Nat /\ f \in [1 .. n -> Colors] /\ p \in [1 .. n -> Colors]
      /\ \A k \in 1 .. n : f[k] \in Colors /\ p[k] \in Colors
  BY PictureIs
<1>2. tiles = {t \in 1 .. n : p[t] # f[t]} /\ tiles \in SUBSET (1 .. n)
  BY DEF Changed
<1> HIDE DEF n, tiles
<1>3. /\ m \in Nat /\ order \in [1 .. m -> 1 .. n]
      /\ \A t \in tiles : \E j \in 1 .. m : order[j] = t
  <2>1. order \in Ascending(tiles)
    BY DEF tiles
  <2>2. /\ Cardinality(tiles) \in Nat
        /\ order \in [1 .. Cardinality(tiles) -> 1 .. n]
        /\ \A t \in tiles : \E k \in 1 .. Cardinality(tiles) : order[k] = t
    <3>1. PICK size, set : size = n /\ set = tiles
      OBVIOUS
    <3>2. size \in Nat /\ set \in SUBSET (1 .. size) /\ order \in Ascending(set)
      BY <1>1, <1>2, <2>1, <3>1
    <3>3. /\ Cardinality(set) \in Nat
          /\ order \in [1 .. Cardinality(set) -> 1 .. size]
          /\ \A t \in set : \E k \in 1 .. Cardinality(set) : order[k] = t
      BY <3>2, EveryTile
    <3> QED
      BY <3>1, <3>3
  <2> QED
    BY <2>2
<1> HIDE DEF m
<1>4. Len(captured) \in Nat /\ more[Len(captured) + 1] = f
  OBVIOUS
<1>5. /\ Len(s) = m + 1
      /\ \A k \in 1 .. m : s[k] = [op |-> "FrameRect", at |-> order[k], pixel |-> f[order[k]]]
      /\ s[m + 1] = [op |-> "FrameEnd", seq |-> Len(captured) + 1]
  <2>1. order \in [1 .. m -> 1 .. Len(f)]
    BY <1>3 DEF n
  <2>2. /\ Len(s) = m + 1
        /\ \A k \in 1 .. m : s[k] = Tile("FrameRect", f, order[k])
        /\ s[m + 1] = FrameEnd
    <3>1. PICK num : num = m
      OBVIOUS
    <3>2. num \in Nat /\ order \in [1 .. num -> 1 .. Len(f)] /\ Len(captured) \in Nat
      BY <1>3, <1>4, <2>1, <3>1
    <3>3. /\ Len(DeltaOf(f, order)) = num + 1
          /\ \A k \in 1 .. num : DeltaOf(f, order)[k] = Tile("FrameRect", f, order[k])
          /\ DeltaOf(f, order)[num + 1] = FrameEnd
      BY <3>2, DeltaList
    <3> QED
      BY <3>1, <3>3
  <2> QED
    BY <2>2 DEF Tile, FrameEnd
<1>6. \A i \in 1 .. m + 1 : Coming(<<>>, s, i) = s[i]
  <2>1. Len(<<>>) = 0 /\ \A i \in 1 .. m + 1 : ~(i <= 0) /\ i - 0 = i
    BY <1>3
  <2> QED
    BY <2>1 DEF Coming
<1> HIDE DEF s, more
<1>7. \A i \in Nat : g[i] = [k \in 1 .. n |-> IF sent(i, k) THEN f[k] ELSE p[k]]
  OBVIOUS
<1>8. \A i \in Nat : g[i] \in [1 .. n -> Colors \cup {Blank}] /\ g[i] \in Buffers /\ Len(g[i]) = n
  <2>1. \A i \in Nat : g[i] \in [1 .. n -> Colors \cup {Blank}]
    BY <1>1
  <2> HIDE DEF g
  <2> QED
    BY <1>1, <2>1, BufferIs
<1>9. g \in [Nat -> Buffers]
  BY <1>8
<1> HIDE DEF g
<1>10. \A k \in 1 .. n : ~sent(0, k) /\ (sent(m, k) <=> sent(m + 1, k))
  BY <1>3
<1>11. ASSUME NEW j \in 1 .. m, NEW k \in 1 .. n
       PROVE  sent(j, k) <=> sent(j - 1, k) \/ order[j] = k
  BY <1>3
<1>12. \A k \in 1 .. n : ~sent(m, k) => p[k] = f[k]
  BY <1>2, <1>3
<1> HIDE DEF sent
<1>13. g[0] = p
  BY <1>1, <1>7, <1>10
<1>14. ASSUME NEW j \in 1 .. m
       PROVE  g[j] = After(g[j - 1], s[j]) /\ s[j].op # "FrameEnd"
  <2>1. j \in Nat /\ j - 1 \in Nat /\ order[j] \in 1 .. n
    BY <1>3
  <2>2. s[j].op = "FrameRect" /\ s[j].at = order[j] /\ s[j].pixel = f[order[j]]
    <3>1. s[j] = [op |-> "FrameRect", at |-> order[j], pixel |-> f[order[j]]]
      BY <1>5
    <3> QED
      BY <3>1
  <2>3. order[j] \in 1 .. Len(g[j - 1])
    BY <1>8, <2>1
  <2>4. After(g[j - 1], s[j]) = [g[j - 1] EXCEPT ![order[j]] = f[order[j]]]
    BY <2>2, <2>3 DEF After
  <2>5. g[j] = [k \in 1 .. n |-> IF sent(j - 1, k) \/ order[j] = k THEN f[k] ELSE p[k]]
    BY <1>7, <1>11, <2>1
  <2>6. [g[j - 1] EXCEPT ![order[j]] = f[order[j]]]
          = [k \in 1 .. n |-> IF sent(j - 1, k) \/ order[j] = k THEN f[k] ELSE p[k]]
    <3>1. g[j - 1] = [k \in 1 .. n |-> IF sent(j - 1, k) THEN f[k] ELSE p[k]]
      BY <1>7, <2>1
    <3>2. [g[j - 1] EXCEPT ![order[j]] = f[order[j]]]
            = [k \in 1 .. n |-> IF k = order[j] THEN f[order[j]]
                                ELSE IF sent(j - 1, k) THEN f[k] ELSE p[k]]
      BY <3>1
    <3>3. \A k \in 1 .. n :
             (IF k = order[j] THEN f[order[j]] ELSE IF sent(j - 1, k) THEN f[k] ELSE p[k])
               = IF sent(j - 1, k) \/ order[j] = k THEN f[k] ELSE p[k]
      OBVIOUS
    <3> QED
      BY <3>2, <3>3
  <2> QED
    BY <2>2, <2>4, <2>5, <2>6
<1>15. g[m] = f /\ g[m + 1] = f
  <2>1. m \in Nat /\ m + 1 \in Nat
    BY <1>3
  <2>2. g[m] = [k \in 1 .. n |-> f[k]] /\ g[m + 1] = [k \in 1 .. n |-> f[k]]
    BY <1>7, <1>10, <1>12, <2>1
  <2> QED
    BY <1>1, <2>2
<1>16. ASSUME NEW i \in 1 .. m + 1
       PROVE  /\ g[i] = After(g[i - 1], s[i])
              /\ s[i].op = "FrameEnd" => g[i] = more[s[i].seq]
  <2>1. CASE i = m + 1
    <3>1. i - 1 = m
      BY <1>3, <2>1
    <3> QED
      BY <1>4, <1>5, <1>15, <2>1, <3>1 DEF After
  <2>2. CASE i # m + 1
    <3>1. i \in 1 .. m
      BY <1>3, <2>2
    <3> QED
      BY <1>14, <3>1
  <2> QED
    BY <2>1, <2>2
<1>17. Foretold(g, p, <<>>, s, more)
  <2>1. Len(<<>>) + Len(s) = m + 1
    BY <1>3, <1>5
  <2> QED
    BY <1>6, <1>9, <1>13, <1>16, <2>1 DEF Foretold
<1> QED
  BY <1>5, <1>15, <1>17 DEF s, more

-----------------------------------------------------------------------------
(* Types.                                                                  *)

\* What is on its way, and still to send, are messages of captured frames; the
\* last one to send ends a frame.
Sent ==
    /\ link \in Seq(Messages(Len(captured)))
    /\ sending \in Seq(Messages(Len(captured)))
    /\ sending # <<>> => sending[Len(sending)].op = "FrameEnd"

TypeInv == TypeOK /\ Sent

\* One more frame is captured: the messages there were are messages still.
LEMMA MoreFrames ==
    ASSUME NEW n \in Nat
    PROVE  Seq(Messages(n)) \subseteq Seq(Messages(n + 1))
<1>1. Messages(n) \subseteq Messages(n + 1)
  <2>1. \A q \in 1 .. n : q \in 1 .. n + 1
    OBVIOUS
  <2> QED
    BY <2>1 DEF Messages
<1> QED
  BY <1>1

LEMMA KeyframeType ==
    ASSUME captured \in Seq(Pictures), NEW f \in Pictures
    PROVE  /\ KeyframeOf(f) \in Seq(Messages(Len(captured) + 1)) /\ KeyframeOf(f) # <<>>
           /\ KeyframeOf(f)[Len(KeyframeOf(f))].op = "FrameEnd"
<1>1. Len(captured) \in Nat /\ Len(f) \in Nat
  BY PictureIs
<1>2. /\ KeyframeOf(f) \in Seq(Messages(Len(captured) + 1)) /\ Len(KeyframeOf(f)) = Len(f) + 2
      /\ KeyframeOf(f)[Len(f) + 2] = FrameEnd
  BY <1>1, KeyframeList, Zenon
<1>3. KeyframeOf(f) # <<>>
  BY <1>1, <1>2
<1> QED
  BY <1>2, <1>3 DEF FrameEnd

LEMMA DeltaType ==
    ASSUME captured \in Seq(Pictures), NEW f \in Pictures, NEW p \in Pictures, Len(p) = Len(f),
           NEW order \in Ascending(Changed(p, f))
    PROVE  /\ DeltaOf(f, order) \in Seq(Messages(Len(captured) + 1)) /\ DeltaOf(f, order) # <<>>
           /\ DeltaOf(f, order)[Len(DeltaOf(f, order))].op = "FrameEnd"
<1> DEFINE m == Cardinality(Changed(p, f))
<1>1. Len(captured) \in Nat /\ Len(f) \in Nat
  BY PictureIs
<1>2. Changed(p, f) \in SUBSET (1 .. Len(f))
  BY DEF Changed
<1>3. m \in Nat /\ order \in [1 .. m -> 1 .. Len(f)]
  BY <1>1, <1>2, EveryTile
<1> HIDE DEF m
<1>4. /\ DeltaOf(f, order) \in Seq(Messages(Len(captured) + 1)) /\ Len(DeltaOf(f, order)) = m + 1
      /\ DeltaOf(f, order)[m + 1] = FrameEnd
  BY <1>1, <1>3, DeltaList, Zenon
<1>5. DeltaOf(f, order) # <<>>
  BY <1>3, <1>4
<1> QED
  BY <1>4, <1>5 DEF FrameEnd

\* A delta is taken against a picture of the same geometry.
LEMMA DeltaAgainst ==
    ASSUME TypeInv, ~NeedsKeyframe
    PROVE  screen \in Pictures /\ prev \in Pictures /\ Len(prev) = Len(screen) /\ sentKeyframe
<1>1. screen \in Pictures /\ prev \in Pictures \cup {<<>>}
      /\ Len(prev) = Len(screen) /\ sentKeyframe
  BY DEF TypeInv, TypeOK, NeedsKeyframe
<1>2. Len(screen) \in Sizes /\ 0 \notin Sizes
  BY <1>1, PictureIs DEF PictureAssumption
<1>3. prev # <<>>
  BY <1>1, <1>2, EmptyBuffer
<1> QED
  BY <1>1, <1>3

LEMMA TypeInitial ==
    ASSUME Init
    PROVE  TypeInv
<1>1. /\ <<>> \in Buffers /\ Len(<<>>) = 0
      /\ <<>> \in Seq(Messages(0)) /\ <<>> \in Seq(Pictures)
  BY EmptyBuffer
<1>2. TypeOK
  <2>1. MaySecure \in BOOLEAN /\ MaxChanges \in Nat /\ MaxLosses \in Nat /\ LinkSize \in Nat
    BY DEF PictureAssumption
  <2>2. 0 \in 0 .. MaxChanges /\ 0 \in 0 .. MaxLosses /\ 0 <= LinkSize /\ 0 \in 0 .. 0
    BY <2>1
  <2>3. secure \in BOOLEAN
    BY <2>1 DEF Init
  <2>4. fresh \in BOOLEAN /\ dup \in BOOLEAN /\ captureOk \in BOOLEAN
    BY <2>3 DEF Init
  <2>5. /\ changes \in 0 .. MaxChanges /\ losses \in 0 .. MaxLosses
        /\ Len(link) <= LinkSize /\ frontSeq \in 0 .. Len(captured) /\ remote = Len(pending)
    BY <1>1, <2>2 DEF Init
  <2>6. /\ screen \in Pictures /\ open \in BOOLEAN /\ sentKeyframe \in BOOLEAN /\ viewing \in BOOLEAN
        /\ prev \in Pictures \cup {<<>>} /\ frame \in Pictures \cup {<<>>}
        /\ captured \in Seq(Pictures) /\ pending \in Buffers /\ front \in Buffers
    BY <1>1 DEF Init
  <2> QED
    BY <2>3, <2>4, <2>5, <2>6 DEF TypeOK
<1>3. Sent
  BY <1>1 DEF Init, Sent
<1> QED
  BY <1>2, <1>3 DEF TypeInv

\* The first message of a list, and the rest.
LEMMA FirstMessage ==
    ASSUME NEW n \in Nat, NEW s \in Seq(Messages(n)), s # <<>>
    PROVE  Head(s) \in Messages(n) /\ Tail(s) \in Seq(Messages(n))
  OBVIOUS

LEMMA MirrorType ==
    ASSUME TypeInv, NEW m \in Messages(Len(captured))
    PROVE  Mirror(m) \in Pictures \cup {<<>>}
<1>1. prev \in Pictures \cup {<<>>} /\ frame \in Pictures \cup {<<>>}
  BY DEF TypeInv, TypeOK
<1>2. CASE m.op = "FrameRect"
  <2>1. m.pixel \in Colors
    BY <1>2 DEF Messages
  <2> QED
    BY <1>1, <1>2, <2>1, OneTile DEF Mirror
<1>3. CASE m.op # "FrameRect"
  BY <1>1, <1>3 DEF Mirror
<1> QED
  BY <1>2, <1>3

LEMMA TypeAcquire ==
    ASSUME TypeInv, Acquire
    PROVE  TypeInv'
<1> USE DEF viewer
<1> DEFINE n == Len(captured)
<1>1. screen \in Pictures /\ captured \in Seq(Pictures) /\ n \in Nat
  BY DEF TypeInv, TypeOK
<1>2. CASE UNCHANGED <<sending, captured>>
  <2>1. TypeOK'
    BY <1>2 DEF TypeInv, TypeOK, Acquire
  <2>2. Sent'
    BY <1>2 DEF TypeInv, Sent, Acquire
  <2> QED
    BY <2>1, <2>2 DEF TypeInv
<1>3. CASE /\ captured' = Append(captured, screen)
           /\ sending' \in Seq(Messages(n + 1)) /\ sending' # <<>>
           /\ sending'[Len(sending')].op = "FrameEnd"
  <2>1. captured' \in Seq(Pictures) /\ Len(captured') = n + 1
    BY <1>1, <1>3
  <2>2. frontSeq' \in 0 .. Len(captured')
    <3>1. frontSeq' = frontSeq /\ frontSeq \in 0 .. n
      BY DEF TypeInv, TypeOK, Acquire
    <3> QED
      BY <1>1, <2>1, <3>1
  <2>3. TypeOK'
    BY <2>1, <2>2 DEF TypeInv, TypeOK, Acquire
  <2>4. link' \in Seq(Messages(n + 1))
    BY <1>1, MoreFrames DEF TypeInv, Sent, Acquire
  <2> QED
    BY <1>3, <2>1, <2>3, <2>4 DEF TypeInv, Sent
<1>4. CASE NeedsKeyframe
  <2>1. sending' = KeyframeOf(screen) /\ captured' = Append(captured, screen)
    BY <1>4 DEF Acquire
  <2> QED
    BY <1>1, <1>3, <2>1, KeyframeType
<1>5. CASE ~NeedsKeyframe /\ Changed(prev, screen) # {}
  <2>1. PICK order \in Ascending(Changed(prev, screen)) : sending' = DeltaOf(screen, order)
    BY <1>5 DEF Acquire
  <2>2. captured' = Append(captured, screen)
    BY <1>5 DEF Acquire
  <2>3. prev \in Pictures /\ Len(prev) = Len(screen)
    BY <1>5, DeltaAgainst
  <2> QED
    BY <1>1, <1>3, <2>1, <2>2, <2>3, DeltaType
<1> QED
  BY <1>2, <1>4, <1>5 DEF Acquire

LEMMA TypeInductive ==
    ASSUME TypeInv, [Next]_vars
    PROVE  TypeInv'
<1> USE DEF desktop, streamer, viewer
<1>1. CASE Draw
  <2>1. MaxChanges \in Nat
    BY DEF PictureAssumption
  <2>2. changes' \in 0 .. MaxChanges
    BY <1>1, <2>1 DEF TypeInv, TypeOK, Draw
  <2>3. dup' \in BOOLEAN
    BY <1>1 DEF TypeInv, TypeOK, Draw
  <2>4. screen' \in Pictures /\ fresh' \in BOOLEAN
    BY <1>1 DEF Draw
  <2> QED
    BY <1>1, <2>2, <2>3, <2>4 DEF TypeInv, TypeOK, Sent, Draw
<1>2. CASE Lose
  <2>1. MaxLosses \in Nat /\ MaySecure \in BOOLEAN
    BY DEF PictureAssumption
  <2>2. losses' \in 0 .. MaxLosses
    BY <1>2, <2>1 DEF TypeInv, TypeOK, Lose
  <2>3. dup' \in BOOLEAN /\ secure' \in BOOLEAN
    BY <1>2, <2>1 DEF Lose
  <2> QED
    BY <1>2, <2>2, <2>3 DEF TypeInv, TypeOK, Sent, Lose
<1>3. CASE Unlock
  BY <1>3 DEF TypeInv, TypeOK, Sent, Unlock
<1>4. CASE Acquire
  BY <1>4, TypeAcquire
<1>5. CASE AcquireLost
  BY <1>5 DEF TypeInv, TypeOK, Sent, AcquireLost
<1>6. CASE SessionEnds
  <2>1. TypeOK'
    BY <1>6 DEF TypeInv, TypeOK, SessionEnds
  <2>2. sending' = <<>> /\ <<>> \in Seq(Messages(Len(captured)))
    BY <1>6 DEF SessionEnds
  <2>3. Sent'
    BY <1>6, <2>2 DEF TypeInv, Sent, SessionEnds
  <2> QED
    BY <2>1, <2>3 DEF TypeInv
<1>7. CASE SendFails
  <2>1. TypeOK'
    BY <1>7 DEF TypeInv, TypeOK, SendFails
  <2>2. sending' = <<>> /\ <<>> \in Seq(Messages(Len(captured)))
    BY <1>7 DEF SendFails
  <2>3. Sent'
    BY <1>7, <2>2 DEF TypeInv, Sent, SendFails
  <2> QED
    BY <2>1, <2>3 DEF TypeInv
<1>8. CASE Send
  <2> DEFINE n == Len(captured)
  <2>1. /\ n \in Nat /\ link \in Seq(Messages(n)) /\ sending \in Seq(Messages(n)) /\ sending # <<>>
        /\ Len(link) < LinkSize /\ LinkSize \in Nat
        /\ sending[Len(sending)].op = "FrameEnd"
    BY <1>8 DEF TypeInv, TypeOK, Sent, Send, PictureAssumption
  <2>2. Head(sending) \in Messages(n) /\ Tail(sending) \in Seq(Messages(n))
    BY <2>1, FirstMessage
  <2>3. Append(link, Head(sending)) \in Seq(Messages(n)) /\ Len(Append(link, Head(sending))) <= LinkSize
    BY <2>1, <2>2
  <2>4. Mirror(Head(sending)) \in Pictures \cup {<<>>}
    BY <2>2, MirrorType
  <2>5. Tail(sending) # <<>> => Tail(sending)[Len(Tail(sending))] = sending[Len(sending)]
    BY <2>1
  <2>6. TypeOK'
    BY <1>8, <2>3, <2>4 DEF TypeInv, TypeOK, Send
  <2>7. Sent'
    BY <1>8, <2>1, <2>2, <2>3, <2>5 DEF Sent, Send
  <2> QED
    BY <2>6, <2>7 DEF TypeInv
<1>9. CASE ReadInfo \/ ReadTile \/ ReadEnd
  <2> DEFINE n == Len(captured)
  <2>1. /\ n \in Nat /\ link \in Seq(Messages(n)) /\ link # <<>> /\ link' = Tail(link)
        /\ pending \in Buffers /\ Len(link) <= LinkSize /\ LinkSize \in Nat
    <3>1. link # <<>> /\ link' = Tail(link)
      BY <1>9 DEF ReadInfo, ReadTile, ReadEnd, Reads
    <3>2. n \in Nat /\ pending \in Buffers /\ Len(link) <= LinkSize
      BY DEF TypeInv, TypeOK
    <3>3. link \in Seq(Messages(n))
      BY DEF TypeInv, Sent
    <3> QED
      BY <3>1, <3>2, <3>3 DEF PictureAssumption
  <2>2. Head(link) \in Messages(n) /\ Tail(link) \in Seq(Messages(n)) /\ Len(Tail(link)) <= LinkSize
    BY <2>1, FirstMessage
  <2>3. Sent'
    BY <1>9, <2>1, <2>2 DEF TypeInv, Sent, ReadInfo, ReadTile, ReadEnd
  <2>4. CASE ReadInfo
    <3>1. Head(link).size \in Sizes
      BY <2>2, <2>4 DEF ReadInfo, Reads, Messages
    <3>2. [t \in 1 .. Head(link).size |-> Blank] \in [1 .. Head(link).size -> Colors \cup {Blank}]
      OBVIOUS
    <3>3. pending' \in Buffers /\ Len(pending') = Head(link).size
      BY <2>4, <3>1, <3>2, BufferIs DEF ReadInfo
    <3>4. TypeOK'
      BY <2>1, <2>2, <2>4, <3>3 DEF TypeInv, TypeOK, ReadInfo
    <3> QED
      BY <2>3, <3>4 DEF TypeInv
  <2>5. CASE ReadTile
    <3>1. Head(link).pixel \in Colors
      BY <2>2, <2>5 DEF ReadTile, Reads, Messages
    <3>2. pending' \in Buffers /\ Len(pending') = Len(pending)
      <4>1. CASE Head(link).at \in 1 .. Len(pending)
        <5>1. pending' = [pending EXCEPT ![Head(link).at] = Head(link).pixel]
          BY <2>5, <4>1 DEF ReadTile
        <5>2. pending \in [1 .. Len(pending) -> Colors \cup {Blank}] /\ Len(pending) \in Sizes \cup {0}
          BY <2>1, BufferIs
        <5>3. pending' \in [1 .. Len(pending) -> Colors \cup {Blank}]
          BY <3>1, <5>1, <5>2
        <5> QED
          BY <5>2, <5>3, BufferIs
      <4>2. CASE Head(link).at \notin 1 .. Len(pending)
        BY <2>1, <2>5, <4>2 DEF ReadTile
      <4> QED
        BY <4>1, <4>2
    <3>3. TypeOK'
      BY <2>1, <2>2, <2>5, <3>2 DEF TypeInv, TypeOK, ReadTile
    <3> QED
      BY <2>3, <3>3 DEF TypeInv
  <2>6. CASE ReadEnd
    <3>1. Head(link).seq \in 1 .. n
      BY <2>2, <2>6 DEF ReadEnd, Reads, Messages
    <3>2. Head(link).seq \in 0 .. n
      BY <2>1, <3>1
    <3>3. TypeOK'
      BY <2>1, <2>2, <2>6, <3>2 DEF TypeInv, TypeOK, ReadEnd
    <3> QED
      BY <2>3, <3>3 DEF TypeInv
  <2> QED
    BY <1>9, <2>4, <2>5, <2>6
<1>10. CASE ReadClosed
  BY <1>10 DEF TypeInv, TypeOK, Sent, ReadClosed
<1>11. CASE CloseViewer
  <2>1. LinkSize \in Nat
    BY DEF PictureAssumption
  <2>2. link' = <<>> /\ link' \in Seq(Messages(Len(captured))) /\ Len(link') <= LinkSize
    BY <1>11, <2>1 DEF CloseViewer
  <2> QED
    BY <1>11, <2>2 DEF TypeInv, TypeOK, Sent, CloseViewer
<1>12. CASE UNCHANGED vars
  BY <1>12 DEF TypeInv, TypeOK, Sent, vars
<1> QED
  BY <1>1, <1>2, <1>3, <1>4, <1>5, <1>6, <1>7, <1>8, <1>9, <1>10, <1>11, <1>12
     DEF Next, Desktop, Stream, Read

\* Every variable has its type, and the client's mouse coordinates are those of
\* its frame buffer, whatever the geometries and however they follow each other.
THEOREM TypeCorrect == Spec => []TypeOK
<1>1. TypeInv => TypeOK
  BY DEF TypeInv
<1> QED
  BY <1>1, TypeInitial, TypeInductive, PTL DEF Spec

-----------------------------------------------------------------------------
(* What the viewer shows.                                                  *)

\* After the last message to come the buffer is what the streamer mirrors, or
\* the frame it is sending.
Mirrored(h) ==
    /\ open /\ sending = <<>> /\ sentKeyframe => h[Len(link) + Len(sending)] = prev
    /\ sending # <<>> => h[Len(link) + Len(sending)] = frame

Ahead == viewing => \E h : Foretold(h, pending, link, sending, captured) /\ Mirrored(h)

FrontTrue == frontSeq > 0 => front = captured[frontSeq]

PictureInv == TypeInv /\ FrontTrue /\ Ahead

LEMMA PictureInitial ==
    ASSUME Init
    PROVE  PictureInv
<1>1. TypeInv
  BY TypeInitial
<1>2. FrontTrue
  BY DEF Init, FrontTrue
<1>3. Ahead
  <2> DEFINE h == [i \in Nat |-> <<>>]
  <2>1. h \in [Nat -> Buffers] /\ h[0] = <<>>
    BY EmptyBuffer
  <2>2. link = <<>> /\ sending = <<>> /\ pending = <<>> /\ sentKeyframe = FALSE
    BY DEF Init
  <2>3. Len(link) + Len(sending) = 0 /\ \A i \in 1 .. 0 : FALSE
    BY <2>2
  <2> HIDE DEF h
  <2>4. Foretold(h, pending, link, sending, captured)
    BY <2>1, <2>2, <2>3 DEF Foretold
  <2>5. Mirrored(h)
    BY <2>2 DEF Mirrored
  <2> QED
    BY <2>4, <2>5 DEF Ahead
<1> QED
  BY <1>1, <1>2, <1>3 DEF PictureInv

\* A step that touches neither end of the connection.
LEMMA PictureElsewhere ==
    ASSUME FrontTrue, Ahead,
           UNCHANGED <<open, prev, frame, sending, captured, link, viewer>>,
           sentKeyframe' => sentKeyframe
    PROVE  FrontTrue' /\ Ahead'
<1>1. FrontTrue'
  BY DEF FrontTrue, viewer
<1>2. Ahead'
  BY DEF Ahead, Mirrored, viewer
<1> QED
  BY <1>1, <1>2

LEMMA PictureAcquire ==
    ASSUME PictureInv, Acquire
    PROVE  FrontTrue' /\ Ahead'
<1> USE DEF viewer
<1> DEFINE l == link
           frames == captured
           f == screen
<1>1. /\ f \in Pictures /\ frames \in Seq(Pictures) /\ l \in Seq(Messages(Len(frames)))
      /\ sending = <<>> /\ open /\ frontSeq \in 0 .. Len(frames)
      /\ UNCHANGED <<open, prev, link, viewing, pending, front, frontSeq, sentKeyframe>>
      /\ frame' = f
  BY DEF PictureInv, TypeInv, TypeOK, Sent, Acquire, Idle
<1>2. CASE UNCHANGED <<sending, captured>>
  <2>1. FrontTrue'
    BY <1>1, <1>2 DEF PictureInv, FrontTrue
  <2>2. Ahead'
    BY <1>1, <1>2 DEF PictureInv, Ahead, Mirrored
  <2> QED
    BY <2>1, <2>2
<1>3. ASSUME NEW s \in Seq(Messages(Len(frames) + 1)), s # <<>>,
             sending' = s, captured' = Append(captured, screen),
             viewing => \E h, g : /\ Foretold(h, pending, link, <<>>, captured)
                                 /\ Foretold(g, h[Len(link)], <<>>, s, Append(captured, screen))
                                 /\ g[Len(s)] = screen
      PROVE  FrontTrue' /\ Ahead'
  <2>1. FrontTrue'
    <3>1. \A q \in 1 .. Len(frames) : Append(frames, f)[q] = frames[q]
      BY <1>1
    <3>2. frontSeq > 0 => frontSeq \in 1 .. Len(frames)
      BY <1>1
    <3> QED
      BY <1>1, <1>3, <3>1, <3>2 DEF PictureInv, FrontTrue
  <2>2. ASSUME viewing
        PROVE  \E k : /\ Foretold(k, pending, link, s, Append(captured, screen))
                      /\ k[Len(link) + Len(s)] = screen
    <3>1. PICK h, g : /\ Foretold(h, pending, link, <<>>, captured)
                      /\ Foretold(g, h[Len(link)], <<>>, s, Append(captured, screen))
                      /\ g[Len(s)] = screen
      BY <1>3, <2>2
    <3>2. PICK b, m, c, p : b = pending /\ m = link /\ c = captured /\ p = screen
      OBVIOUS
    <3>3. /\ c \in Seq(Pictures) /\ p \in Pictures /\ m \in Seq(Messages(Len(c)))
          /\ s \in Seq(Messages(Len(c) + 1))
          /\ Foretold(h, b, m, <<>>, c) /\ Foretold(g, h[Len(m)], <<>>, s, Append(c, p))
      BY <1>1, <1>3, <3>1, <3>2
    <3>4. \E k : Foretold(k, b, m, s, Append(c, p)) /\ k[Len(m) + Len(s)] = g[Len(s)]
      BY <3>3, SendMore
    <3> QED
      BY <3>1, <3>2, <3>4
  <2>3. Ahead'
    <3>1. SUFFICES ASSUME viewing'
                   PROVE  \E h : Foretold(h, pending, link, sending, captured)' /\ Mirrored(h)'
      BY DEF Ahead
    <3>2. PICK k : /\ Foretold(k, pending, link, s, Append(captured, screen))
                   /\ k[Len(link) + Len(s)] = screen
      BY <1>1, <2>2, <3>1
    <3>3. Foretold(k, pending, link, sending, captured)'
      BY <1>1, <1>3, <3>2 DEF Foretold, Coming, After
    <3>4. Mirrored(k)'
      BY <1>1, <1>3, <3>2 DEF Mirrored
    <3> QED
      BY <3>3, <3>4
  <2> QED
    BY <2>1, <2>3
<1>4. ASSUME viewing
      PROVE  \E h : /\ Foretold(h, pending, link, <<>>, captured) /\ h[Len(link)] \in Buffers
                    /\ sentKeyframe => h[Len(link)] = prev
  <2>1. PICK h : Foretold(h, pending, link, sending, captured) /\ Mirrored(h)
    BY <1>4 DEF PictureInv, Ahead
  <2>2. Len(link) \in Nat /\ Len(sending) = 0 /\ Len(link) + Len(sending) = Len(link)
    BY <1>1
  <2> QED
    BY <1>1, <2>1, <2>2 DEF Foretold, Mirrored
<1>5. CASE NeedsKeyframe
  <2>1. sending' = KeyframeOf(screen) /\ captured' = Append(captured, screen)
    BY <1>5 DEF Acquire
  <2>2. KeyframeOf(screen) \in Seq(Messages(Len(frames) + 1)) /\ KeyframeOf(screen) # <<>>
    BY <1>1, KeyframeType
  <2>3. ASSUME viewing
        PROVE  \E h, g : /\ Foretold(h, pending, link, <<>>, captured)
                         /\ Foretold(g, h[Len(link)], <<>>, KeyframeOf(screen), Append(captured, screen))
                         /\ g[Len(KeyframeOf(screen))] = screen
    <3>1. PICK h : Foretold(h, pending, link, <<>>, captured) /\ h[Len(link)] \in Buffers
      BY <1>4, <2>3
    <3>2. \E g : /\ Foretold(g, h[Len(link)], <<>>, KeyframeOf(screen), Append(captured, screen))
                 /\ g[Len(KeyframeOf(screen))] = screen
      BY <1>1, <3>1, KeyframeTells
    <3> QED
      BY <3>1, <3>2
  <2> QED
    BY <1>3, <2>1, <2>2, <2>3
<1>6. CASE ~NeedsKeyframe /\ Changed(prev, screen) # {}
  <2>1. PICK order \in Ascending(Changed(prev, screen)) : sending' = DeltaOf(screen, order)
    BY <1>6 DEF Acquire
  <2>2. captured' = Append(captured, screen)
    BY <1>6 DEF Acquire
  <2>3. prev \in Pictures /\ Len(prev) = Len(screen) /\ sentKeyframe
    BY <1>6, DeltaAgainst DEF PictureInv
  <2>4. DeltaOf(screen, order) \in Seq(Messages(Len(frames) + 1)) /\ DeltaOf(screen, order) # <<>>
    BY <1>1, <2>1, <2>3, DeltaType
  <2>5. ASSUME viewing
        PROVE  \E h, g : /\ Foretold(h, pending, link, <<>>, captured)
                         /\ Foretold(g, h[Len(link)], <<>>, DeltaOf(screen, order), Append(captured, screen))
                         /\ g[Len(DeltaOf(screen, order))] = screen
    <3>1. PICK h : Foretold(h, pending, link, <<>>, captured) /\ h[Len(link)] = prev
      BY <1>4, <2>3, <2>5
    <3>2. \E g : /\ Foretold(g, prev, <<>>, DeltaOf(screen, order), Append(captured, screen))
                 /\ g[Len(DeltaOf(screen, order))] = screen
      BY <1>1, <2>1, <2>3, DeltaTells
    <3> QED
      BY <3>1, <3>2
  <2> QED
    BY <1>3, <2>1, <2>2, <2>4, <2>5
<1> QED
  BY <1>2, <1>5, <1>6 DEF Acquire

LEMMA PictureSend ==
    ASSUME PictureInv, Send
    PROVE  FrontTrue' /\ Ahead'
<1> USE DEF viewer
<1>1. /\ link \in Seq(Messages(Len(captured))) /\ sending \in Seq(Messages(Len(captured)))
      /\ sending # <<>> /\ sending[Len(sending)].op = "FrameEnd"
      /\ link' = Append(link, Head(sending)) /\ sending' = Tail(sending)
      /\ prev' = Mirror(Head(sending))
      /\ UNCHANGED <<open, frame, captured, viewing, pending, front, frontSeq>>
      /\ Len(captured) \in Nat
  BY DEF PictureInv, TypeInv, TypeOK, Sent, Send
<1>2. FrontTrue'
  BY <1>1 DEF PictureInv, FrontTrue
<1>3. Tail(sending) = <<>> => Head(sending).op = "FrameEnd"
  <2>1. Tail(sending) = <<>> => Len(sending) = 1
    <3>1. Len(Tail(sending)) = Len(sending) - 1 /\ Len(sending) \in Nat /\ Len(<<>>) = 0
      BY <1>1
    <3>2. Tail(sending) = <<>> => Len(Tail(sending)) = Len(<<>>)
      BY Zenon
    <3> QED
      BY <3>1, <3>2
  <2>2. Head(sending) = sending[1]
    BY <1>1
  <2> QED
    BY <1>1, <2>1, <2>2
<1>4. Ahead'
  <2> SUFFICES ASSUME viewing'
               PROVE  \E h : Foretold(h, pending, link, sending, captured)' /\ Mirrored(h)'
    BY DEF Ahead
  <2>1. PICK h : Foretold(h, pending, link, sending, captured) /\ Mirrored(h)
    BY <1>1 DEF PictureInv, Ahead
  <2>2. PICK b, l, s, c : b = pending /\ l = link /\ s = sending /\ c = captured
    OBVIOUS
  <2>3. /\ l \in Seq(Messages(Len(c))) /\ s \in Seq(Messages(Len(c))) /\ s # <<>>
        /\ Len(c) \in Nat /\ Foretold(h, b, l, s, c)
    BY <1>1, <2>1, <2>2
  <2>4. /\ Foretold(h, b, Append(l, Head(s)), Tail(s), c)
        /\ Len(Append(l, Head(s))) + Len(Tail(s)) = Len(l) + Len(s)
    BY <2>3, SendOn
  <2>5. /\ b = pending' /\ Append(l, Head(s)) = link' /\ Tail(s) = sending' /\ c = captured'
    BY <1>1, <2>2
  <2>6. Foretold(h, pending, link, sending, captured)'
    BY <2>4, <2>5 DEF Foretold, Coming, After
  <2>7. h[Len(link') + Len(sending')] = frame
    BY <1>1, <2>1, <2>2, <2>4, <2>5 DEF Mirrored
  <2>8. sending' = <<>> => prev' = frame
    BY <1>1, <1>3 DEF Mirror
  <2>9. Mirrored(h)'
    BY <1>1, <2>7, <2>8 DEF Mirrored
  <2> QED
    BY <2>6, <2>9
<1> QED
  BY <1>2, <1>4

\* The session ends: what is on its way arrives all the same.
LEMMA PictureOver ==
    ASSUME PictureInv, SessionEnds \/ SendFails
    PROVE  FrontTrue' /\ Ahead'
<1> USE DEF viewer
<1>1. /\ link \in Seq(Messages(Len(captured))) /\ sending \in Seq(Messages(Len(captured)))
      /\ open' = FALSE /\ sending' = <<>> /\ Len(captured) \in Nat
      /\ UNCHANGED <<link, captured, viewing, pending, front, frontSeq>>
  BY DEF PictureInv, TypeInv, TypeOK, Sent, SessionEnds, SendFails
<1>2. FrontTrue'
  BY <1>1 DEF PictureInv, FrontTrue
<1>3. Ahead'
  <2> SUFFICES ASSUME viewing'
               PROVE  \E h : Foretold(h, pending, link, sending, captured)' /\ Mirrored(h)'
    BY DEF Ahead
  <2>1. PICK h : Foretold(h, pending, link, sending, captured)
    BY <1>1 DEF PictureInv, Ahead
  <2>2. PICK b, l, s, c : b = pending /\ l = link /\ s = sending /\ c = captured
    OBVIOUS
  <2>3. /\ l \in Seq(Messages(Len(c))) /\ s \in Seq(Messages(Len(c)))
        /\ Len(c) \in Nat /\ Foretold(h, b, l, s, c)
    BY <1>1, <2>1, <2>2
  <2>4. Foretold(h, b, l, <<>>, c)
    BY <2>3, SendNoMore
  <2>5. b = pending' /\ l = link' /\ <<>> = sending' /\ c = captured'
    BY <1>1, <2>2
  <2>6. Foretold(h, pending, link, sending, captured)'
    BY <2>4, <2>5 DEF Foretold, Coming, After
  <2>7. Mirrored(h)'
    BY <1>1 DEF Mirrored
  <2> QED
    BY <2>6, <2>7
<1> QED
  BY <1>2, <1>3

\* The reader thread takes in a message, and shows the buffer at a FrameEnd.
LEMMA PictureRead ==
    ASSUME PictureInv, ReadInfo \/ ReadTile \/ ReadEnd
    PROVE  FrontTrue' /\ Ahead'
<1> USE DEF viewer, streamer
<1>1. /\ link \in Seq(Messages(Len(captured))) /\ link # <<>>
      /\ sending \in Seq(Messages(Len(captured)))
      /\ viewing /\ link' = Tail(link) /\ Len(captured) \in Nat
      /\ UNCHANGED <<open, prev, frame, sending, captured, sentKeyframe, viewing>>
  BY DEF PictureInv, TypeInv, TypeOK, Sent, ReadInfo, ReadTile, ReadEnd, Reads
<1>2. pending' = After(pending, Head(link))
  <2>1. CASE ReadInfo
    BY <2>1 DEF ReadInfo, Reads, After
  <2>2. CASE ReadTile
    BY <2>2 DEF ReadTile, Reads, After
  <2>3. CASE ReadEnd
    BY <2>3 DEF ReadEnd, Reads, After
  <2> QED
    BY <2>1, <2>2, <2>3
<1>3. PICK h : Foretold(h, pending, link, sending, captured) /\ Mirrored(h)
  BY <1>1 DEF PictureInv, Ahead
<1>4. PICK b, l, s, c : b = pending /\ l = link /\ s = sending /\ c = captured
  OBVIOUS
<1>5. /\ l \in Seq(Messages(Len(c))) /\ l # <<>> /\ s \in Seq(Messages(Len(c)))
      /\ Len(c) \in Nat /\ Foretold(h, b, l, s, c)
  BY <1>1, <1>3, <1>4
<1>6. PICK g : /\ Foretold(g, After(b, Head(l)), Tail(l), s, c)
               /\ g[Len(Tail(l)) + Len(s)] = h[Len(l) + Len(s)]
               /\ Head(l).op = "FrameEnd" => After(b, Head(l)) = c[Head(l).seq]
  BY <1>5, ReadOn
<1>7. /\ After(b, Head(l)) = pending' /\ Tail(l) = link' /\ s = sending' /\ c = captured'
  BY <1>1, <1>2, <1>4
<1>8. Ahead'
  <2>1. Foretold(g, pending, link, sending, captured)'
    BY <1>6, <1>7 DEF Foretold, Coming, After
  <2>2. g[Len(link') + Len(sending')] = h[Len(link) + Len(sending)]
    BY <1>4, <1>6, <1>7
  <2>3. Mirrored(g)'
    BY <1>1, <1>3, <2>2 DEF Mirrored
  <2> QED
    BY <2>1, <2>3 DEF Ahead
<1>9. FrontTrue'
  <2>1. CASE ReadInfo \/ ReadTile
    BY <1>1, <2>1 DEF PictureInv, FrontTrue, ReadInfo, ReadTile
  <2>2. CASE ReadEnd
    <3>1. front' = pending /\ frontSeq' = Head(link).seq /\ Head(link).op = "FrameEnd" /\ pending' = pending
      BY <2>2 DEF ReadEnd, Reads
    <3>2. pending = captured[Head(link).seq]
      BY <1>2, <1>4, <1>6, <3>1
    <3> QED
      BY <1>1, <3>1, <3>2 DEF FrontTrue
  <2> QED
    BY <2>1, <2>2
<1> QED
  BY <1>8, <1>9

LEMMA PictureInductive ==
    ASSUME PictureInv, [Next]_vars
    PROVE  PictureInv'
<1> USE DEF desktop, streamer, viewer
<1>1. TypeInv'
  BY TypeInductive DEF PictureInv
<1>2. FrontTrue' /\ Ahead'
  <2>1. FrontTrue /\ Ahead
    BY DEF PictureInv
  <2>2. CASE Desktop \/ AcquireLost \/ UNCHANGED vars
    <3>1. /\ UNCHANGED <<open, prev, frame, sending, captured, link, viewer>>
          /\ sentKeyframe' => sentKeyframe
      <4>1. CASE Desktop \/ UNCHANGED vars
        <5>1. CASE UNCHANGED vars
          BY <5>1 DEF vars
        <5>2. CASE Draw
          BY <5>2 DEF Draw
        <5>3. CASE Lose
          BY <5>3 DEF Lose
        <5>4. CASE Unlock
          BY <5>4 DEF Unlock
        <5> QED
          BY <4>1, <5>1, <5>2, <5>3, <5>4 DEF Desktop
      <4>2. CASE AcquireLost
        BY <4>2 DEF AcquireLost
      <4> QED
        BY <2>2, <4>1, <4>2
    <3> QED
      BY <2>1, <3>1, PictureElsewhere
  <2>3. CASE Acquire
    BY <2>3, PictureAcquire
  <2>4. CASE Send
    BY <2>4, PictureSend
  <2>5. CASE SessionEnds \/ SendFails
    BY <2>5, PictureOver
  <2>6. CASE ReadInfo \/ ReadTile \/ ReadEnd
    BY <2>6, PictureRead
  <2>7. CASE ReadClosed \/ CloseViewer
    <3>1. viewing' = FALSE /\ UNCHANGED <<front, frontSeq, captured>>
      BY <2>7 DEF ReadClosed, CloseViewer
    <3> QED
      BY <2>1, <3>1 DEF FrontTrue, Ahead
  <2> QED
    BY <2>2, <2>3, <2>4, <2>5, <2>6, <2>7 DEF Next, Stream, Read
<1> QED
  BY <1>1, <1>2 DEF PictureInv

\* The viewer shows one captured frame, the one its number names, and never a
\* mixture of two; and when all is quiet the streamer's prevFrame_ is the very
\* buffer the next delta will be applied to: for every geometry, every number of
\* colours and every length of the connection.
THEOREM PicturesCorrect == Spec => []PicturesTrue
<1>1. PictureInv => PicturesTrue
  <2> SUFFICES ASSUME PictureInv
               PROVE  PicturesTrue
    OBVIOUS
  <2>1. frontSeq > 0 => front = captured[frontSeq]
    BY DEF PictureInv, FrontTrue
  <2>2. ASSUME open, viewing, sentKeyframe, sending = <<>>, link = <<>>
        PROVE  pending = prev
    <3>1. PICK h : Foretold(h, pending, link, sending, captured) /\ Mirrored(h)
      BY <2>2 DEF PictureInv, Ahead
    <3>2. h[0] = pending
      BY <3>1 DEF Foretold
    <3>3. Len(link) + Len(sending) = 0
      BY <2>2
    <3> QED
      BY <2>2, <3>1, <3>2, <3>3 DEF Mirrored
  <2> QED
    BY <2>1, <2>2 DEF PicturesTrue
<1> QED
  BY <1>1, PictureInitial, PictureInductive, PTL DEF Spec

-----------------------------------------------------------------------------
(* The viewer's two threads.                                               *)

\* Without the user, only the reader thread tells the window to close, and by
\* then it has left the connection's object for good.
Quiet ==
    ~acted => /\ ~damaged /\ ui # "writing"
              /\ closing \/ ui # "loop" => reader = "done"

ThreadInv == ViewerTypeOK /\ Quiet

LEMMA ThreadInitial ==
    ViewerInit => ThreadInv
<1> SUFFICES ASSUME ViewerInit PROVE ThreadInv
  OBVIOUS
<1>1. inbox \in 0 .. MaxMessages
  BY ViewerAssumption DEF ViewerInit, ViewerAssumption
<1> QED
  BY <1>1 DEF ThreadInv, Quiet, ViewerInit, ViewerTypeOK

LEMMA ThreadInductive ==
    ThreadInv /\ [ViewerNext]_viewerVars => ThreadInv'
<1> SUFFICES ASSUME ThreadInv, [ViewerNext]_viewerVars PROVE ThreadInv'
  OBVIOUS
<1> USE DEF ThreadInv, Quiet, ViewerTypeOK, UIStep, ReaderStep,
            EnterBeside, UIInSSL, ReaderInSSL
<1>1. CASE UI
  <2>1. CASE Written
    BY <2>1 DEF Written
  <2>2. CASE LoopEnds
    BY <2>2 DEF LoopEnds
  <2>3. CASE StopReader
    BY <2>3 DEF StopReader
  <2>4. CASE Shutdown
    BY <2>4 DEF Shutdown
  <2>5. CASE Free
    BY <2>5 DEF Free
  <2>6. CASE CloseSocket
    BY <2>6 DEF CloseSocket
  <2>7. CASE Join
    BY <2>7 DEF Join
  <2> QED
    BY <1>1, <2>1, <2>2, <2>3, <2>4, <2>5, <2>6, <2>7 DEF UI
<1>2. CASE Reader
  <2>1. CASE TestTrue
    BY <2>1 DEF TestTrue
  <2>2. CASE TestFalse
    BY <2>2 DEF TestFalse
  <2>3. CASE CallRead
    BY <2>3 DEF CallRead
  <2>4. CASE ReadFrame
    BY <2>4, ViewerAssumption DEF ReadFrame, ViewerAssumption
  <2>5. CASE ReadBye
    BY <2>5, ViewerAssumption DEF ReadBye, ViewerAssumption
  <2>6. CASE ReadFails
    BY <2>6 DEF ReadFails
  <2>7. CASE ReaderEnds
    BY <2>7 DEF ReaderEnds
  <2> QED
    BY <1>2, <2>1, <2>2, <2>3, <2>4, <2>5, <2>6, <2>7 DEF Reader
<1>3. CASE Environment
  <2>1. CASE Input
    BY <2>1 DEF Input
  <2>2. CASE UserClose
    BY <2>2 DEF UserClose
  <2>3. CASE ServerSends
    BY <2>3, ViewerAssumption DEF ServerSends, ViewerAssumption
  <2>4. CASE ServerCloses
    BY <2>4 DEF ServerCloses
  <2>5. CASE ReadDamaged
    BY <2>5 DEF ReadDamaged
  <2>7. CASE DecodeThrows
    BY <2>7, ViewerAssumption DEF DecodeThrows, ViewerAssumption
  <2>6. CASE Crash
    BY <2>6 DEF Crash
  <2> QED
    BY <1>3, <2>1, <2>2, <2>3, <2>4, <2>5, <2>6, <2>7 DEF Environment
<1>4. CASE UNCHANGED viewerVars
  BY <1>4 DEF viewerVars
<1> QED
  BY <1>1, <1>2, <1>3, <1>4 DEF ViewerNext

\* The connection's object and its socket go only in the three steps of close(),
\* one after the other, and only the UI thread takes them.
THEOREM ThreadsTypeCorrect ==
    ViewerSpec => []ViewerTypeOK
<1>1. ThreadInv => ViewerTypeOK
  BY DEF ThreadInv
<1> QED
  BY <1>1, ThreadInitial, ThreadInductive, PTL DEF ViewerSpec

\* As long as the user neither sends input nor closes the window, the two
\* threads of runViewer() are never inside the SSL object at a time.
THEOREM UndamagedWithoutUser ==
    ViewerSpec => []DamageNeedsUser
<1>1. ThreadInv => DamageNeedsUser
  BY DEF ThreadInv, Quiet, DamageNeedsUser
<1> QED
  BY <1>1, ThreadInitial, ThreadInductive, PTL DEF ViewerSpec
=============================================================================
