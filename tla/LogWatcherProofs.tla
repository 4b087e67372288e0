-------------------------- MODULE LogWatcherProofs ---------------------------
(***************************************************************************)
(* Proofs about the watchers of a log monitor: the order in which lines    *)
(* are delivered, for any entries, failures, rotations and channel         *)
(* capacity.                                                               *)
(***************************************************************************)
EXTENDS LogStateProofs

-----------------------------------------------------------------------------
(* The invariant of the watchers *)

\* The order of pieces: by line, and the first part of a line before its end.
Before(x, y) == x.line < y.line \/ (x.line = y.line /\ ~x.end /\ y.end)
Sorted(pieces) == \A i, j \in 1 .. Len(pieces) : i < j => Before(pieces[i], pieces[j])

\* The pieces of the file are in this order, within a generation and from one to the next;
\* what follows the first part of a line is its end, and only the last line may lack it.
SortedWithin == \A g \in 1 .. Len(file.pieces) : Sorted(file.pieces[g])
SortedAcross ==
    \A g, h \in 1 .. Len(file.pieces) : g < h =>
        \A k \in 1 .. Len(file.pieces[g]), l \in 1 .. Len(file.pieces[h]) :
            Before(file.pieces[g][k], file.pieces[h][l])
EndsFollow ==
    \A g \in 1 .. Len(file.pieces) : \A k \in 1 .. Len(file.pieces[g]) :
        ~file.pieces[g][k].end =>
            IF k = Len(file.pieces[g]) THEN g = file.now /\ file.pieces[g][k].line = Len(written)
            ELSE file.pieces[g][k + 1].end /\ file.pieces[g][k + 1].line = file.pieces[g][k].line
FileOrder == SortedWithin /\ SortedAcross /\ EndsFollow

\* Tail opens a generation that it has not read, unless the file is rotated hastily.
Tailed ==
    /\ Len(file.pieces) = 1 => ~file.hasty
    /\ ~file.hasty =>
          /\ file.events <= 1
          /\ file.events = 1 \/ tail.at \in {"start", "open"} => file.now = NoFile \/ tail.open < file.now
          /\ tail.at \in {"start", "open", "opened"} => file.events = 0

\* The pieces Tail has read.
ReadAt(g, k) == g < tail.open \/ (g = tail.open /\ k <= tail.pos)
PiecesRead ==
    {x \in AnyPiece : \E g \in 1 .. Len(file.pieces) : \E k \in 1 .. Len(file.pieces[g]) :
                         ReadAt(g, k) /\ x = file.pieces[g][k]}

\* What the watcher holds was read by Tail and is in order.
ReadInOrder ==
    ~file.hasty =>
        /\ \A i \in 1 .. Len(reading.pieces) : reading.pieces[i] \in PiecesRead
        /\ \A i \in 1 .. Len(reading.buffer) : reading.buffer[i] \in PiecesRead
        /\ Sorted(reading.pieces) /\ Sorted(reading.buffer)
        /\ \A i \in 1 .. Len(reading.buffer), j \in 1 .. Len(reading.pieces) :
              Before(reading.buffer[i], reading.pieces[j])

\* Of a file that was never rotated the watcher holds the pieces before the position of
\* Tail, the first part of a line in buffer.
Consumed == tail.pos - Len(reading.pieces)
ReadWhole ==
    Len(file.pieces) = 1 /\ tail.open = 1 =>
        /\ Consumed >= 0
        /\ \A i \in 1 .. Len(reading.pieces) : reading.pieces[i] = file.pieces[1][Consumed + i]
        /\ reading.buffer = IF Consumed = 0 \/ file.pieces[1][Consumed].end THEN <<>>
                            ELSE <<file.pieces[1][Consumed]>>

\* The lines delivered are in order; a file's have ended with a piece that Tail has read, and
\* come before what the watcher holds.
InOrder == \A i, j \in 1 .. Len(Delivered) : i < j => Delivered[i].time < Delivered[j].time
DeliveredInOrder ==
    /\ kind # "filelog" => InOrder /\ \A i \in 1 .. Len(Delivered) : Delivered[i].time < next
    /\ kind = "filelog" /\ ~file.hasty =>
          /\ InOrder
          /\ \A i \in 1 .. Len(Delivered) :
                /\ \E x \in PiecesRead : x.end /\ Delivered[i].time <= x.line
                /\ \A j \in 1 .. Len(reading.pieces) : Delivered[i].time < reading.pieces[j].line
                /\ \A j \in 1 .. Len(reading.buffer) : Delivered[i].time < reading.buffer[j].line

\* They are lines as they were written.
DeliveredWhole ==
    Len(file.pieces) = 1 =>
        \A i \in 1 .. Len(Delivered) :
            Delivered[i].time \in 1 .. Len(written) /\ Delivered[i] = Log(Delivered[i].time)

WatcherInv ==
    /\ WatcherTypes /\ FileTypes /\ LinesBounded /\ FileOnly
    /\ FileOrder /\ Tailed /\ ReadInOrder /\ ReadWhole
    /\ DeliveredInOrder /\ DeliveredWhole

-----------------------------------------------------------------------------
(* Steps of the watchers *)

\* A piece that is written comes after all that are in the file.
LEMMA WrittenLast ==
    ASSUME WatcherTypes, FileTypes, LinesBounded, FileOrder, NEW p \in AnyPiece, Wrote(p),
           NEW g \in 1 .. Len(file.pieces), NEW k \in 1 .. Len(file.pieces[g])
    PROVE  Before(file.pieces[g][k], p)
<1> DEFINE N == file.now
           m == Len(file.pieces[N])
           y == file.pieces[g][k]
           x == file.pieces[N][m]
<1>1. N = Len(file.pieces) /\ N \in 1 .. Len(file.pieces) /\ Len(written) \in Nat /\ N \in Nat
  BY Fields, LenProperties DEF Wrote, FileTypes, WatcherTypes
<1>2. y.line \in Nat /\ y.line <= Len(written) /\ p.line \in Nat
  BY Generations DEF LinesBounded, Bounded, AnyPiece
<1>3. CASE Unfinished(file.pieces[N]) /\ p.line = Len(written) /\ p.end
  <2>1. file.pieces[N] \in Seq(AnyPiece) /\ file.pieces[N] # <<>> /\ ~x.end
    BY <1>1, <1>3, Generations DEF Unfinished
  <2>2. m \in 1 .. m
    BY <2>1, EmptySeq
  <2>3. x.line = Len(written)
    BY <1>1, <2>1, <2>2, Zenon DEF FileOrder, EndsFollow
  <2>4. CASE g = N /\ k = m
    BY <1>3, <2>1, <2>3, <2>4 DEF Before
  <2>5. CASE g = N /\ k # m
    <3>1. k < m
      BY <2>5, <2>2
    <3>2. Before(y, x)
      BY <1>1, <2>2, <2>5, <3>1 DEF FileOrder, SortedWithin, Sorted
    <3> QED BY <1>3, <2>1, <2>3, <3>2 DEF Before
  <2>6. CASE g # N
    <3>1. g < N
      BY <1>1, <2>6
    <3>2. Before(y, x)
      BY <1>1, <2>2, <3>1 DEF FileOrder, SortedAcross
    <3> QED BY <1>3, <2>1, <2>3, <3>2 DEF Before
  <2> QED BY <2>4, <2>5, <2>6
<1>4. CASE p.line = Len(written) + 1
  <2> HIDE DEF y
  <2>1. y.line < p.line
    BY <1>1, <1>2, <1>4
  <2> QED BY <2>1 DEF Before, y
<1> QED BY <1>3, <1>4 DEF Wrote

\* Steps keep the pieces of the file in order.
LEMMA FileOrderStep ==
    ASSUME WatcherTypes, FileTypes, LinesBounded, FileOnly, FileOrder, MonitorSide \/ WatcherSide
    PROVE  FileOrder'
<1>0. /\ Len(file.pieces) \in Nat /\ Len(file.pieces) >= 1 /\ file.now \in Nat
      /\ \A g \in 1 .. Len(file.pieces) : Len(file.pieces[g]) \in Nat
  BY Fields, Generations DEF FileTypes
<1>1. ASSUME UNCHANGED <<written, file>> PROVE FileOrder'
  BY <1>1 DEF FileOrder, SortedWithin, SortedAcross, Sorted, EndsFollow
<1>2. CASE FilesKept /\ kind # "filelog"
  <2>1. file'.pieces = <<<<>>>>
    BY <1>2 DEF FilesKept, FileOnly
  <2>2. \A g \in 1 .. Len(file'.pieces) : Len(file'.pieces[g]) = 0
    BY <2>1
  <2> QED BY <2>2 DEF FileOrder, SortedWithin, SortedAcross, Sorted, EndsFollow
<1>3. CASE (FilesKept /\ UNCHANGED written) \/ Exit \/ FileFill \/ FileLine
  BY <1>1, <1>3, ExitEffect, FileFillFilled, FileLineTookPiece DEF FilesKept, Filled, TookPiece
<1>4. CASE TailLoop
  <2>1. UNCHANGED written /\ file'.pieces = file.pieces /\ file'.now = file.now
    BY <1>4, TailEffect
  <2>2. SortedWithin' /\ SortedAcross'
    BY <2>1 DEF FileOrder, SortedWithin, SortedAcross, Sorted
  <2>3. EndsFollow'
    BY <2>1 DEF FileOrder, EndsFollow
  <2> QED BY <2>2, <2>3 DEF FileOrder
<1>5. CASE WriteFile
  <2> DEFINE N == file.now
             m == Len(file.pieces[N])
  <2>1. PICK p \in AnyPiece : Wrote(p)
    BY <1>5, WriteFileWrote
  <2>2. N = Len(file.pieces) /\ N \in 1 .. Len(file.pieces) /\ Len(file'.pieces) = Len(file.pieces)
        /\ m \in Nat
    BY <1>0, <2>1 DEF Wrote
  <2>3. ASSUME NEW g \in 1 .. Len(file.pieces), NEW k \in 1 .. Len(file'.pieces[g])
        PROVE  \/ k \in 1 .. Len(file.pieces[g]) /\ file'.pieces[g][k] = file.pieces[g][k]
               \/ g = N /\ k = m + 1 /\ file'.pieces[g][k] = p
    <3>1. CASE g # N
      BY <2>1, <3>1 DEF Wrote
    <3>2. CASE g = N
      <4>1. k \in 1 .. m \/ k = m + 1
        BY <2>1, <2>2, <3>2 DEF Wrote
      <4> QED BY <2>1, <3>2, <4>1 DEF Wrote
    <3> QED BY <3>1, <3>2
  <2>4. \A g \in 1 .. Len(file.pieces) : \A k \in 1 .. Len(file.pieces[g]) : Before(file.pieces[g][k], p)
    BY <2>1, WrittenLast
  <2>5. SortedWithin'
    <3> SUFFICES ASSUME NEW g \in 1 .. Len(file.pieces), NEW i \in 1 .. Len(file'.pieces[g]),
                        NEW j \in 1 .. Len(file'.pieces[g]), i < j
                 PROVE  Before(file'.pieces[g][i], file'.pieces[g][j])
      BY <2>2 DEF SortedWithin, Sorted
    <3>1. CASE j \in 1 .. Len(file.pieces[g]) /\ file'.pieces[g][j] = file.pieces[g][j]
      <4>1. i # m + 1 \/ g # N
        BY <2>2, <3>1
      <4>2. i \in 1 .. Len(file.pieces[g]) /\ file'.pieces[g][i] = file.pieces[g][i]
        BY <2>3, <4>1
      <4> QED BY <3>1, <4>2 DEF FileOrder, SortedWithin, Sorted
    <3>2. CASE g = N /\ j = m + 1 /\ file'.pieces[g][j] = p
      <4>1. i # m + 1
        BY <2>2, <3>2
      <4>2. i \in 1 .. Len(file.pieces[g]) /\ file'.pieces[g][i] = file.pieces[g][i]
        BY <2>3, <4>1
      <4> QED BY <2>4, <3>2, <4>2
    <3> QED BY <2>3, <3>1, <3>2
  <2>6. SortedAcross'
    <3> SUFFICES ASSUME NEW g \in 1 .. Len(file.pieces), NEW h \in 1 .. Len(file.pieces), g < h,
                        NEW k \in 1 .. Len(file'.pieces[g]), NEW l \in 1 .. Len(file'.pieces[h])
                 PROVE  Before(file'.pieces[g][k], file'.pieces[h][l])
      BY <2>2 DEF SortedAcross
    <3>1. g # N
      BY <2>2
    <3>2. k \in 1 .. Len(file.pieces[g]) /\ file'.pieces[g][k] = file.pieces[g][k]
      BY <2>3, <3>1
    <3>3. CASE l \in 1 .. Len(file.pieces[h]) /\ file'.pieces[h][l] = file.pieces[h][l]
      BY <3>2, <3>3 DEF FileOrder, SortedAcross
    <3>4. CASE file'.pieces[h][l] = p
      BY <2>4, <3>2, <3>4
    <3> QED BY <2>3, <3>3, <3>4
  <2>7. EndsFollow'
    <3> SUFFICES ASSUME NEW g \in 1 .. Len(file.pieces), NEW k \in 1 .. Len(file'.pieces[g]),
                        ~file'.pieces[g][k].end
                 PROVE  IF k = Len(file'.pieces[g])
                        THEN g = file.now /\ file'.pieces[g][k].line = Len(written')
                        ELSE /\ file'.pieces[g][k + 1].end
                             /\ file'.pieces[g][k + 1].line = file'.pieces[g][k].line
      <4>1. file'.now = file.now
        BY <2>1 DEF Wrote
      <4> QED BY <2>2, <4>1 DEF EndsFollow
    <3>1. CASE k \in 1 .. Len(file.pieces[g]) /\ file'.pieces[g][k] = file.pieces[g][k]
      <4>1. CASE k = Len(file.pieces[g])
        <5>1. g = N /\ file.pieces[g][k].line = Len(written) /\ k = m
          BY <3>1, <4>1 DEF FileOrder, EndsFollow
        <5>2. file.pieces[N] \in Seq(AnyPiece) /\ Len(<<>>) = 0
          BY <2>2, Generations
        <5>3. Unfinished(file.pieces[N])
          BY <2>2, <3>1, <5>1, <5>2 DEF Unfinished
        <5>4. p.end /\ p.line = Len(written) /\ file'.pieces[N][m + 1] = p /\ Len(file'.pieces[N]) = m + 1
          BY <2>1, <5>3 DEF Wrote
        <5> QED BY <2>2, <3>1, <5>1, <5>4
      <4>2. CASE k # Len(file.pieces[g])
        <5>1. k + 1 \in 1 .. Len(file.pieces[g])
          BY <1>0, <3>1, <4>2
        <5>2. file'.pieces[g][k + 1] = file.pieces[g][k + 1]
          BY <2>1, <5>1, Zenon DEF Wrote
        <5>3. k # Len(file'.pieces[g])
          BY <1>0, <2>1, <5>1, SMTT(30) DEF Wrote
        <5> QED BY <3>1, <4>2, <5>2, <5>3 DEF FileOrder, EndsFollow
      <4> QED BY <4>1, <4>2
    <3>2. CASE g = N /\ k = m + 1 /\ file'.pieces[g][k] = p
      <4>1. Len(file'.pieces[g]) = m + 1 /\ p.line = Len(written')
        BY <2>1, <3>2 DEF Wrote
      <4> QED BY <3>2, <4>1
    <3> QED BY <2>3, <3>1, <3>2
  <2> QED BY <2>5, <2>6, <2>7 DEF FileOrder
<1>6. CASE Rotate
  <2>1. /\ UNCHANGED written /\ file'.pieces = file.pieces /\ ~Unfinished(file.pieces[file.now])
        /\ file.now = Len(file.pieces)
    BY <1>6, RotateEffect
  <2>2. ASSUME NEW g \in 1 .. Len(file.pieces), NEW k \in 1 .. Len(file.pieces[g]),
               ~file.pieces[g][k].end
        PROVE  k # Len(file.pieces[g])
    <3> SUFFICES ASSUME k = Len(file.pieces[g]) PROVE FALSE
      OBVIOUS
    <3>1. g = file.now
      BY <2>2 DEF FileOrder, EndsFollow
    <3>2. file.pieces[g] # <<>>
      BY <1>0
    <3> QED BY <2>1, <2>2, <3>1, <3>2 DEF Unfinished
  <2>3. SortedWithin' /\ SortedAcross'
    BY <2>1 DEF FileOrder, SortedWithin, SortedAcross, Sorted
  <2>4. EndsFollow'
    BY <2>1, <2>2 DEF FileOrder, EndsFollow
  <2> QED BY <2>3, <2>4 DEF FileOrder
<1>7. CASE CreateFile
  <2>1. /\ UNCHANGED written /\ Len(file'.pieces) = Len(file.pieces) + 1 /\ file.now = NoFile
        /\ \A g \in 1 .. Len(file.pieces) : file'.pieces[g] = file.pieces[g]
        /\ Len(file'.pieces[Len(file.pieces) + 1]) = 0
    BY <1>7, CreateEffect
  <2>2. ASSUME NEW g \in 1 .. Len(file'.pieces), NEW k \in 1 .. Len(file'.pieces[g])
        PROVE  g \in 1 .. Len(file.pieces) /\ file'.pieces[g] = file.pieces[g]
    BY <1>0, <2>1
  <2>3. SortedWithin'
    <3> SUFFICES ASSUME NEW g \in 1 .. Len(file'.pieces), NEW i \in 1 .. Len(file'.pieces[g]),
                        NEW j \in 1 .. Len(file'.pieces[g]), i < j
                 PROVE  Before(file'.pieces[g][i], file'.pieces[g][j])
      BY DEF SortedWithin, Sorted
    <3> QED BY <2>2 DEF FileOrder, SortedWithin, Sorted
  <2>4. SortedAcross'
    BY <2>2, Zenon DEF FileOrder, SortedAcross
  <2>5. EndsFollow'
    <3> SUFFICES ASSUME NEW g \in 1 .. Len(file'.pieces), NEW k \in 1 .. Len(file'.pieces[g]),
                        ~file'.pieces[g][k].end
                 PROVE  /\ k # Len(file'.pieces[g])
                        /\ file'.pieces[g][k + 1].end
                        /\ file'.pieces[g][k + 1].line = file'.pieces[g][k].line
      BY DEF EndsFollow
    <3>1. g \in 1 .. Len(file.pieces) /\ file'.pieces[g] = file.pieces[g] /\ g # file.now
      BY <2>1, <2>2 DEF NoFile
    <3> QED BY <3>1 DEF FileOrder, EndsFollow
  <2> QED BY <2>3, <2>4, <2>5 DEF FileOrder
<1> QED BY <1>2, <1>3, <1>4, <1>5, <1>6, <1>7, FileSteps DEF FileStep, FilesKept

\* Steps keep Tail from opening a file that it has read.
LEMMA TailedStep ==
    ASSUME WatcherTypes, FileTypes, LinesBounded, Tailed, MonitorSide \/ WatcherSide
    PROVE  Tailed'
<1>0. /\ tail.open \in 0 .. Len(file.pieces) /\ Len(file.pieces) \in Nat /\ Len(file.pieces) >= 1
      /\ file.events \in Nat /\ file.now \in Nat
  BY Fields DEF FileTypes
<1>1. ASSUME tail'.at = tail.at, tail'.open = tail.open, UNCHANGED file
      PROVE  Tailed'
  BY <1>1 DEF Tailed
<1>2. CASE FilesKept \/ Exit \/ FileFill \/ FileLine
  BY <1>1, <1>2, ExitEffect, FileFillFilled, FileLineTookPiece, Zenon DEF FilesKept, Filled, TookPiece
<1>3. CASE TailLoop
  <2>1. CASE tail.at = "open" /\ tail'.at = "opened" /\ UNCHANGED file
    BY <2>1 DEF Tailed
  <2>2. CASE /\ tail'.open = tail.open /\ UNCHANGED file
             /\ \/ tail'.at \in {"watching", "ended"}
                \/ tail.at = "start" /\ tail'.at = "open"
    BY <1>0, <2>2 DEF Tailed
  <2>3. CASE /\ tail'.open = tail.open /\ tail.at = "watching" /\ tail'.at = "start"
             /\ file'.events \in {0, 1} /\ file'.events < file.events
    <3>1. file'.pieces = file.pieces /\ file'.now = file.now /\ file'.hasty = file.hasty
      BY <1>3, TailEffect
    <3>2. ~file.hasty => file.events = 1 /\ file'.events = 0
      BY <1>0, <2>3 DEF Tailed
    <3> QED BY <2>3, <3>1, <3>2 DEF Tailed
  <2> QED BY <1>3, <2>1, <2>2, <2>3, TailEffect, Zenon
<1>4. CASE WriteFile
  <2>1. PICK p \in AnyPiece : Wrote(p)
    BY <1>4, WriteFileWrote
  <2> QED BY <2>1 DEF Wrote, Tailed
<1>5. CASE Rotate
  <2>1. CASE Len(file.pieces) = 1 /\ file.events > 0
    <3>1. file.now = 1 /\ ~file.hasty
      BY <1>5, <2>1, RotateEffect DEF Tailed
    <3>2. file.events = 1 /\ tail.open # 0
      BY <1>0, <2>1, <3>1 DEF Tailed, FileTypes
    <3> QED BY <1>0, <3>1, <3>2 DEF Tailed, NoFile
  <2>2. CASE ~(Len(file.pieces) = 1 /\ file.events > 0)
    <3>1. Len(file'.pieces) = 1 => ~file'.hasty
      BY <1>5, <2>2, RotateEffect, Zenon DEF Tailed
    <3>a. ~file'.hasty => ~file.hasty /\ ~(file.events > 0)
      BY <1>5, RotateEffect, Zenon
    <3>2. ~file'.hasty => ~file.hasty /\ file.events = 0
      BY <1>0, <3>a
    <3>3. UNCHANGED tail /\ file'.now = NoFile
          /\ file'.events = IF tail.at = "watching" THEN file.events + 1 ELSE file.events
      BY <1>5, RotateEffect
    <3>4. ~file'.hasty => file'.events <= 1 /\ (tail'.at # "watching" => file'.events = 0)
      BY <3>2, <3>3
    <3> QED BY <3>1, <3>3, <3>4 DEF Tailed
  <2> QED BY <2>1, <2>2
<1>6. CASE CreateFile
  <2>1. /\ Len(file'.pieces) # 1 /\ tail.open < file'.now /\ UNCHANGED tail
        /\ file'.events = file.events /\ file'.hasty = file.hasty
    BY <1>0, <1>6, CreateEffect
  <2> QED BY <2>1 DEF Tailed
<1> QED BY <1>2, <1>3, <1>4, <1>5, <1>6, FileSteps DEF FileStep

\* A file that was rotated hastily stays so.
LEMMA HastyStays ==
    ASSUME WatcherTypes, FileTypes, LinesBounded, MonitorSide \/ WatcherSide, ~file'.hasty
    PROVE  ~file.hasty
<1>1. CASE FilesKept \/ Exit \/ FileFill \/ FileLine \/ TailLoop
  BY <1>1, ExitEffect, FileFillFilled, FileLineTookPiece, TailEffect, SMTT(30) DEF FilesKept, Filled, TookPiece
<1>2. CASE WriteFile
  BY <1>2, WriteFileWrote DEF Wrote
<1>3. CASE Rotate \/ CreateFile
  BY <1>3, RotateEffect, CreateEffect, Zenon
<1> QED BY <1>1, <1>2, <1>3, FileSteps DEF FileStep

\* What Tail has read it has read.
LEMMA PiecesReadKept ==
    ASSUME WatcherTypes, FileTypes, LinesBounded, Tailed, MonitorSide \/ WatcherSide, ~file'.hasty,
           NEW x \in PiecesRead
    PROVE  x \in PiecesRead'
<1>0. /\ tail.open \in 0 .. Len(file.pieces) /\ tail.pos \in Nat
      /\ Len(file.pieces) \in Nat /\ file.now \in Nat /\ ~file.hasty
  BY Fields, HastyStays
<1>1. PICK g \in 1 .. Len(file.pieces) : \E k \in 1 .. Len(file.pieces[g]) :
          ReadAt(g, k) /\ x = file.pieces[g][k]
  BY DEF PiecesRead
<1>2. PICK k \in 1 .. Len(file.pieces[g]) : ReadAt(g, k) /\ x = file.pieces[g][k]
  BY <1>1
<1>3. Len(file.pieces[g]) \in Nat
  BY Generations
<1> SUFFICES /\ g \in 1 .. Len(file'.pieces) /\ k \in 1 .. Len(file'.pieces[g])
             /\ file'.pieces[g][k] = file.pieces[g][k]
             /\ g < tail'.open \/ (g = tail'.open /\ k <= tail'.pos)
  BY <1>2, Zenon DEF PiecesRead, ReadAt
<1>4. CASE FilesKept \/ Exit \/ FileLine
  BY <1>2, <1>4, ExitEffect, FileLineTookPiece DEF FilesKept, TookPiece, ReadAt
<1>5. CASE FileFill
  <2>1. Filled
    BY <1>5, FileFillFilled
  <2>2. g = tail.open => k <= tail'.pos
    BY <2>1 DEF Filled
  <2> QED BY <1>2, <2>1, <2>2 DEF Filled, ReadAt
<1>6. CASE TailLoop
  <2>1. CASE tail.at = "open" /\ tail'.open = file.now /\ file.now # NoFile
    <3>1. tail.open < file.now
      BY <1>0, <2>1 DEF Tailed
    <3>2. g < tail'.open
      BY <1>0, <1>2, <2>1, <3>1 DEF ReadAt
    <3> QED BY <1>6, <3>2, TailEffect
  <2>2. CASE tail'.open = tail.open /\ tail'.pos = tail.pos
    BY <1>2, <1>6, <2>2, TailEffect DEF ReadAt
  <2> QED BY <1>6, <2>1, <2>2, TailEffect
<1>7. CASE WriteFile
  <2>1. PICK p \in AnyPiece : Wrote(p)
    BY <1>7, WriteFileWrote
  <2>2. k \in 1 .. Len(file'.pieces[g]) /\ file'.pieces[g][k] = file.pieces[g][k]
    BY <1>3, <2>1, SMTT(30) DEF Wrote
  <2> QED BY <1>2, <2>1, <2>2, Zenon DEF Wrote, ReadAt
<1>8. CASE Rotate
  BY <1>2, <1>8, RotateEffect DEF ReadAt
<1>9. CASE CreateFile
  <2>1. g \in 1 .. Len(file'.pieces) /\ file'.pieces[g] = file.pieces[g]
    BY <1>0, <1>9, CreateEffect
  <2> QED BY <1>2, <1>9, <2>1, CreateEffect DEF ReadAt
<1> QED BY <1>4, <1>5, <1>6, <1>7, <1>8, <1>9, FileSteps, Zenon DEF FileStep

\* What Tail reads next comes after what it has read.
LEMMA ReadBefore ==
    ASSUME FileTypes, FileOrder, NEW x \in PiecesRead, tail.open \in 1 .. Len(file.pieces),
           NEW k \in 1 .. Len(file.pieces[tail.open]), k > tail.pos
    PROVE  Before(x, file.pieces[tail.open][k])
<1>0. tail.pos \in Nat /\ Len(file.pieces[tail.open]) \in Nat
  BY Fields, Generations
<1>1. PICK g \in 1 .. Len(file.pieces) : \E j \in 1 .. Len(file.pieces[g]) :
          ReadAt(g, j) /\ x = file.pieces[g][j]
  BY DEF PiecesRead
<1>2. PICK j \in 1 .. Len(file.pieces[g]) : ReadAt(g, j) /\ x = file.pieces[g][j]
  BY <1>1
<1>3. CASE g < tail.open
  BY <1>2, <1>3 DEF FileOrder, SortedAcross
<1>4. CASE g = tail.open /\ j <= tail.pos
  <2>1. j < k
    BY <1>0, <1>4
  <2> QED BY <1>2, <1>4, <2>1 DEF FileOrder, SortedWithin, Sorted
<1> QED BY <1>2, <1>3, <1>4 DEF ReadAt

\* Steps keep what the watcher holds in order.
LEMMA ReadInOrderStep ==
    ASSUME WatcherTypes, FileTypes, LinesBounded, FileOrder, Tailed, ReadInOrder,
           MonitorSide \/ WatcherSide
    PROVE  ReadInOrder'
<1> SUFFICES ASSUME ~file'.hasty
             PROVE  /\ \A i \in 1 .. Len(reading'.pieces) : reading'.pieces[i] \in PiecesRead'
                    /\ \A i \in 1 .. Len(reading'.buffer) : reading'.buffer[i] \in PiecesRead'
                    /\ Sorted(reading'.pieces) /\ Sorted(reading'.buffer)
                    /\ \A i \in 1 .. Len(reading'.buffer), j \in 1 .. Len(reading'.pieces) :
                          Before(reading'.buffer[i], reading'.pieces[j])
  BY DEF ReadInOrder, Sorted
<1>0. /\ \A i \in 1 .. Len(reading.pieces) : reading.pieces[i] \in PiecesRead
      /\ \A i \in 1 .. Len(reading.buffer) : reading.buffer[i] \in PiecesRead
      /\ Sorted(reading.pieces) /\ Sorted(reading.buffer)
      /\ \A i \in 1 .. Len(reading.buffer), j \in 1 .. Len(reading.pieces) :
            Before(reading.buffer[i], reading.pieces[j])
  BY HastyStays DEF ReadInOrder
<1>1. \A x \in PiecesRead : x \in PiecesRead'
  BY PiecesReadKept
<1>2. /\ tail.open \in 0 .. Len(file.pieces) /\ tail.pos \in Nat /\ Len(file.pieces) \in Nat
      /\ Len(reading.pieces) \in Nat /\ Len(reading.buffer) \in Nat
  BY Fields
<1>3. CASE UNCHANGED reading
  BY <1>0, <1>1, <1>3
<1>4. CASE FileFill
  <2> DEFINE g == tail.open
  <2>1. Filled
    BY <1>4, FileFillFilled
  <2>2. g \in 1 .. Len(file.pieces) /\ Len(file.pieces[g]) \in Nat /\ g \in Nat
    BY <1>2, <2>1, Generations DEF Filled
  <2>3. ASSUME NEW i \in 1 .. Len(reading'.pieces)
        PROVE  /\ tail.pos + i \in 1 .. Len(file.pieces[g]) /\ tail.pos + i > tail.pos /\ i \in Nat
               /\ reading'.pieces[i] = file.pieces[g][tail.pos + i]
    <3>1. Len(reading'.pieces) \in Nat
      BY <1>2, <2>1, <2>2 DEF Filled
    <3>2. i \in Nat /\ i >= 1
      BY <3>1
    <3>3. tail.pos + i \in 1 .. Len(file.pieces[g]) /\ reading'.pieces[i] = file.pieces[g][tail.pos + i]
      BY <2>1, Zenon DEF Filled
    <3>4. tail.pos + i > tail.pos
      BY <1>2, <3>2
    <3> QED BY <3>2, <3>3, <3>4, Zenon
  <2>4. ASSUME NEW i \in 1 .. Len(reading'.pieces)
        PROVE  reading'.pieces[i] \in PiecesRead'
    <3>1. /\ g \in 1 .. Len(file'.pieces) /\ tail.pos + i \in 1 .. Len(file'.pieces[g])
          /\ reading'.pieces[i] = file'.pieces[g][tail.pos + i]
          /\ g = tail'.open /\ tail.pos + i <= tail'.pos
      BY <2>1, <2>2, <2>3 DEF Filled
    <3>2. reading'.pieces[i] \in AnyPiece
      BY <2>2, <2>3, Generations
    <3> QED BY <3>1, <3>2 DEF PiecesRead, ReadAt
  <2>5. Sorted(reading'.pieces)
    <3> SUFFICES ASSUME NEW i \in 1 .. Len(reading'.pieces), NEW j \in 1 .. Len(reading'.pieces), i < j
                 PROVE  Before(reading'.pieces[i], reading'.pieces[j])
      BY DEF Sorted
    <3>1. tail.pos + i < tail.pos + j
      BY <1>2, <2>3
    <3> QED BY <2>2, <2>3, <3>1, Zenon DEF FileOrder, SortedWithin, Sorted
  <2>6. ASSUME NEW i \in 1 .. Len(reading.buffer), NEW j \in 1 .. Len(reading'.pieces)
        PROVE  Before(reading.buffer[i], reading'.pieces[j])
    <3>1. reading.buffer[i] \in PiecesRead
      BY <1>0
    <3> QED BY <2>2, <2>3, <3>1, ReadBefore, Zenon
  <2>7. reading'.buffer = reading.buffer
    BY <2>1 DEF Filled
  <2> QED BY <1>0, <1>1, <2>4, <2>5, <2>6, <2>7
<1>5. CASE FileLine
  <2>1. TookPiece
    BY <1>5, FileLineTookPiece
  <2>2. /\ 1 \in 1 .. Len(reading.pieces)
        /\ \A i \in 1 .. Len(reading'.pieces) : /\ i + 1 \in 1 .. Len(reading.pieces) /\ 1 < i + 1
                                                /\ reading'.pieces[i] = reading.pieces[i + 1]
    <3>1. Len(reading'.pieces) \in Nat
      BY <1>2, <2>1 DEF TookPiece
    <3>2. \A i \in 1 .. Len(reading'.pieces) : 1 < i + 1
      BY <3>1
    <3> QED BY <2>1, <3>2 DEF TookPiece
  <2>3. Sorted(reading'.pieces)
    <3> SUFFICES ASSUME NEW i \in 1 .. Len(reading'.pieces), NEW j \in 1 .. Len(reading'.pieces), i < j
                 PROVE  Before(reading'.pieces[i], reading'.pieces[j])
      BY DEF Sorted
    <3>1. i + 1 < j + 1
      BY <2>2
    <3> QED BY <1>0, <2>2, <3>1 DEF Sorted
  <2>4. CASE reading'.buffer = <<>>
    <3>1. Len(reading'.buffer) = 0
      BY <2>4
    <3>2. Sorted(reading'.buffer)
      BY <3>1 DEF Sorted
    <3> QED BY <1>0, <1>1, <2>2, <2>3, <3>1, <3>2
  <2>5. CASE reading'.buffer = Joining
    <3> DEFINE m == Len(reading.buffer)
    <3>1. ASSUME NEW i \in 1 .. Len(Joining)
          PROVE  \/ i \in 1 .. m /\ Joining[i] = reading.buffer[i]
                 \/ i = m + 1 /\ Joining[i] = reading.pieces[1]
      <4>1. i \in 1 .. m \/ i = m + 1
        BY <1>2, <2>1 DEF TookPiece
      <4> QED BY <2>1, <4>1 DEF TookPiece
    <3>2. \A i \in 1 .. Len(Joining) : Joining[i] \in PiecesRead
      BY <1>0, <2>2, <3>1
    <3>3. Sorted(Joining)
      <4> SUFFICES ASSUME NEW i \in 1 .. Len(Joining), NEW j \in 1 .. Len(Joining), i < j
                   PROVE  Before(Joining[i], Joining[j])
        BY DEF Sorted
      <4>1. i \in 1 .. m /\ Joining[i] = reading.buffer[i]
        BY <1>2, <3>1
      <4> QED BY <1>0, <2>2, <3>1, <4>1 DEF Sorted
    <3>4. ASSUME NEW i \in 1 .. Len(Joining), NEW j \in 1 .. Len(reading'.pieces)
          PROVE  Before(Joining[i], reading'.pieces[j])
      <4>1. Before(reading.pieces[1], reading.pieces[j + 1])
        BY <1>0, <2>2 DEF Sorted
      <4> QED BY <1>0, <2>2, <3>1, <4>1
    <3> QED BY <1>0, <1>1, <2>2, <2>3, <2>5, <3>2, <3>3, <3>4, Zenon
  <2> QED BY <2>1, <2>4, <2>5 DEF TookPiece
<1>6. CASE FilesKept \/ Exit \/ TailLoop
  BY <1>3, <1>6, ExitEffect, TailEffect, SMTT(30) DEF FilesKept
<1>7. CASE WriteFile
  BY <1>3, <1>7, WriteFileWrote DEF Wrote
<1>8. CASE Rotate \/ CreateFile
  BY <1>3, <1>8, RotateEffect, CreateEffect
<1> QED BY <1>4, <1>5, <1>6, <1>7, <1>8, FileSteps, Zenon DEF FileStep

\* Steps keep the watcher to what Tail has read of a file that was not rotated.
LEMMA ReadWholeStep ==
    ASSUME WatcherTypes, FileTypes, LinesBounded, FileOrder, Tailed, ReadWhole,
           MonitorSide \/ WatcherSide
    PROVE  ReadWhole'
<1>0. /\ tail.open \in 0 .. Len(file.pieces) /\ tail.pos \in Nat /\ Len(file.pieces) \in Nat
      /\ Len(reading.pieces) \in Nat /\ Len(reading.buffer) \in Nat /\ Len(file.pieces) >= 1
  BY Fields DEF FileTypes
<1>1. ASSUME Len(file.pieces) = 1, tail.open = 1
      PROVE  /\ Consumed \in Nat /\ Consumed + Len(reading.pieces) = tail.pos
             /\ tail.pos <= Len(file.pieces[1]) /\ Len(file.pieces[1]) \in Nat
             /\ \A i \in 1 .. Len(reading.pieces) : reading.pieces[i] = file.pieces[1][Consumed + i]
             /\ reading.buffer = IF Consumed = 0 \/ file.pieces[1][Consumed].end THEN <<>>
                                 ELSE <<file.pieces[1][Consumed]>>
  <2>1. tail.pos <= Len(file.pieces[1]) /\ Len(file.pieces[1]) \in Nat
    BY <1>0, <1>1, Generations DEF FileTypes
  <2>2. Consumed \in Nat /\ Consumed + Len(reading.pieces) = tail.pos
    BY <1>0, <1>1 DEF ReadWhole, Consumed
  <2> QED BY <1>1, <2>1, <2>2 DEF ReadWhole
<1>2. ASSUME tail'.open = tail.open, tail'.pos = tail.pos, file'.pieces = file.pieces, UNCHANGED reading
      PROVE  ReadWhole'
  BY <1>2 DEF ReadWhole, Consumed
<1>3. CASE FilesKept \/ Exit
  BY <1>2, <1>3, ExitEffect DEF FilesKept
<1>4. CASE FileFill
  <2>1. Filled
    BY <1>4, FileFillFilled
  <2> SUFFICES ASSUME Len(file.pieces) = 1, tail.open = 1 PROVE ReadWhole'
    BY <2>1 DEF Filled, ReadWhole
  <2>2. Len(reading.pieces) = 0
    BY <2>1 DEF Filled
  <2>3. Consumed = tail.pos /\ tail.pos \in Nat
    BY <1>0, <2>2 DEF Consumed
  <2>4. Consumed' = tail.pos
    BY <1>0, <1>1, <2>1 DEF Filled, Consumed
  <2>5. /\ file'.pieces = file.pieces /\ reading'.buffer = reading.buffer
        /\ \A i \in 1 .. Len(reading'.pieces) : reading'.pieces[i] = file.pieces[1][tail.pos + i]
    BY <2>1 DEF Filled
  <2>6. reading.buffer = IF tail.pos = 0 \/ file.pieces[1][tail.pos].end THEN <<>>
                         ELSE <<file.pieces[1][tail.pos]>>
    BY <1>1, <2>3, SMTT(30)
  <2> HIDE DEF Consumed
  <2> QED BY <2>3, <2>4, <2>5, <2>6 DEF ReadWhole
<1>5. CASE FileLine
  <2>1. TookPiece
    BY <1>5, FileLineTookPiece
  <2> SUFFICES ASSUME Len(file.pieces) = 1, tail.open = 1 PROVE ReadWhole'
    BY <2>1, SMTT(30) DEF TookPiece, ReadWhole
  <2> DEFINE c == Consumed
             x == reading.pieces[1]
  <2>2. c \in Nat /\ c + 1 <= Len(file.pieces[1]) /\ x = file.pieces[1][c + 1]
        /\ Len(file.pieces[1]) \in Nat
    BY <1>0, <1>1, <2>1, SMTT(30) DEF TookPiece
  <2>3. Consumed' = c + 1
    BY <1>0, <1>1, <2>1 DEF TookPiece, Consumed
  <2>4. file'.pieces = file.pieces
    BY <2>1 DEF TookPiece
  <2>5. ASSUME NEW i \in 1 .. Len(reading'.pieces)
        PROVE  reading'.pieces[i] = file.pieces[1][c + 1 + i]
    <3>1. i + 1 \in 1 .. Len(reading.pieces) /\ reading'.pieces[i] = reading.pieces[i + 1]
      BY <2>1 DEF TookPiece
    <3>2. reading'.pieces[i] = file.pieces[1][c + (i + 1)]
      BY <1>1, <3>1
    <3>3. Len(reading'.pieces) \in Nat
      BY <1>0, <2>1 DEF TookPiece
    <3>4. c + (i + 1) = c + 1 + i
      BY <2>2, <3>3
    <3> QED BY <3>2, <3>4
  <2>6. reading'.buffer = IF c + 1 = 0 \/ file.pieces[1][c + 1].end THEN <<>> ELSE <<file.pieces[1][c + 1]>>
    <3>1. CASE x.end
      BY <2>1, <2>2, <3>1 DEF TookPiece
    <3>2. CASE ~x.end
      <4>1. c = 0 \/ file.pieces[1][c].end
        <5> SUFFICES ASSUME c # 0, ~file.pieces[1][c].end PROVE FALSE
          OBVIOUS
        <5>1. c \in 1 .. Len(file.pieces[1]) /\ c # Len(file.pieces[1]) /\ 1 \in 1 .. Len(file.pieces)
          BY <2>2
        <5>2. file.pieces[1][c + 1].end
          BY <5>1 DEF FileOrder, EndsFollow
        <5> QED BY <2>2, <3>2, <5>2
      <4>2. reading.buffer = <<>>
        BY <1>1, <4>1
      <4>3. Joining = <<x>>
        BY <4>2 DEF Joining
      <4> QED BY <2>1, <2>2, <3>2, <4>3 DEF TookPiece
    <3> QED BY <3>1, <3>2
  <2> HIDE DEF c
  <2> QED BY <2>2, <2>3, <2>4, <2>5, <2>6, SMTT(30) DEF ReadWhole
<1>6. CASE TailLoop
  <2>1. CASE tail.at = "open" /\ tail'.open = file.now /\ file.now # NoFile /\ tail'.pos = 0
    <3> SUFFICES ASSUME Len(file'.pieces) = 1, tail'.open = 1 PROVE ReadWhole'
      BY DEF ReadWhole
    <3>1. file'.pieces = file.pieces /\ UNCHANGED reading
      BY <1>6, TailEffect
    <3>2. tail.open = 0
      BY <1>0, <2>1, <3>1 DEF Tailed
    <3>3. reading.pieces = <<>> /\ reading.buffer = <<>>
      BY <3>2 DEF FileTypes
    <3>4. reading'.pieces = <<>>
      BY <3>1, <3>3
    <3>5. Len(reading'.pieces) = 0
      BY <3>4
    <3>6. Consumed' = 0
      BY <2>1, <3>5 DEF Consumed
    <3> HIDE DEF Consumed
    <3> QED BY <3>1, <3>3, <3>5, <3>6 DEF ReadWhole
  <2>2. CASE tail'.open = tail.open /\ tail'.pos = tail.pos
    BY <1>2, <1>6, <2>2, TailEffect, SMTT(30)
  <2> QED BY <1>6, <2>1, <2>2, TailEffect
<1>7. CASE WriteFile
  <2>1. PICK p \in AnyPiece : Wrote(p)
    BY <1>7, WriteFileWrote, SMTT(30)
  <2> SUFFICES ASSUME Len(file.pieces) = 1, tail.open = 1 PROVE ReadWhole'
    BY <2>1, SMTT(30) DEF Wrote, ReadWhole
  <2>2. \A k \in 1 .. Len(file.pieces[1]) : file'.pieces[1][k] = file.pieces[1][k]
    BY <2>1 DEF Wrote
  <2>3. UNCHANGED reading /\ Consumed' = Consumed
    BY <2>1 DEF Wrote, Consumed
  <2>4. ASSUME NEW i \in 1 .. Len(reading.pieces)
        PROVE  file'.pieces[1][Consumed + i] = file.pieces[1][Consumed + i]
    <3>1. Consumed + i \in 1 .. Len(file.pieces[1])
      BY <1>0, <1>1
    <3> QED BY <2>2, <3>1
  <2>5. Consumed # 0 => file'.pieces[1][Consumed] = file.pieces[1][Consumed]
    <3>1. Consumed # 0 => Consumed \in 1 .. Len(file.pieces[1])
      BY <1>0, <1>1
    <3> QED BY <2>2, <3>1
  <2> HIDE DEF Consumed
  <2> QED BY <1>1, <2>3, <2>4, <2>5 DEF ReadWhole
<1>8. CASE Rotate
  BY <1>2, <1>8, RotateEffect
<1>9. CASE CreateFile
  <2>1. Len(file'.pieces) # 1
    BY <1>0, <1>9, CreateEffect
  <2> QED BY <2>1 DEF ReadWhole
<1> QED BY <1>3, <1>4, <1>5, <1>6, <1>7, <1>8, <1>9, FileSteps, SMTT(30) DEF FileStep

-----------------------------------------------------------------------------
(* The lines delivered *)

\* Three sequences in one, by place.
Joins(all, s, t, u) ==
    /\ Len(s) \in Nat /\ Len(t) \in Nat /\ Len(u) \in Nat /\ Len(all) = Len(s) + Len(t) + Len(u)
    /\ \A i \in 1 .. Len(s) : all[i] = s[i]
    /\ \A i \in 1 .. Len(t) : all[Len(s) + i] = t[i]
    /\ \A i \in 1 .. Len(u) : all[Len(s) + Len(t) + i] = u[i]

LEMMA ThreeParts ==
    ASSUME NEW S, NEW s \in Seq(S), NEW t \in Seq(S), NEW u \in Seq(S)
    PROVE  s \o t \o u \in Seq(S) /\ Joins(s \o t \o u, s, t, u)
<1> DEFINE r == Len(s)
           c == Len(t)
           h == Len(u)
           st == s \o t
           all == st \o u
<1>1. r \in Nat /\ c \in Nat /\ h \in Nat
  BY LenProperties
<1>2. /\ st \in Seq(S) /\ Len(st) = r + c
      /\ \A i \in 1 .. r + c : st[i] = IF i <= r THEN s[i] ELSE t[i - r]
  BY ConcatProperties
<1>3. /\ all \in Seq(S) /\ Len(all) = r + c + h
      /\ \A i \in 1 .. r + c + h : all[i] = IF i <= r + c THEN st[i] ELSE u[i - (r + c)]
  BY <1>2, ConcatProperties
<1> HIDE DEF r, c, h, st, all
<1>4. \A i \in 1 .. r : all[i] = s[i]
  BY <1>1, <1>2, <1>3
<1>5. ASSUME NEW i \in 1 .. c PROVE all[r + i] = t[i]
  <2> DEFINE k == r + i
  <2>1. k \in 1 .. r + c /\ ~(k <= r) /\ k - r = i /\ k \in 1 .. r + c + h /\ k <= r + c
    BY <1>1
  <2> HIDE DEF k
  <2>2. st[k] = t[i] /\ all[k] = st[k]
    BY <1>2, <1>3, <2>1
  <2> QED BY <2>2 DEF k
<1>6. ASSUME NEW i \in 1 .. h PROVE all[r + c + i] = u[i]
  <2> DEFINE k == r + c + i
  <2>1. k \in 1 .. r + c + h /\ ~(k <= r + c) /\ k - (r + c) = i
    BY <1>1
  <2> HIDE DEF k
  <2>2. all[k] = u[i]
    BY <1>3, <2>1
  <2> QED BY <2>2 DEF k
<1>7. all = s \o t \o u
  BY DEF all, st
<1>8. Joins(all, s, t, u)
  BY <1>1, <1>3, <1>4, <1>5, <1>6 DEF Joins, r, c, h
<1> QED BY <1>3, <1>7, <1>8

\* The lines delivered, by their place, before and after a step.
LEMMA DeliveredFacts ==
    ASSUME WatcherTypes, WatcherTypes'
    PROVE  /\ Delivered \in Seq(PushedLog) /\ Joins(Delivered, received, logCh, inHand)
           /\ Delivered' \in Seq(PushedLog) /\ Joins(Delivered', received', logCh', inHand')
<1>1. received \in Seq(PushedLog) /\ logCh \in Seq(PushedLog) /\ inHand \in Seq(PushedLog)
  BY DEF WatcherTypes
<1>2. received' \in Seq(PushedLog) /\ logCh' \in Seq(PushedLog) /\ inHand' \in Seq(PushedLog)
  BY DEF WatcherTypes
<1>3. Delivered \in Seq(PushedLog) /\ Joins(Delivered, received, logCh, inHand)
  BY <1>1, ThreeParts DEF Delivered
<1>4. Delivered' \in Seq(PushedLog) /\ Joins(Delivered', received', logCh', inHand')
  BY <1>2, ThreeParts DEF Delivered
<1> QED BY <1>3, <1>4

\* A step delivers one log more, which is then in hand, or none.
Fewer == Len(Delivered') <= Len(Delivered) /\ \A i \in 1 .. Len(Delivered') : Delivered'[i] = Delivered[i]
OneMore(log) ==
    /\ inHand' = <<log>> /\ Len(Delivered') = Len(Delivered) + 1
    /\ \A i \in 1 .. Len(Delivered) : Delivered'[i] = Delivered[i]
    /\ Delivered'[Len(Delivered) + 1] = log

\* A log that comes in hand is delivered.
LEMMA InHandDelivered ==
    ASSUME WatcherTypes, WatcherTypes', UNCHANGED <<received, logCh>>, inHand = <<>>,
           NEW log, inHand' = <<log>>
    PROVE  OneMore(log)
<1> DEFINE r == Len(received)
           c == Len(logCh)
<1>1. Len(inHand) = 0 /\ Len(inHand') = 1 /\ inHand'[1] = log /\ 1 \in 1 .. Len(inHand')
  OBVIOUS
<1>2. /\ r \in Nat /\ c \in Nat /\ Len(Delivered) = r + c
      /\ \A i \in 1 .. r : Delivered[i] = received[i]
      /\ \A i \in 1 .. c : Delivered[r + i] = logCh[i]
  BY <1>1, DeliveredFacts DEF Joins
<1>3. /\ Len(Delivered') = r + c + 1 /\ Delivered'[r + c + 1] = log
      /\ \A i \in 1 .. r : Delivered'[i] = received[i]
      /\ \A i \in 1 .. c : Delivered'[r + i] = logCh[i]
  <2>1. /\ Len(Delivered') = r + c + Len(inHand')
        /\ \A i \in 1 .. r : Delivered'[i] = received[i]
        /\ \A i \in 1 .. c : Delivered'[r + i] = logCh[i]
        /\ \A i \in 1 .. Len(inHand') : Delivered'[r + c + i] = inHand'[i]
    BY DeliveredFacts DEF Joins
  <2> QED BY <1>1, <2>1
<1> HIDE DEF r, c
<1>4. ASSUME NEW i \in 1 .. r + c PROVE Delivered'[i] = Delivered[i]
  <2>1. i \in 1 .. r \/ (i - r \in 1 .. c /\ r + (i - r) = i)
    BY <1>2
  <2> QED BY <1>2, <1>3, <2>1
<1> QED BY <1>2, <1>3, <1>4 DEF OneMore

\* A log that moves on is delivered still.
LEMMA MovesOn ==
    ASSUME WatcherTypes, WatcherTypes',
           \/ UNCHANGED <<received, logCh, inHand>>
           \/ UNCHANGED <<received, logCh>> /\ inHand' = <<>>
           \/ UNCHANGED received /\ Len(inHand) = 1 /\ logCh' = Append(logCh, inHand[1]) /\ inHand' = <<>>
           \/ /\ UNCHANGED inHand /\ logCh # <<>> /\ received' = Append(received, Head(logCh))
              /\ logCh' = Tail(logCh)
    PROVE  Fewer
<1> DEFINE r == Len(received)
           c == Len(logCh)
           h == Len(inHand)
<1>1. /\ r \in Nat /\ c \in Nat /\ h \in Nat /\ Len(Delivered) = r + c + h
      /\ \A i \in 1 .. r : Delivered[i] = received[i]
      /\ \A i \in 1 .. c : Delivered[r + i] = logCh[i]
      /\ \A i \in 1 .. h : Delivered[r + c + i] = inHand[i]
  BY DeliveredFacts DEF Joins
<1>2. /\ Len(received') \in Nat /\ Len(logCh') \in Nat /\ Len(inHand') \in Nat
      /\ Len(Delivered') = Len(received') + Len(logCh') + Len(inHand')
      /\ \A i \in 1 .. Len(received') : Delivered'[i] = received'[i]
      /\ \A i \in 1 .. Len(logCh') : Delivered'[Len(received') + i] = logCh'[i]
      /\ \A i \in 1 .. Len(inHand') : Delivered'[Len(received') + Len(logCh') + i] = inHand'[i]
  BY DeliveredFacts DEF Joins
<1>3. CASE UNCHANGED <<received, logCh, inHand>>
  <2>1. UNCHANGED Delivered
    BY <1>3 DEF Delivered
  <2> QED BY <1>1, <2>1 DEF Fewer
<1>4. CASE UNCHANGED <<received, logCh>> /\ inHand' = <<>>
  <2>1. Len(inHand') = 0 /\ Len(received') = r /\ Len(logCh') = c /\ UNCHANGED <<received, logCh>>
    BY <1>4
  <2> HIDE DEF r, c, h
  <2>2. Len(Delivered') = r + c /\ r + c <= r + c + h
    BY <1>1, <1>2, <2>1
  <2>3. ASSUME NEW i \in 1 .. r + c PROVE Delivered'[i] = Delivered[i]
    <3>1. i \in 1 .. r \/ (i - r \in 1 .. c /\ r + (i - r) = i)
      BY <1>1
    <3> QED BY <1>1, <1>2, <2>1, <3>1
  <2> QED BY <1>1, <2>2, <2>3 DEF Fewer
<1>5. CASE UNCHANGED received /\ Len(inHand) = 1 /\ logCh' = Append(logCh, inHand[1]) /\ inHand' = <<>>
  <2>1. inHand[1] \in PushedLog /\ 1 \in 1 .. h
    BY <1>5, ElementOfSeq DEF WatcherTypes
  <2>2. /\ Len(logCh') = c + 1 /\ logCh'[c + 1] = inHand[1] /\ \A i \in 1 .. c : logCh'[i] = logCh[i]
        /\ Len(inHand') = 0 /\ UNCHANGED received /\ Len(received') = r /\ h = 1
    BY <1>5, <2>1, AppendProperties, SMTT(30) DEF WatcherTypes
  <2> HIDE DEF r, c, h
  <2>3. Len(Delivered') = r + c + h /\ r + (c + 1) = r + c + 1
    BY <1>1, <1>2, <2>2
  <2>4. ASSUME NEW i \in 1 .. r + c + h PROVE Delivered'[i] = Delivered[i]
    <3>1. CASE i \in 1 .. r
      BY <1>1, <1>2, <2>2, <3>1, SMTT(30)
    <3>2. CASE i - r \in 1 .. c /\ r + (i - r) = i
      <4>1. i - r \in 1 .. c + 1
        BY <1>1, <3>2
      <4>2. Delivered'[i] = logCh'[i - r]
        BY <1>2, <2>2, <3>2, <4>1, SMTT(30)
      <4> QED BY <1>1, <2>2, <3>2, <4>2, SMTT(30)
    <3>3. CASE i = r + c + 1
      <4>1. c + 1 \in 1 .. c + 1
        BY <1>1
      <4>2. Delivered'[r + (c + 1)] = logCh'[c + 1]
        BY <1>2, <2>2, <4>1, SMTT(30)
      <4>3. Delivered[r + c + 1] = inHand[1]
        BY <1>1, <2>1
      <4> QED BY <2>2, <2>3, <3>3, <4>2, <4>3, SMTT(30)
    <3>4. i \in 1 .. r \/ (i - r \in 1 .. c /\ r + (i - r) = i) \/ i = r + c + 1
      BY <1>1, <2>2
    <3> QED BY <3>1, <3>2, <3>3, <3>4, SMTT(30)
  <2> QED BY <1>1, <2>3, <2>4 DEF Fewer
<1>6. CASE UNCHANGED inHand /\ logCh # <<>> /\ received' = Append(received, Head(logCh))
           /\ logCh' = Tail(logCh)
  <2>1. /\ Head(logCh) \in PushedLog /\ Len(logCh') = c - 1 /\ c >= 1 /\ Head(logCh) = logCh[1]
        /\ \A i \in 1 .. c - 1 : logCh'[i] = logCh[i + 1]
    <3>1. logCh \in Seq(PushedLog)
      BY DEF WatcherTypes
    <3>2. Len(logCh) \in Nat \ {0}
      BY <1>6, <3>1, EmptySeq
    <3> QED BY <1>6, <3>1, <3>2, HeadTailProperties
  <2>2. /\ Len(received') = r + 1 /\ received'[r + 1] = logCh[1]
        /\ \A i \in 1 .. r : received'[i] = received[i]
    <3> DEFINE log == Head(logCh)
    <3>1. received \in Seq(PushedLog) /\ log \in PushedLog /\ received' = Append(received, log)
      BY <1>6, <2>1, Zenon DEF WatcherTypes
    <3> HIDE DEF log
    <3>2. /\ Len(received') = r + 1 /\ received'[r + 1] = log
          /\ \A i \in 1 .. r : received'[i] = received[i]
      BY <3>1, AppendProperties
    <3> QED BY <2>1, <3>2 DEF log
  <2>3. UNCHANGED inHand /\ Len(inHand') = h
    BY <1>6
  <2> HIDE DEF r, c, h
  <2>4. Len(Delivered') = r + c + h /\ r + 1 + (c - 1) = r + c
    BY <1>1, <1>2, <2>1, <2>2, <2>3, SMTT(30)
  <2>5. ASSUME NEW i \in 1 .. r + c + h PROVE Delivered'[i] = Delivered[i]
    <3>1. CASE i \in 1 .. r
      <4>1. i \in 1 .. r + 1
        BY <1>1, <3>1
      <4> QED BY <1>1, <1>2, <2>2, <3>1, <4>1, SMTT(30)
    <3>2. CASE i = r + 1
      <4>1. r + 1 \in 1 .. r + 1 /\ 1 \in 1 .. c
        BY <1>1, <2>1
      <4> QED BY <1>1, <1>2, <2>2, <3>2, <4>1, SMTT(30)
    <3>3. CASE i - r - 1 \in 1 .. c - 1
      <4>1. i - r \in 1 .. c /\ r + (i - r) = i /\ r + 1 + (i - r - 1) = i /\ i - r - 1 + 1 = i - r
        BY <1>1, <3>3, SMTT(30)
      <4>2. Delivered'[i] = logCh'[i - r - 1]
        BY <1>2, <2>1, <2>2, <3>3, <4>1, SMTT(30)
      <4>3. logCh'[i - r - 1] = logCh[i - r]
        BY <2>1, <3>3, <4>1
      <4>4. Delivered[i] = logCh[i - r]
        BY <1>1, <4>1
      <4> QED BY <4>2, <4>3, <4>4
    <3>4. CASE i - (r + c) \in 1 .. h /\ r + c + (i - (r + c)) = i
      <4> DEFINE j == i - (r + c)
      <4>0. Len(received') + Len(logCh') = r + c /\ j \in 1 .. Len(inHand') /\ r + c + j = i
        BY <2>1, <2>2, <2>3, <2>4, <3>4, SMTT(30)
      <4> HIDE DEF j
      <4>1. Delivered'[i] = inHand'[j]
        BY <1>2, <4>0
      <4>2. Delivered[i] = inHand[j]
        BY <1>1, <2>3, <4>0, Zenon
      <4> QED BY <2>3, <4>1, <4>2
    <3>5. \/ i \in 1 .. r \/ i = r + 1 \/ i - r - 1 \in 1 .. c - 1
          \/ (i - (r + c) \in 1 .. h /\ r + c + (i - (r + c)) = i)
      BY <1>1, <2>1
    <3> QED BY <3>1, <3>2, <3>3, <3>4, <3>5, SMTT(30)
  <2> QED BY <1>1, <2>4, <2>5 DEF Fewer
<1> QED BY <1>3, <1>4, <1>5, <1>6, SMTT(30)

\* What was written stays.
LEMMA WrittenGrows ==
    ASSUME WatcherTypes, MonitorSide \/ WatcherSide
    PROVE  /\ Len(written) \in Nat /\ Len(written') \in Nat /\ Len(written) <= Len(written')
           /\ \A i \in 1 .. Len(written) : written'[i] = written[i]
<1> USE DEF channel, sources
<1>0. written \in Seq(Entry) /\ kind \in Kinds /\ Len(written) \in Nat
  BY LenProperties DEF WatcherTypes
<1>1. ASSUME UNCHANGED written
      PROVE  /\ Len(written) \in Nat /\ Len(written') \in Nat /\ Len(written) <= Len(written')
             /\ \A i \in 1 .. Len(written) : written'[i] = written[i]
  BY <1>0, <1>1
<1>2. ASSUME NEW e \in Entries[kind], written' = Append(written, e)
      PROVE  /\ Len(written) \in Nat /\ Len(written') \in Nat /\ Len(written) <= Len(written')
             /\ \A i \in 1 .. Len(written) : written'[i] = written[i]
  <2>1. e \in Entry
    BY <1>0 DEF Entry
  <2>2. Len(written') = Len(written) + 1 /\ \A i \in 1 .. Len(written) : written'[i] = written[i]
    BY <1>0, <1>2, <2>1, AppendProperties
  <2> QED BY <1>0, <2>2
<1>3. UNCHANGED written \/ \E e \in Entries[kind] : written' = Append(written, e)
  <2>1. CASE MonitorSide \/ Watch \/ WatchFails
    BY <2>1, SMTT(30) DEF MonitorSide, Watch, WatchFails
  <2>2. CASE Loop
    BY <2>2 DEF Loop, StopWatching, Exit, Send, KmsgReceive, KmsgClosed, KmsgAttempt,
                KmsgDelayPasses, JournaldRead, FileFill, FileError, FileLine
  <2>3. CASE TailLoop
    BY <2>3 DEF TailLoop, TailLock, TailOpen, TailGivesUp, TailWatch, TailRotated, TailStopped, TailStep
  <2>4. CASE KmsgFails \/ Rotate \/ CreateFile
    BY <2>4 DEF KmsgFails, Rotate, CreateFile
  <2>5. CASE WriteEntry \/ WriteFile
    BY <2>5, Zenon DEF WriteEntry, WriteFile
  <2> QED BY <2>1, <2>2, <2>3, <2>4, <2>5 DEF WatcherSide, Node
<1> QED BY <1>1, <1>2, <1>3

\* An entry is delivered, or the line that ends with the first piece of the reader.
TookEntry ==
    /\ kind # "filelog" /\ next \in 1 .. Len(written) /\ next' = next + 1
    /\ OneMore(Log(next)) /\ UNCHANGED <<written, file>>
TookLine == kind = "filelog" /\ FileLine /\ reading.pieces[1].end /\ OneMore(LineOf(Joining))

LEMMA DeliverySteps ==
    ASSUME WatcherTypes, FileTypes, LinesBounded, MonitorSide \/ WatcherSide
    PROVE  /\ next \in Nat /\ next' \in Nat /\ next <= next'
           /\ Fewer \/ TookEntry \/ TookLine
<1> USE DEF channel, sources
<1>0. WatcherTypes'
  BY WatcherTypesStep
<1>n. next \in Nat /\ next' \in Nat /\ next <= Len(written) + 1 /\ Len(written) \in Nat
  BY <1>0, LenProperties DEF WatcherTypes
<1>u. ASSUME UNCHANGED next
      PROVE  next \in Nat /\ next' \in Nat /\ next <= next'
  BY <1>n, <1>u
<1>e. ASSUME UNCHANGED <<received, logCh>>, UNCHANGED inHand \/ inHand' = <<>>
      PROVE  Fewer
  BY <1>0, <1>e, MovesOn
<1>1. CASE MonitorSide
  <2>1. Fewer
    BY <1>0, <1>1, MovesOn DEF MonitorSide
  <2> QED BY <1>1, <1>u, <2>1 DEF MonitorSide
<1>2. CASE UNCHANGED received /\ (Watch \/ WatchFails \/ KmsgClosed \/ KmsgDelayPasses \/ FileFill \/ TailLoop
                                  \/ Node \/ StopWatching \/ FileError)
  <2>1. UNCHANGED <<received, logCh, next>> /\ (UNCHANGED inHand \/ inHand' = <<>>)
    <3>1. CASE Watch \/ WatchFails \/ KmsgClosed \/ KmsgDelayPasses \/ FileFill
      BY <1>2, <3>1, SMTT(30) DEF Watch, WatchFails, KmsgClosed, KmsgDelayPasses, FileFill
    <3>2. CASE TailLoop
      BY <1>2, <3>2 DEF TailLoop, TailLock, TailOpen, TailGivesUp, TailWatch, TailRotated, TailStopped,
                        TailStep
    <3>3. CASE Node
      BY <1>2, <3>3, Zenon DEF Node, KmsgFails, WriteEntry, WriteFile, Rotate, CreateFile, NodeStep
    <3>4. CASE StopWatching \/ FileError
      BY <1>2, <3>4 DEF StopWatching, FileError, Exit
    <3> QED BY <1>2, <3>1, <3>2, <3>3, <3>4, SMTT(30)
  <2> QED BY <1>u, <1>e, <2>1
<1>3. CASE UNCHANGED received /\ Send
  <2>1. Len(inHand) = 1
    BY <1>3 DEF Send, WatcherTypes
  <2>2. Fewer
    BY <1>0, <1>3, <2>1, MovesOn DEF Send
  <2> QED BY <1>3, <1>u, <2>2 DEF Send
<1>4. CASE UNCHANGED received /\ KmsgAttempt
  <2>1. UNCHANGED <<received, logCh, inHand>> /\ (UNCHANGED next \/ next' = Len(written) + 1)
    BY <1>4 DEF KmsgAttempt, SeekEnd
  <2>2. next <= next'
    BY <1>n, <2>1
  <2> QED BY <1>n, <1>e, <2>1, <2>2
<1>5. CASE UNCHANGED received /\ (KmsgReceive \/ JournaldRead)
  <2>1. /\ kind # "filelog" /\ watcher = "loop" /\ next' = next + 1 /\ next <= Len(written)
        /\ UNCHANGED <<received, logCh, written, file>>
        /\ UNCHANGED inHand \/ inHand' = <<Log(next)>>
    BY <1>5 DEF KmsgReceive, JournaldRead, Take
  <2>2. inHand = <<>> /\ next \in 1 .. Len(written)
    BY <1>n, <2>1 DEF WatcherTypes
  <2>3. CASE UNCHANGED inHand
    BY <1>n, <1>e, <2>1, <2>3
  <2>4. CASE inHand' = <<Log(next)>>
    <3>1. OneMore(Log(next))
      BY <1>0, <2>1, <2>2, <2>4, InHandDelivered
    <3>2. TookEntry
      BY <2>1, <2>2, <3>1 DEF TookEntry
    <3>3. next <= next'
      BY <1>n, <2>1
    <3> QED BY <1>n, <3>2, <3>3
  <2> QED BY <2>1, <2>3, <2>4
<1>6. CASE UNCHANGED received /\ FileLine
  <2>1. kind = "filelog" /\ watcher = "loop" /\ UNCHANGED <<received, logCh, next>>
    BY <1>6, Zenon DEF FileLine
  <2>2. TookPiece
    BY <1>6, FileLineTookPiece
  <2>3. CASE UNCHANGED inHand
    BY <1>u, <1>e, <2>1, <2>3
  <2>4. CASE reading.pieces[1].end /\ inHand' = <<LineOf(Joining)>>
    <3>1. inHand = <<>>
      BY <2>1 DEF WatcherTypes
    <3>2. OneMore(LineOf(Joining))
      BY <1>0, <2>1, <2>4, <3>1, InHandDelivered, Zenon
    <3>3. TookLine
      BY <1>6, <2>1, <2>4, <3>2 DEF TookLine
    <3> QED BY <1>u, <2>1, <3>3
  <2> QED BY <2>2, <2>3, <2>4, Zenon DEF TookPiece
<1> QED BY <1>1, <1>2, <1>3, <1>4, <1>5, <1>6 DEF WatcherSide, Loop

\* The line that ends with the first piece of the reader is timed by its first piece.
LEMMA TookLineTime ==
    ASSUME WatcherTypes, FileTypes, LinesBounded, TookPiece
    PROVE  LineOf(Joining).time = IF reading.buffer = <<>> THEN reading.pieces[1].line
                                  ELSE reading.buffer[1].line
<1>1. reading.buffer \in Seq(AnyPiece) /\ Len(reading.buffer) \in Nat
  BY Fields
<1>2. Joining \in Seq(AnyPiece) /\ Len(Joining) >= 1
  BY <1>1 DEF TookPiece
<1>3. Bounded(Joining)
  <2> SUFFICES ASSUME NEW i \in 1 .. Len(Joining) PROVE Joining[i].line <= Len(written)
    BY DEF Bounded
  <2>1. i \in 1 .. Len(reading.buffer) \/ i = Len(reading.buffer) + 1
    BY <1>1 DEF TookPiece
  <2> QED BY <2>1 DEF TookPiece, LinesBounded, Bounded
<1>4. LineOf(Joining).time = Joining[1].line
  BY <1>2, <1>3, LineOfPieces, SMTT(30)
<1>5. CASE reading.buffer = <<>>
  <2>1. Len(reading.buffer) = 0
    BY <1>5
  <2> QED BY <1>4, <1>5, <2>1 DEF TookPiece
<1>6. CASE reading.buffer # <<>>
  <2>1. 1 \in 1 .. Len(reading.buffer)
    BY <1>1, <1>6, EmptySeq
  <2> QED BY <1>4, <1>6, <2>1 DEF TookPiece
<1> QED BY <1>5, <1>6

\* Steps keep the lines delivered in order.
LEMMA DeliveredInOrderStep ==
    ASSUME WatcherTypes, FileTypes, LinesBounded, FileOrder, Tailed, ReadInOrder, DeliveredInOrder,
           MonitorSide \/ WatcherSide
    PROVE  DeliveredInOrder'
<1> DEFINE n == Len(Delivered)
           T(i) == Delivered[i].time
<1>0. WatcherTypes'
  BY WatcherTypesStep
<1>1. Delivered \in Seq(PushedLog) /\ Delivered' \in Seq(PushedLog)
  BY <1>0, DeliveredFacts
<1>2. n \in Nat /\ Len(Delivered') \in Nat
  BY <1>1, LenProperties
<1>3. \A i \in 1 .. n : T(i) \in Nat
  <2>1. \A i \in 1 .. n : Delivered[i] \in PushedLog
    BY <1>1, ElementOfSeq
  <2> QED BY <2>1 DEF PushedLog, AnyLog
<1>k. UNCHANGED kind
  BY FileSteps
<1>4. CASE kind # "filelog"
  <2>0. /\ \A i, j \in 1 .. n : i < j => T(i) < T(j)
        /\ \A i \in 1 .. n : T(i) < next
    BY <1>4 DEF DeliveredInOrder, InOrder
  <2>1. next \in Nat /\ next' \in Nat /\ next <= next' /\ (Fewer \/ TookEntry)
    BY <1>4, DeliverySteps DEF TookLine
  <2>2. CASE Fewer
    <3>1. \A i \in 1 .. Len(Delivered') : i \in 1 .. n /\ Delivered'[i] = Delivered[i]
      BY <1>2, <2>2 DEF Fewer
    <3>2. InOrder'
      BY <2>0, <3>1, Zenon DEF InOrder
    <3>3. ASSUME NEW i \in 1 .. Len(Delivered') PROVE Delivered'[i].time < next'
      <4>1. T(i) \in Nat /\ T(i) < next /\ Delivered'[i] = Delivered[i]
        BY <1>3, <2>0, <3>1, Zenon
      <4> QED BY <2>1, <4>1
    <3> QED BY <1>4, <1>k, <3>2, <3>3, Zenon DEF DeliveredInOrder
  <2>3. CASE TookEntry
    <3>1. /\ Len(Delivered') = n + 1 /\ \A i \in 1 .. n : Delivered'[i] = Delivered[i]
          /\ Delivered'[n + 1] = Log(next) /\ next' = next + 1 /\ Log(next).time = next
      BY <2>3, LogsOfEntries DEF TookEntry, OneMore
    <3>2. ASSUME NEW i \in 1 .. n + 1
          PROVE  \/ i \in 1 .. n /\ Delivered'[i].time = T(i) /\ T(i) < next /\ T(i) \in Nat
                 \/ i = n + 1 /\ Delivered'[i].time = next
      <4>1. i \in 1 .. n \/ i = n + 1
        BY <1>2
      <4> QED BY <1>3, <2>0, <3>1, <4>1
    <3> HIDE DEF n, T
    <3>3. ASSUME NEW i \in 1 .. n + 1, NEW j \in 1 .. n + 1, i < j
          PROVE  Delivered'[i].time < Delivered'[j].time
      <4>1. i # n + 1
        BY <1>2, <3>3
      <4>2. i \in 1 .. n /\ Delivered'[i].time = T(i) /\ T(i) < next
        BY <3>2, <4>1
      <4> QED BY <2>0, <3>2, <3>3, <4>2
    <3>4. InOrder'
      BY <3>1, <3>3 DEF InOrder
    <3>5. ASSUME NEW i \in 1 .. n + 1 PROVE Delivered'[i].time < next'
      <4>1. next < next'
        BY <2>1, <3>1
      <4> QED BY <2>1, <3>2, <4>1
    <3> QED BY <1>4, <1>k, <3>1, <3>4, <3>5 DEF DeliveredInOrder
  <2> QED BY <2>1, <2>2, <2>3, SMTT(30)
<1>5. CASE kind = "filelog" /\ ~file'.hasty
  <2>0. ~file.hasty
    BY <1>5, HastyStays, SMTT(30)
  <2>1. /\ \A i, j \in 1 .. n : i < j => T(i) < T(j)
        /\ \A i \in 1 .. n :
              /\ \E x \in PiecesRead : x.end /\ T(i) <= x.line
              /\ \A j \in 1 .. Len(reading.pieces) : T(i) < reading.pieces[j].line
              /\ \A j \in 1 .. Len(reading.buffer) : T(i) < reading.buffer[j].line
    BY <1>5, <2>0 DEF DeliveredInOrder, InOrder
  <2>2. \A x \in PiecesRead : x \in PiecesRead'
    BY <1>5, PiecesReadKept
  <2>3. /\ Len(reading.pieces) \in Nat /\ Len(reading.buffer) \in Nat
        /\ \A j \in 1 .. Len(reading.pieces) : reading.pieces[j].line \in Nat
        /\ \A j \in 1 .. Len(reading.buffer) : reading.buffer[j].line \in Nat
    BY Fields, SMTT(30)
  <2>4. ASSUME NEW i \in 1 .. n
        PROVE  /\ \A j \in 1 .. Len(reading'.pieces) : T(i) < reading'.pieces[j].line
               /\ \A j \in 1 .. Len(reading'.buffer) : T(i) < reading'.buffer[j].line
    <3>1. CASE UNCHANGED reading
      BY <2>1, <3>1, Zenon
    <3>2. CASE FileFill
      <4>1. Filled
        BY <3>2, FileFillFilled
      <4>2. PICK x \in PiecesRead : x.end /\ T(i) <= x.line
        BY <2>1, Zenon
      <4>3. ASSUME NEW j \in 1 .. Len(reading'.pieces) PROVE T(i) < reading'.pieces[j].line
        <5> DEFINE k == tail.pos + j
                   y == file.pieces[tail.open][k]
        <5>1. /\ tail.open \in 1 .. Len(file.pieces) /\ k \in 1 .. Len(file.pieces[tail.open])
              /\ reading'.pieces[j] = y
          BY <4>1 DEF Filled
        <5>2. k > tail.pos
          <6>1. tail.pos \in Nat /\ Len(file.pieces[tail.open]) \in Nat
            BY <5>1, Fields, Generations, Zenon
          <6>2. Len(reading'.pieces) \in Nat
            BY <4>1, <6>1, SMTT(30) DEF Filled
          <6> QED BY <6>1, <6>2
        <5> HIDE DEF k
        <5>3. Before(x, y)
          BY <5>1, <5>2, ReadBefore
        <5>4. x.line \in Nat /\ y.line \in Nat
          BY <5>1, Generations, Zenon DEF PiecesRead, AnyPiece
        <5>5. x.line < y.line
          BY <4>2, <5>3 DEF Before
        <5> HIDE DEF y, T
        <5>6. T(i) < y.line
          BY <1>3, <4>2, <5>4, <5>5, SMTT(30)
        <5> QED BY <5>1, <5>6, SMTT(30)
      <4>4. reading'.buffer = reading.buffer
        BY <4>1, SMTT(30) DEF Filled
      <4> QED BY <2>1, <4>3, <4>4, Zenon
    <3>3. CASE FileLine
      <4>1. TookPiece
        BY <3>3, FileLineTookPiece
      <4>2. \A j \in 1 .. Len(reading'.pieces) : T(i) < reading'.pieces[j].line
        BY <2>1, <4>1, Zenon DEF TookPiece
      <4>3. CASE reading'.buffer = <<>>
        <5>1. Len(reading'.buffer) = 0
          BY <4>3, SMTT(30)
        <5> QED BY <4>2, <5>1
      <4>4. CASE reading'.buffer = Joining
        <5>1. ASSUME NEW j \in 1 .. Len(Joining) PROVE T(i) < Joining[j].line
          <6>1. j \in 1 .. Len(reading.buffer) \/ j = Len(reading.buffer) + 1
            <7>1. Len(Joining) = Len(reading.buffer) + 1
              BY <4>1, Zenon DEF TookPiece
            <7> QED BY <2>3, <7>1
          <6>2. CASE j \in 1 .. Len(reading.buffer)
            BY <2>1, <4>1, <6>2, Zenon DEF TookPiece
          <6>3. CASE j = Len(reading.buffer) + 1
            BY <2>1, <4>1, <6>3, Zenon DEF TookPiece
          <6> QED BY <6>1, <6>2, <6>3, Zenon
        <5> QED BY <4>2, <4>4, <5>1, SMTT(30)
      <4> QED BY <4>1, <4>3, <4>4 DEF TookPiece
    <3>4. CASE FilesKept \/ Exit \/ TailLoop
      BY <3>1, <3>4, ExitEffect, TailEffect, Zenon DEF FilesKept
    <3>5. CASE WriteFile
      BY <3>1, <3>5, WriteFileWrote, Zenon DEF Wrote
    <3>6. CASE Rotate \/ CreateFile
      BY <3>1, <3>6, RotateEffect, CreateEffect, Zenon
    <3> QED BY <3>2, <3>3, <3>4, <3>5, <3>6, FileSteps DEF FileStep
  <2>5. CASE Fewer
    <3>1. \A i \in 1 .. Len(Delivered') : i \in 1 .. n /\ Delivered'[i] = Delivered[i]
      BY <1>2, <2>5 DEF Fewer
    <3>2. InOrder'
      BY <2>1, <3>1 DEF InOrder
    <3>3. ASSUME NEW i \in 1 .. Len(Delivered')
          PROVE  /\ \E x \in PiecesRead' : x.end /\ Delivered'[i].time <= x.line
                 /\ \A j \in 1 .. Len(reading'.pieces) : Delivered'[i].time < reading'.pieces[j].line
                 /\ \A j \in 1 .. Len(reading'.buffer) : Delivered'[i].time < reading'.buffer[j].line
      <4>1. i \in 1 .. n /\ Delivered'[i] = Delivered[i]
        BY <3>1, SMTT(30)
      <4> QED BY <2>1, <2>2, <2>4, <4>1, SMTT(30)
    <3> QED BY <1>5, <1>k, <3>2, <3>3 DEF DeliveredInOrder
  <2>6. CASE TookLine
    <3> DEFINE log == LineOf(Joining)
               x == reading.pieces[1]
    <3>1. TookPiece /\ x.end /\ OneMore(log)
      BY <2>6, FileLineTookPiece DEF TookLine
    <3>2. /\ x \in PiecesRead /\ x.line \in Nat /\ 1 \in 1 .. Len(reading.pieces)
      BY <2>0, <2>3, <3>1, Zenon DEF TookPiece, ReadInOrder
    <3>3. /\ Len(Delivered') = n + 1 /\ \A i \in 1 .. n : Delivered'[i] = Delivered[i]
          /\ Delivered'[n + 1] = log
      BY <3>1 DEF OneMore
    <3>4. log.time \in Nat /\ log.time <= x.line /\ \A i \in 1 .. n : T(i) < log.time
      <4>1. log.time = IF reading.buffer = <<>> THEN x.line ELSE reading.buffer[1].line
        BY <3>1, TookLineTime, SMTT(30)
      <4>2. CASE reading.buffer = <<>>
        BY <2>1, <3>2, <4>1, <4>2, SMTT(30)
      <4>3. CASE reading.buffer # <<>>
        <5>1. 1 \in 1 .. Len(reading.buffer)
          BY <4>3, Fields, EmptySeq, SMTT(30)
        <5>2. Before(reading.buffer[1], x)
          BY <2>0, <3>2, <5>1, SMTT(30) DEF ReadInOrder
        <5>3. reading.buffer[1].line \in Nat /\ reading.buffer[1].line <= x.line
          BY <2>3, <3>2, <5>1, <5>2, SMTT(30) DEF Before
        <5> QED BY <2>1, <4>1, <4>3, <5>1, <5>3, SMTT(30)
      <4> QED BY <4>2, <4>3, SMTT(30)
    <3>5. /\ reading'.buffer = <<>> /\ Len(reading'.buffer) = 0
          /\ \A j \in 1 .. Len(reading'.pieces) : log.time < reading'.pieces[j].line
      <4>1. reading'.buffer = <<>>
        BY <3>1 DEF TookPiece
      <4>2. Len(reading'.buffer) = 0
        BY <4>1
      <4>3. ASSUME NEW j \in 1 .. Len(reading'.pieces) PROVE log.time < reading'.pieces[j].line
        <5>1. j + 1 \in 1 .. Len(reading.pieces) /\ reading'.pieces[j] = reading.pieces[j + 1]
          BY <3>1 DEF TookPiece
        <5>2. 1 < j + 1
          <6>1. Len(reading'.pieces) \in Nat
            BY <2>3, <3>1 DEF TookPiece
          <6> QED BY <6>1
        <5>3. Before(x, reading.pieces[j + 1])
          BY <2>0, <3>2, <5>1, <5>2, Zenon DEF ReadInOrder, Sorted
        <5>4. x.line < reading.pieces[j + 1].line /\ reading.pieces[j + 1].line \in Nat
          BY <2>3, <3>1, <5>1, <5>3, SMTT(30) DEF Before
        <5> HIDE DEF log, x
        <5> QED BY <3>2, <3>4, <5>1, <5>4, SMTT(30)
      <4> QED BY <4>1, <4>2, <4>3, SMTT(30)
    <3> HIDE DEF log
    <3>6. ASSUME NEW i \in 1 .. n + 1
          PROVE  \/ i \in 1 .. n /\ Delivered'[i].time = T(i) /\ T(i) < log.time
                 \/ i = n + 1 /\ Delivered'[i].time = log.time
      <4>1. i \in 1 .. n \/ i = n + 1
        BY <1>2
      <4> QED BY <3>3, <3>4, <4>1, SMTT(30)
    <3>7. ASSUME NEW i \in 1 .. n + 1, NEW j \in 1 .. n + 1, i < j
          PROVE  Delivered'[i].time < Delivered'[j].time
      <4>1. i # n + 1
        BY <1>2, <3>7
      <4>2. i \in 1 .. n /\ Delivered'[i].time = T(i) /\ T(i) < log.time
        BY <3>6, <4>1
      <4> QED BY <2>1, <3>6, <3>7, <4>2
    <3>8. InOrder'
      BY <3>3, <3>7, SMTT(30) DEF InOrder
    <3>9. ASSUME NEW i \in 1 .. n + 1
          PROVE  /\ \E y \in PiecesRead' : y.end /\ Delivered'[i].time <= y.line
                 /\ \A j \in 1 .. Len(reading'.pieces) : Delivered'[i].time < reading'.pieces[j].line
                 /\ \A j \in 1 .. Len(reading'.buffer) : Delivered'[i].time < reading'.buffer[j].line
      <4>1. CASE i \in 1 .. n /\ Delivered'[i].time = T(i)
        BY <2>1, <2>2, <2>4, <4>1, ZenonT(30)
      <4>2. CASE i = n + 1 /\ Delivered'[i].time = log.time
        <5>1. x \in PiecesRead' /\ x.end /\ Delivered'[i].time <= x.line
          BY <2>2, <3>1, <3>2, <3>4, <4>2, Zenon
        <5>2. 1 .. 0 = {}
          OBVIOUS
        <5> HIDE DEF x
        <5> QED BY <3>5, <4>2, <5>1, <5>2, Zenon
      <4> QED BY <3>6, <4>1, <4>2
    <3> QED BY <1>5, <1>k, <3>3, <3>8, <3>9, SMTT(30) DEF DeliveredInOrder
  <2> QED BY <1>5, <2>5, <2>6, DeliverySteps DEF TookEntry
<1>6. CASE kind = "filelog" /\ file'.hasty
  BY <1>6, <1>k, SMTT(30) DEF DeliveredInOrder
<1> QED BY <1>4, <1>5, <1>6

\* Steps keep the lines delivered whole.
LEMMA DeliveredWholeStep ==
    ASSUME WatcherTypes, FileTypes, LinesBounded, FileOrder, ReadWhole, DeliveredWhole,
           MonitorSide \/ WatcherSide
    PROVE  DeliveredWhole'
<1> DEFINE n == Len(Delivered)
<1>0. WatcherTypes'
  BY WatcherTypesStep
<1>1. Len(file.pieces) \in Nat /\ Len(file.pieces) >= 1 /\ tail.open \in 0 .. Len(file.pieces)
  BY Fields, Zenon DEF FileTypes
<1>2. n \in Nat /\ Len(Delivered') \in Nat
  <2>1. Delivered \in Seq(PushedLog) /\ Delivered' \in Seq(PushedLog)
    BY <1>0, DeliveredFacts
  <2> QED BY <2>1, LenProperties
<1>3. Len(file'.pieces) = 1 => Len(file.pieces) = 1
  <2>1. CASE FilesKept \/ Exit \/ FileFill \/ FileLine \/ TailLoop
    BY <2>1, ExitEffect, FileFillFilled, FileLineTookPiece, TailEffect, Zenon DEF FilesKept, Filled, TookPiece
  <2>2. CASE WriteFile
    BY <2>2, WriteFileWrote, Zenon DEF Wrote
  <2>3. CASE Rotate \/ CreateFile
    BY <1>1, <2>3, RotateEffect, CreateEffect
  <2> QED BY <2>1, <2>2, <2>3, FileSteps DEF FileStep
<1> SUFFICES ASSUME Len(file'.pieces) = 1, NEW i \in 1 .. Len(Delivered')
             PROVE  /\ Delivered'[i].time \in 1 .. Len(written')
                    /\ Delivered'[i] = [message |-> written'[Delivered'[i].time].message,
                                        time |-> Delivered'[i].time]
  BY Zenon DEF DeliveredWhole, Log
<1>4. ASSUME NEW log, NEW t \in 1 .. Len(written), log = Log(t), Delivered'[i] = log
      PROVE  /\ Delivered'[i].time \in 1 .. Len(written')
             /\ Delivered'[i] = [message |-> written'[Delivered'[i].time].message,
                                 time |-> Delivered'[i].time]
  <2>1. Delivered'[i].time = t /\ Delivered'[i].message = written[t].message
    BY <1>4 DEF Log
  <2>2. written'[t] = written[t] /\ t \in 1 .. Len(written')
    BY WrittenGrows, SMTT(30)
  <2> QED BY <1>4, <2>1, <2>2, Zenon DEF Log
<1>5. CASE i \in 1 .. n /\ Delivered'[i] = Delivered[i]
  <2>1. Delivered[i].time \in 1 .. Len(written) /\ Delivered[i] = Log(Delivered[i].time)
    BY <1>3, <1>5 DEF DeliveredWhole
  <2> QED BY <1>4, <1>5, <2>1
<1>6. CASE TookEntry /\ i = n + 1
  <2>1. next \in 1 .. Len(written) /\ Delivered'[i] = Log(next)
    BY <1>6 DEF TookEntry, OneMore
  <2> QED BY <1>4, <2>1, Zenon
<1>7. CASE TookLine /\ i = n + 1
  <2> DEFINE x == reading.pieces[1]
             c == Consumed
  <2>1. TookPiece /\ Delivered'[i] = LineOf(Joining)
    BY <1>7, FileLineTookPiece, SMTT(30) DEF TookLine, OneMore
  <2>2. x \in AnyPiece /\ x.line \in Nat /\ x.line <= Len(written) /\ x.line >= 1
    BY <2>1 DEF TookPiece, AnyPiece, LinesBounded, Bounded
  <2>3. x.line \in 1 .. Len(written)
    BY <2>2, WrittenGrows
  <2>4. Len(file.pieces) = 1 /\ tail.open = 1
    <3>1. tail.open # 0
      BY <2>1, Zenon DEF TookPiece, FileTypes
    <3>2. Len(file.pieces) = 1
      BY <1>3
    <3>3. tail.open \in 0 .. 1
      BY <1>1, <3>2
    <3> QED BY <3>1, <3>2, <3>3
  <2>5. /\ c \in Nat /\ x = file.pieces[1][c + 1] /\ c + 1 <= Len(file.pieces[1])
        /\ Len(file.pieces[1]) \in Nat
        /\ reading.buffer = IF c = 0 \/ file.pieces[1][c].end THEN <<>> ELSE <<file.pieces[1][c]>>
    <3>1. tail.pos \in Nat /\ Len(reading.pieces) \in Nat
      BY Fields, SMTT(30)
    <3>2. Len(file.pieces[1]) \in Nat /\ tail.pos <= Len(file.pieces[1])
      BY <1>1, <2>4, Generations DEF FileTypes
    <3>3. c \in Nat /\ c + Len(reading.pieces) = tail.pos
      BY <2>4, <3>1, SMTT(30) DEF ReadWhole, Consumed
    <3> HIDE DEF c
    <3>4. c + 1 <= Len(file.pieces[1])
      BY <2>1, <3>1, <3>2, <3>3, SMTT(30) DEF TookPiece
    <3> QED BY <2>1, <2>4, <3>2, <3>3, <3>4, Zenon DEF ReadWhole, TookPiece, c
  <2>6. LineOf(Joining) = Log(x.line)
    <3>1. CASE c = 0 \/ file.pieces[1][c].end
      <4>1. reading.buffer = <<>>
        BY <2>5, <3>1
      <4>2. Joining = <<x>>
        BY <4>1 DEF Joining
      <4>3. Joining[1] = x /\ Len(Joining) = 1
        BY <4>2
      <4> QED BY <4>3, Zenon DEF LineOf, Log
    <3>2. CASE ~(c = 0 \/ file.pieces[1][c].end)
      <4> DEFINE y == file.pieces[1][c]
      <4>1. reading.buffer = <<y>>
        BY <2>5, <3>2
      <4>2. Len(reading.buffer) = 1 /\ reading.buffer[1] = y
        BY <4>1, SMTT(30)
      <4>3. Joining[1] = y /\ Joining[2] = x /\ Len(Joining) = 2
        BY <2>1, <4>2, SMTT(30) DEF TookPiece
      <4>4. c \in 1 .. Len(file.pieces[1]) /\ c # Len(file.pieces[1]) /\ 1 \in 1 .. Len(file.pieces)
        BY <2>4, <2>5, <3>2, SMTT(30)
      <4>5. y.line = x.line
        BY <2>5, <3>2, <4>4, SMTT(30) DEF FileOrder, EndsFollow
      <4> QED BY <4>3, <4>5, Zenon DEF LineOf, Log
    <3> QED BY <3>1, <3>2
  <2> QED BY <1>4, <2>1, <2>3, <2>6, Zenon
<1>8. \/ i \in 1 .. n /\ Delivered'[i] = Delivered[i]
      \/ (TookEntry \/ TookLine) /\ i = n + 1
  <2>1. CASE Fewer
    BY <1>2, <2>1 DEF Fewer
  <2>2. CASE TookEntry \/ TookLine
    <3>1. Len(Delivered') = n + 1 /\ \A j \in 1 .. n : Delivered'[j] = Delivered[j]
      BY <2>2 DEF TookEntry, TookLine, OneMore
    <3>2. i \in 1 .. n \/ i = n + 1
      BY <1>2, <3>1
    <3> QED BY <2>2, <3>1, <3>2, SMTT(30)
  <2> QED BY <2>1, <2>2, DeliverySteps
<1> QED BY <1>5, <1>6, <1>7, <1>8

\* The invariant of the watchers holds at the start,
LEMMA WatcherInit_Inv ==
    ASSUME Init
    PROVE  WatcherInv
<1>1. Len(reading.pieces) = 0 /\ Len(reading.buffer) = 0 /\ Len(file.pieces) = 1 /\ Len(file.pieces[1]) = 0
  BY InitialWatcher, Zenon
<1>2. WatcherTypes /\ FileTypes /\ LinesBounded /\ FileOnly
  BY InitHolds, Zenon DEF WatcherHolds
<1>3. FileOrder
  BY <1>1 DEF FileOrder, SortedWithin, SortedAcross, Sorted, EndsFollow
<1>4. Tailed
  <2>1. ~file.hasty /\ file.events = 0 /\ tail.open = 0 /\ file.now = 1
    BY InitialWatcher, Zenon
  <2> QED BY <2>1 DEF Tailed
<1>5. ReadInOrder
  BY <1>1 DEF ReadInOrder, Sorted
<1>6. ReadWhole
  <2>1. tail.open = 0
    BY InitialWatcher, Zenon
  <2> QED BY <2>1 DEF ReadWhole
<1>7. Len(Delivered) = 0
  <2>1. received = <<>> /\ logCh = <<>> /\ inHand = <<>>
    BY InitialWatcher, Zenon
  <2>2. <<>> \o <<>> \o <<>> = <<>>
    OBVIOUS
  <2>3. Len(<<>>) = 0
    BY Zenon
  <2> QED BY <2>1, <2>2, <2>3, Zenon DEF Delivered
<1>8. DeliveredInOrder /\ DeliveredWhole
  BY <1>7 DEF DeliveredInOrder, InOrder, DeliveredWhole
<1> QED BY <1>2, <1>3, <1>4, <1>5, <1>6, <1>8, Zenon DEF WatcherInv

\* and every step keeps it.
LEMMA WatcherStep_Inv ==
    ASSUME WatcherInv, [Next]_vars
    PROVE  WatcherInv'
<1>1. MonitorSide \/ WatcherSide
  BY TwoSides
<1> USE DEF WatcherInv
<1>2. WatcherTypes' /\ FileTypes' /\ LinesBounded' /\ FileOnly'
  BY <1>1, WatcherTypesStep, FileTypesStep, LinesBoundedStep, FileOnlyStep
<1>3. FileOrder' /\ Tailed' /\ ReadInOrder' /\ ReadWhole'
  BY <1>1, FileOrderStep, TailedStep, ReadInOrderStep, ReadWholeStep
<1>4. DeliveredInOrder' /\ DeliveredWhole'
  BY <1>1, DeliveredInOrderStep, DeliveredWholeStep, SMTT(30)
<1> QED BY <1>2, <1>3, <1>4

\* A watcher delivers lines in the order they were written, none twice and whole.
LEMMA InvLinesInOrder ==
    ASSUME WatcherInv
    PROVE  LinesInOrder
<1>1. Delivered \in Seq(PushedLog)
  <2>1. received \in Seq(PushedLog) /\ logCh \in Seq(PushedLog) /\ inHand \in Seq(PushedLog)
    BY DEF WatcherInv, WatcherTypes
  <2> QED BY <2>1, ConcatProperties DEF Delivered
<1>2. DOMAIN Delivered = 1 .. Len(Delivered)
  BY <1>1, LenProperties
<1>3. ~file.hasty => InOrder
  BY Zenon DEF WatcherInv, DeliveredInOrder
<1>4. Len(file.pieces) = 1 => \A i \in 1 .. Len(Delivered) : Delivered[i] = Log(Delivered[i].time)
  BY DEF WatcherInv, DeliveredWhole
<1> QED BY <1>2, <1>3, <1>4 DEF LinesInOrder, InOrder

-----------------------------------------------------------------------------
(* The theorems *)

\* What the watchers deliver, hold and have read is kept in order by every step.
THEOREM WatcherInvariance == Spec => []WatcherInv
<1>1. Init => WatcherInv
  BY WatcherInit_Inv, Zenon
<1>2. WatcherInv /\ [Next]_vars => WatcherInv'
  BY WatcherStep_Inv, Zenon
<1> QED BY <1>1, <1>2, PTL DEF Spec

\* Whatever the entries, the channel's capacity and the number of rotations: the lines that
\* a watcher delivers to monitorLoop are in the order they were written and none comes twice,
\* across restarts of the kmsg parser and rotations that Tail notices, and they are whole
\* unless the file was rotated.
THEOREM LinesInOrderAlways == Spec => []LinesInOrder
<1>1. WatcherInv => LinesInOrder
  BY InvLinesInOrder
<1> QED BY <1>1, WatcherInvariance, PTL
=============================================================================
