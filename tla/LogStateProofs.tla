--------------------------- MODULE LogStateProofs ----------------------------
(***************************************************************************)
(* Proofs about a log monitor and its watchers: what a watcher holds of    *)
(* the log, Tail's place in the file and the pace of restarts, for any     *)
(* entries, failures, rotations and channel capacity; and how monitorLoop  *)
(* moves from place to place, which LogMonitorProofs builds on.            *)
(***************************************************************************)
EXTENDS LogMonitor, SequenceTheorems, TLAPS

Entry == UNION {Entries[k] : k \in Kinds}
AnyPiece == [line : Nat \ {0}, end : BOOLEAN]
ParserState == [state : {"nil", "open"}, failed : BOOLEAN, opened : Nat, closed : Nat,
                recent : BOOLEAN, attempts : Nat]
TailState == [at : {"start", "open", "opened", "watching", "ended"}, err : {"nil", "eof", "err"},
              open : Nat, pos : Nat, closed : BOOLEAN, stop : BOOLEAN]
FileState == [now : Nat, events : Nat, pieces : Seq(Seq(AnyPiece)), hasty : BOOLEAN]
ReadState == [pieces : Seq(AnyPiece), buffer : Seq(AnyPiece)]

-----------------------------------------------------------------------------
(* The invariant of the watchers *)

\* A log is in hand exactly while it is being sent.
WatcherTypes ==
    /\ kind \in Kinds /\ written \in Seq(Entry) /\ next \in 1 .. Len(written) + 1
    /\ received \in Seq(PushedLog) /\ logCh \in Seq(PushedLog) /\ inHand \in Seq(PushedLog)
    /\ IF watcher = "send" THEN Len(inHand) = 1 ELSE inHand = <<>>

\* One attempt to open the parser is made in a retryDelay, then one is recent or the
\* loop waits.
Paced ==
    /\ parser \in ParserState /\ parser.attempts <= 1
    /\ parser.attempts = 1 => parser.recent \/ watcher \in {"wait", "done"}
    /\ watcher = "attempt" => parser.attempts = 0

\* The path names the last generation of the file or none; Tail has opened one of them,
\* and has read no more than was written.
FileTypes ==
    /\ tail \in TailState /\ file \in FileState /\ reading \in ReadState
    /\ Len(file.pieces) >= 1 /\ file.now \in {NoFile, Len(file.pieces)}
    /\ tail.open <= Len(file.pieces)
    /\ tail.open >= 1 => tail.pos <= Len(file.pieces[tail.open])
    /\ tail.open = 0 => /\ tail.closed /\ tail.pos = 0 /\ tail.at \notin {"opened", "watching"}
                        /\ reading.pieces = <<>> /\ reading.buffer = <<>> /\ file.events = 0

\* Pieces are pieces of lines that were written.
Bounded(pieces) == \A i \in 1 .. Len(pieces) : pieces[i].line <= Len(written)
LinesBounded ==
    /\ \A g \in 1 .. Len(file.pieces) : Bounded(file.pieces[g])
    /\ Bounded(reading.pieces) /\ Bounded(reading.buffer)

\* The other watchers have no file.
FileOnly ==
    kind # "filelog" =>
        file.pieces = <<<<>>>> /\ reading.pieces = <<>> /\ reading.buffer = <<>> /\ tail.open = 0

\* What the watchers hold, and where Tail is in the file.
WatcherHolds == WatcherTypes /\ FileTypes /\ LinesBounded /\ FileOnly

-----------------------------------------------------------------------------
(* Steps of the watchers *)

\* What a step of the monitor does to the watcher: it may take a log from the channel.
MonitorSide ==
    /\ UNCHANGED <<kind, written, watcher, inHand, next, parser, tail, file, reading>>
    /\ \/ UNCHANGED <<logCh, received>>
       \/ logCh # <<>> /\ received' = Append(received, Head(logCh)) /\ logCh' = Tail(logCh)

WatcherSide == UNCHANGED received /\ (Watch \/ WatchFails \/ Loop \/ TailLoop \/ Node)

\* A step is one of the monitor or one of the watcher.
LEMMA TwoSides ==
    ASSUME [Next]_vars
    PROVE  MonitorSide \/ WatcherSide
<1> USE DEF vars, watcherVars, monitorVars, channel, sources, metrics, exporter
<1>1. CASE Start
  BY <1>1 DEF Start, WatcherSide
<1>2. CASE Stop
  BY <1>2 DEF Stop, MonitorSide
<1>3. CASE MonitorLoop
  <2>1. CASE InitializeStatus
    BY <2>1 DEF InitializeStatus, MonitorSide
  <2>2. CASE Receive
    BY <2>2 DEF Receive, Quiet, MonitorSide
  <2>3. CASE MatchRule \/ Stamp \/ SetStatus \/ SetReason \/ SendStatus
    BY <2>3, Zenon DEF MatchRule, Stamp, SetStatus, SetReason, SendStatus, MonitorOnly, MonitorSide
  <2>4. CASE LogsClosed \/ StopWatcher \/ WatcherStopped
    BY <2>4 DEF LogsClosed, StopWatcher, WatcherStopped, Finish, MonitorSide
  <2> QED BY <1>3, <2>1, <2>2, <2>3, <2>4 DEF MonitorLoop
<1>4. CASE Export \/ ExportCondition
  BY <1>4, Zenon DEF Export, ExportCondition, MonitorOnly, MonitorSide
<1>5. CASE (Loop \/ TailLoop \/ Node) /\ UNCHANGED monitorVars
  BY <1>5 DEF WatcherSide
<1>6. CASE UNCHANGED vars
  BY <1>6 DEF MonitorSide
<1> QED BY <1>1, <1>2, <1>3, <1>4, <1>5, <1>6 DEF Next

\* What was written makes logs.
LEMMA LogsOfEntries ==
    ASSUME WatcherTypes, NEW i \in 1 .. Len(written)
    PROVE  /\ Log(i) \in PushedLog /\ Log(i).time = i
           /\ written[i].message \in Seq(Letter)
<1>1. written[i] \in Entry
  BY ElementOfSeq DEF WatcherTypes
<1>2. written[i].message \in Seq(Letter)
  BY <1>1, EntriesAssumption DEF Entry
<1>3. i \in Nat /\ i > 0
  BY LenProperties, SMTT(30) DEF WatcherTypes
<1> QED BY <1>2, <1>3 DEF Log, PushedLog, AnyLog

\* Pieces of written lines make a log, timed by the first of them.
LEMMA LineOfPieces ==
    ASSUME WatcherTypes, NEW pieces \in Seq(AnyPiece), Bounded(pieces), Len(pieces) >= 1
    PROVE  LineOf(pieces) \in PushedLog /\ LineOf(pieces).time = pieces[1].line
<1> DEFINE n == Len(pieces)
<1>1. n \in Nat /\ 1 \in 1 .. n /\ n \in 1 .. n /\ Len(written) \in Nat
  BY LenProperties DEF WatcherTypes
<1>2. pieces[1] \in AnyPiece /\ pieces[n] \in AnyPiece
  BY <1>1, ElementOfSeq
<1>3. pieces[1].line \in 1 .. Len(written) /\ pieces[n].line \in 1 .. Len(written)
  BY <1>1, <1>2 DEF Bounded, AnyPiece
<1>4. written[pieces[1].line].message \in Seq(Letter) /\ written[pieces[n].line].message \in Seq(Letter)
  BY <1>3, LogsOfEntries
<1>5. written[pieces[1].line].message \o written[pieces[n].line].message \in Seq(Letter)
  BY <1>4, ConcatProperties
<1> HIDE DEF n
<1>6. pieces[1].line \in Nat /\ pieces[1].line > 0
  BY <1>1, <1>3
<1> QED BY <1>4, <1>5, <1>6 DEF LineOf, PushedLog, AnyLog, n

\* Steps keep the types of what the watchers write, hold and send.
LEMMA WatcherTypesStep ==
    ASSUME WatcherTypes, FileTypes, LinesBounded, MonitorSide \/ WatcherSide
    PROVE  WatcherTypes'
<1> USE DEF WatcherTypes, channel, sources
<1>L. ASSUME NEW i \in 1 .. Len(written) PROVE Log(i) \in PushedLog
  BY LogsOfEntries
<1>P. ASSUME NEW pieces \in Seq(AnyPiece), Bounded(pieces), Len(pieces) >= 1
      PROVE  LineOf(pieces) \in PushedLog
  BY <1>P, LineOfPieces
<1>1. CASE MonitorSide
  <2>1. CASE UNCHANGED <<logCh, received>>
    BY <1>1, <2>1 DEF MonitorSide
  <2>2. CASE logCh # <<>> /\ received' = Append(received, Head(logCh)) /\ logCh' = Tail(logCh)
    <3>1. Head(logCh) \in PushedLog /\ Tail(logCh) \in Seq(PushedLog)
      BY <2>2, HeadTailProperties
    <3>2. received' \in Seq(PushedLog)
      BY <3>1, <2>2, AppendProperties
    <3> QED BY <1>1, <2>2, <3>1, <3>2 DEF MonitorSide
  <2> QED BY <1>1, <2>1, <2>2 DEF MonitorSide
<1>2. CASE Watch /\ UNCHANGED received
  BY <1>2 DEF Watch
<1>3. CASE WatchFails /\ UNCHANGED received
  BY <1>3 DEF WatchFails
<1>4. CASE StopWatching /\ UNCHANGED received
  BY <1>4 DEF StopWatching, Exit
<1>5. CASE Send /\ UNCHANGED received
  <2>0. inHand \in Seq(PushedLog) /\ Len(inHand) = 1
    BY <1>5 DEF Send
  <2>1. inHand[1] \in PushedLog
    BY <2>0, 1 \in 1 .. 1, ElementOfSeq, Zenon
  <2> QED BY <1>5, <2>1, AppendProperties DEF Send
<1>6. CASE KmsgReceive /\ UNCHANGED received
  <2>1. next \in 1 .. Len(written) /\ next + 1 \in 1 .. Len(written) + 1
    BY <1>6, LenProperties DEF KmsgReceive
  <2>2. Log(next) \in PushedLog
    BY <2>1, <1>L
  <2>3. <<Log(next)>> \in Seq(PushedLog) /\ Len(<<Log(next)>>) = 1
    BY <2>2
  <2> QED BY <1>6, <2>1, <2>3, Zenon DEF KmsgReceive, Take
<1>7. CASE KmsgClosed /\ UNCHANGED received
  BY <1>7 DEF KmsgClosed
<1>8. CASE KmsgAttempt /\ UNCHANGED received
  <2>1. Len(written) + 1 \in 1 .. Len(written) + 1
    BY LenProperties
  <2> QED BY <1>8, <2>1 DEF KmsgAttempt, SeekEnd
<1>9. CASE KmsgDelayPasses /\ UNCHANGED received
  BY <1>9 DEF KmsgDelayPasses
<1>10. CASE JournaldRead /\ UNCHANGED received
  <2>1. next \in 1 .. Len(written) /\ next + 1 \in 1 .. Len(written) + 1
    BY <1>10, LenProperties DEF JournaldRead
  <2>2. Log(next) \in PushedLog
    BY <2>1, <1>L
  <2>3. <<Log(next)>> \in Seq(PushedLog) /\ Len(<<Log(next)>>) = 1
    BY <2>2
  <2> QED BY <1>10, <2>1, <2>3, Zenon DEF JournaldRead, Take
<1>11. CASE FileFill /\ UNCHANGED received
  BY <1>11 DEF FileFill
<1>12. CASE FileError /\ UNCHANGED received
  BY <1>12 DEF FileError, Exit
<1>13. CASE FileLine /\ UNCHANGED received
  <2> DEFINE all == Append(reading.buffer, Head(reading.pieces))
  <2>1. reading.pieces \in Seq(AnyPiece) /\ reading.buffer \in Seq(AnyPiece) /\ reading.pieces # <<>>
    BY <1>13 DEF FileTypes, ReadState, FileLine
  <2>2. Head(reading.pieces) = reading.pieces[1] /\ reading.pieces[1] \in AnyPiece
        /\ 1 \in 1 .. Len(reading.pieces)
    BY <2>1, HeadTailProperties, ElementOfSeq, EmptySeq, LenProperties
  <2>3. all \in Seq(AnyPiece) /\ Len(all) = Len(reading.buffer) + 1 /\ Len(reading.buffer) \in Nat
        /\ all[Len(reading.buffer) + 1] = reading.pieces[1]
        /\ \A i \in 1 .. Len(reading.buffer) : all[i] = reading.buffer[i]
    BY <2>1, <2>2, AppendProperties, LenProperties
  <2>4. Bounded(all)
    BY <2>2, <2>3, SMTT(30) DEF LinesBounded, Bounded
  <2> HIDE DEF all
  <2>5. LineOf(all) \in PushedLog
    BY <2>3, <2>4, <1>P
  <2>6. <<LineOf(all)>> \in Seq(PushedLog) /\ Len(<<LineOf(all)>>) = 1
    BY <2>5
  <2> QED BY <1>13, <2>6, Zenon DEF FileLine, all
<1>14. CASE TailLock /\ UNCHANGED received
  BY <1>14 DEF TailLock, TailStep
<1>15. CASE TailOpen /\ UNCHANGED received
  BY <1>15 DEF TailOpen, TailStep
<1>16. CASE TailGivesUp /\ UNCHANGED received
  BY <1>16 DEF TailGivesUp, TailStep
<1>17. CASE TailWatch /\ UNCHANGED received
  BY <1>17 DEF TailWatch, TailStep
<1>18. CASE TailRotated /\ UNCHANGED received
  BY <1>18 DEF TailRotated, TailStep
<1>19. CASE TailStopped /\ UNCHANGED received
  BY <1>19 DEF TailStopped, TailStep
<1>20. CASE KmsgFails /\ UNCHANGED received
  BY <1>20 DEF KmsgFails
<1>21. CASE WriteEntry /\ UNCHANGED received
  <2>1. PICK e \in Entries[kind] : written' = Append(written, e)
    BY <1>21 DEF WriteEntry
  <2>2. e \in Entry
    BY DEF Entry
  <2>3. written' \in Seq(Entry) /\ Len(written') = Len(written) + 1 /\ Len(written) \in Nat
    BY <2>1, <2>2, AppendProperties, LenProperties
  <2> QED BY <1>21, <2>3 DEF WriteEntry, NodeStep
<1>22. CASE WriteFile /\ UNCHANGED received
  <2>1. UNCHANGED <<kind, watcher, inHand, logCh, received, next>>
    BY <1>22 DEF WriteFile, NodeStep
  <2>2. CASE UNCHANGED written
    BY <2>1, <2>2
  <2>3. CASE \E e \in Entries[kind] : written' = Append(written, e)
    <3>1. PICK e \in Entries[kind] : written' = Append(written, e)
      BY <2>3
    <3>2. e \in Entry
      BY DEF Entry
    <3>3. written' \in Seq(Entry) /\ Len(written') = Len(written) + 1 /\ Len(written) \in Nat
      BY <3>1, <3>2, AppendProperties, LenProperties
    <3> QED BY <2>1, <3>3
  <2> QED BY <1>22, <2>2, <2>3, Zenon DEF WriteFile
<1>23. CASE Rotate /\ UNCHANGED received
  BY <1>23 DEF Rotate, NodeStep
<1>24. CASE CreateFile /\ UNCHANGED received
  BY <1>24 DEF CreateFile, NodeStep
<1> QED BY <1>1, <1>2, <1>3, <1>4, <1>5, <1>6, <1>7, <1>8, <1>9, <1>10, <1>11, <1>12, <1>13, <1>14, <1>15, <1>16, <1>17, <1>18, <1>19, <1>20, <1>21, <1>22, <1>23, <1>24
       DEF WatcherSide, Loop, TailLoop, Node

-----------------------------------------------------------------------------
(* Steps of the file *)

FileStep ==
    /\ kind = "filelog"
    /\ Exit \/ FileFill \/ FileLine \/ TailLoop \/ WriteFile \/ Rotate \/ CreateFile
FilesKept ==
    /\ UNCHANGED <<tail, file, reading>>
    /\ \/ UNCHANGED written
       \/ kind # "filelog" /\ Len(written') = Len(written) + 1

\* A step that is not about a file leaves it and what was read of it.
LEMMA FileSteps ==
    ASSUME WatcherTypes, MonitorSide \/ WatcherSide
    PROVE  UNCHANGED kind /\ (FilesKept \/ FileStep)
<1> USE DEF channel, sources
<1>1. CASE MonitorSide
  BY <1>1 DEF MonitorSide, FilesKept
<1>2. CASE Watch \/ WatchFails \/ Send \/ KmsgReceive \/ KmsgClosed \/ KmsgAttempt
           \/ KmsgDelayPasses \/ JournaldRead \/ KmsgFails
  BY <1>2 DEF FilesKept, Watch, WatchFails, Send, KmsgReceive, KmsgClosed, KmsgAttempt,
              KmsgDelayPasses, JournaldRead, KmsgFails
<1>3. CASE WriteEntry
  <2>1. PICK e \in Entries[kind] : written' = Append(written, e)
    BY <1>3 DEF WriteEntry
  <2>2. e \in Entry
    BY DEF Entry, WatcherTypes
  <2>3. Len(written') = Len(written) + 1
    BY <2>1, <2>2, AppendProperties DEF WatcherTypes
  <2> QED BY <1>3, <2>3 DEF WriteEntry, NodeStep, FilesKept
<1>4. CASE StopWatching \/ FileError
  BY <1>4 DEF StopWatching, FileError, Exit, FilesKept, FileStep
<1>5. CASE FileFill \/ FileLine
  BY <1>5 DEF FileFill, FileLine, FileStep
<1>6. CASE TailLoop
  BY <1>6 DEF TailLoop, TailLock, TailOpen, TailGivesUp, TailWatch, TailRotated, TailStopped,
              TailStep, FileStep
<1>7. CASE WriteFile \/ Rotate \/ CreateFile
  BY <1>7, Zenon DEF WriteFile, Rotate, CreateFile, NodeStep, FileStep
<1> QED BY <1>1, <1>2, <1>3, <1>4, <1>5, <1>6, <1>7 DEF WatcherSide, Loop, Node

\* A piece is appended to the file under the path: the end of the last line, or a piece of
\* a new one.
Wrote(p) ==
    /\ UNCHANGED <<tail, reading>>
    /\ file' \in FileState
    /\ file'.now = file.now /\ file'.events = file.events /\ file'.hasty = file.hasty
    /\ file.now = Len(file.pieces) /\ Len(file'.pieces) = Len(file.pieces)
    /\ \A g \in 1 .. Len(file.pieces) : g # file.now => file'.pieces[g] = file.pieces[g]
    /\ Len(file'.pieces[file.now]) = Len(file.pieces[file.now]) + 1
    /\ \A k \in 1 .. Len(file.pieces[file.now]) :
          file'.pieces[file.now][k] = file.pieces[file.now][k]
    /\ file'.pieces[file.now][Len(file.pieces[file.now]) + 1] = p
    /\ \/ /\ Unfinished(file.pieces[file.now])
          /\ p.line = Len(written) /\ p.end /\ Len(written') = Len(written)
       \/ /\ ~Unfinished(file.pieces[file.now])
          /\ p.line = Len(written) + 1 /\ Len(written') = Len(written) + 1

\* The generations of the file are sequences of pieces.
LEMMA Generations ==
    ASSUME FileTypes, NEW g \in 1 .. Len(file.pieces)
    PROVE  /\ file.pieces[g] \in Seq(AnyPiece) /\ Len(file.pieces[g]) \in Nat
           /\ \A k \in 1 .. Len(file.pieces[g]) :
                 file.pieces[g][k] \in AnyPiece /\ file.pieces[g][k].line \in Nat
<1>1. file.pieces[g] \in Seq(AnyPiece)
  BY ElementOfSeq DEF FileTypes, TailState, FileState, ReadState
<1>2. \A k \in 1 .. Len(file.pieces[g]) : file.pieces[g][k] \in AnyPiece
  BY <1>1, ElementOfSeq
<1>3. Len(file.pieces[g]) \in Nat
  BY <1>1, LenProperties
<1> QED BY <1>1, <1>2, <1>3 DEF AnyPiece

LEMMA WriteFileWrote ==
    ASSUME WatcherTypes, FileTypes, LinesBounded, WriteFile
    PROVE  \E p \in AnyPiece : Wrote(p)
<1> DEFINE N == file.now
           old == file.pieces[N]
<1>1. N \in 1 .. Len(file.pieces) /\ N = Len(file.pieces) /\ Len(written) \in Nat
  BY LenProperties DEF FileTypes, TailState, FileState, ReadState, WatcherTypes, WriteFile, NoFile
<1>2. old \in Seq(AnyPiece)
  BY <1>1, Generations
<1>3. ASSUME NEW p \in AnyPiece, file' = [file EXCEPT !.pieces[N] = Append(@, p)],
             \/ Unfinished(old) /\ p.line = Len(written) /\ p.end /\ Len(written') = Len(written)
             \/ ~Unfinished(old) /\ p.line = Len(written) + 1 /\ Len(written') = Len(written) + 1
      PROVE  Wrote(p)
  <2> DEFINE new == Append(old, p)
             all == [file.pieces EXCEPT ![N] = new]
  <2>1. /\ new \in Seq(AnyPiece) /\ Len(new) = Len(old) + 1 /\ new[Len(old) + 1] = p
        /\ \A k \in 1 .. Len(old) : new[k] = old[k]
    BY <1>2, AppendProperties
  <2> HIDE DEF new
  <2>2. /\ all \in Seq(Seq(AnyPiece)) /\ Len(all) = Len(file.pieces)
        /\ \A g \in 1 .. Len(file.pieces) : all[g] = IF g = N THEN new ELSE file.pieces[g]
    BY <1>1, <2>1, ExceptSeq DEF FileTypes, TailState, FileState, ReadState
  <2>3. file' = [file EXCEPT !.pieces = all]
    BY <1>3, Zenon DEF new
  <2> HIDE DEF all
  <2>4. /\ file' \in FileState
        /\ file'.now = file.now /\ file'.events = file.events /\ file'.hasty = file.hasty
        /\ file'.pieces = all
    BY <2>2, <2>3, Zenon DEF FileTypes, TailState, FileState, ReadState
  <2>5. UNCHANGED <<tail, reading>>
    BY DEF WriteFile, NodeStep
  <2> QED BY <1>1, <1>3, <2>1, <2>2, <2>4, <2>5 DEF Wrote
<1>4. CASE Unfinished(old) /\ file' = [file EXCEPT !.pieces[N] = Append(@, Piece(Len(written), TRUE))]
           /\ UNCHANGED written
  <2>1. old # <<>>
    BY <1>4 DEF Unfinished
  <2>2. CASE Len(written) # 0
    <3>1. Piece(Len(written), TRUE) \in AnyPiece /\ Piece(Len(written), TRUE).line = Len(written)
          /\ Piece(Len(written), TRUE).end
      BY <1>1, <2>2 DEF Piece, AnyPiece
    <3> QED BY <1>3, <1>4, <3>1, Zenon
  <2>3. CASE Len(written) = 0
    <3>1. 1 \in 1 .. Len(old)
      BY <1>2, <2>1, EmptySeq
    <3>2. old[1] \in AnyPiece /\ old[1].line <= Len(written)
      BY <1>1, <1>2, <3>1, ElementOfSeq DEF LinesBounded, Bounded
    <3> QED BY <2>3, <3>2 DEF AnyPiece
  <2> QED BY <2>2, <2>3
<1>5. CASE /\ ~Unfinished(old)
           /\ \E e \in Entries[kind], end \in BOOLEAN :
                 /\ written' = Append(written, e)
                 /\ file' = [file EXCEPT !.pieces[N] = Append(@, Piece(Len(written) + 1, end))]
  <2>1. PICK e \in Entries[kind], end \in BOOLEAN :
                 /\ written' = Append(written, e)
                 /\ file' = [file EXCEPT !.pieces[N] = Append(@, Piece(Len(written) + 1, end))]
    BY <1>5, Zenon
  <2>2. e \in Entry
    BY DEF Entry, WatcherTypes
  <2>3. Len(written') = Len(written) + 1
    BY <2>1, <2>2, AppendProperties DEF WatcherTypes
  <2>4. Piece(Len(written) + 1, end) \in AnyPiece /\ Piece(Len(written) + 1, end).line = Len(written) + 1
    BY <1>1 DEF Piece, AnyPiece
  <2> QED BY <1>3, <1>5, <2>1, <2>3, <2>4
<1> QED BY <1>4, <1>5, Zenon DEF WriteFile

\* What Tail had not read of the file it has open is in the reader.
Filled ==
    /\ reading.pieces = <<>> /\ UNCHANGED <<written, file>>
    /\ tail.open \in 1 .. Len(file.pieces) /\ tail.pos < Len(file.pieces[tail.open])
    /\ tail' \in TailState
    /\ tail'.at = tail.at /\ tail'.open = tail.open /\ tail'.closed = tail.closed
    /\ tail'.pos = Len(file.pieces[tail.open])
    /\ reading' \in ReadState /\ reading'.buffer = reading.buffer
    /\ Len(reading'.pieces) = tail'.pos - tail.pos
    /\ \A i \in 1 .. Len(reading'.pieces) :
          /\ tail.pos + i \in 1 .. Len(file.pieces[tail.open])
          /\ reading'.pieces[i] = file.pieces[tail.open][tail.pos + i]

LEMMA FileFillFilled ==
    ASSUME FileTypes, FileFill
    PROVE  Filled
<1> DEFINE pieces == file.pieces[tail.open]
           m == tail.pos
           n == Len(pieces)
           rest == SubSeq(pieces, m + 1, n)
<1>1. tail.err = "nil" /\ ~tail.closed /\ m < n /\ reading.pieces = <<>>
  BY Zenon DEF FileFill, ReadResult, FileTypes, TailState, FileState, ReadState
<1>2. tail.open \in 1 .. Len(file.pieces) /\ m \in Nat
  BY <1>1, LenProperties DEF FileTypes, TailState, FileState, ReadState
<1>3. pieces \in Seq(AnyPiece) /\ n \in Nat /\ \A k \in 1 .. n : pieces[k] \in AnyPiece
  BY <1>2, Generations
<1>4. tail' = [tail EXCEPT !.pos = n] /\ reading' = [reading EXCEPT !.pieces = rest]
      /\ UNCHANGED <<written, file>>
  BY DEF FileFill
<1> HIDE DEF n, m, pieces
<1>5. \A k \in m + 1 .. n : pieces[k] \in AnyPiece
  BY <1>2, <1>3
<1>6. /\ rest \in Seq(AnyPiece) /\ Len(rest) = n - m
      /\ \A i \in 1 .. n - m : m + i \in 1 .. n /\ rest[i] = pieces[m + i]
  <2>1. m + 1 \in Int /\ n \in Int /\ m + 1 <= n /\ n - (m + 1) + 1 = n - m
    BY <1>1, <1>2, <1>3
  <2>2. /\ rest \in Seq(AnyPiece) /\ Len(rest) = IF m + 1 <= n THEN n - (m + 1) + 1 ELSE 0
        /\ \A i \in 1 .. n - (m + 1) + 1 : rest[i] = pieces[m + 1 + i - 1]
    BY <1>5, <2>1, SubSeqProperties
  <2>3. \A i \in 1 .. n - m : m + i \in 1 .. n /\ m + 1 + i - 1 = m + i
    BY <1>2, <1>3
  <2> HIDE DEF rest
  <2> QED BY <2>1, <2>2, <2>3
<1> HIDE DEF rest
<1>7. /\ tail' \in TailState
      /\ tail'.at = tail.at /\ tail'.open = tail.open /\ tail'.closed = tail.closed /\ tail'.pos = n
  BY <1>3, <1>4, Zenon DEF FileTypes, TailState, FileState, ReadState
<1>8. /\ reading' \in ReadState /\ reading'.buffer = reading.buffer
      /\ reading'.pieces = rest
  BY <1>4, <1>6, Zenon DEF FileTypes, TailState, FileState, ReadState
<1> QED BY <1>1, <1>2, <1>4, <1>6, <1>7, <1>8, SMTT(30) DEF Filled, n, m, pieces

\* The first piece of the reader is the end of a line, which may be delivered, or waits in
\* buffer.
Joining == Append(reading.buffer, reading.pieces[1])
TookPiece ==
    /\ UNCHANGED <<written, tail, file>>
    /\ reading.pieces # <<>> /\ reading.pieces[1] \in AnyPiece /\ 1 \in 1 .. Len(reading.pieces)
    /\ reading' \in ReadState
    /\ Len(reading'.pieces) = Len(reading.pieces) - 1
    /\ \A i \in 1 .. Len(reading'.pieces) :
          i + 1 \in 1 .. Len(reading.pieces) /\ reading'.pieces[i] = reading.pieces[i + 1]
    /\ Joining \in Seq(AnyPiece) /\ Len(Joining) = Len(reading.buffer) + 1
    /\ Joining[Len(reading.buffer) + 1] = reading.pieces[1]
    /\ \A i \in 1 .. Len(reading.buffer) : Joining[i] = reading.buffer[i]
    /\ IF reading.pieces[1].end
       THEN /\ reading'.buffer = <<>>
            /\ UNCHANGED inHand \/ (watcher' = "send" /\ inHand' = <<LineOf(Joining)>>)
       ELSE reading'.buffer = Joining /\ UNCHANGED inHand

LEMMA FileLineTookPiece ==
    ASSUME FileTypes, FileLine
    PROVE  TookPiece
<1> DEFINE p == reading.pieces
           b == reading.buffer
           x == p[1]
           rest == Tail(p)
           all == Append(b, x)
<1>1. p \in Seq(AnyPiece) /\ b \in Seq(AnyPiece) /\ p # <<>>
  BY DEF FileTypes, TailState, FileState, ReadState, FileLine
<1>2. Len(p) \in Nat \ {0} /\ Len(b) \in Nat
  BY <1>1, EmptySeq, LenProperties
<1>3. x \in AnyPiece /\ Head(p) = x /\ 1 \in 1 .. Len(p)
  BY <1>1, <1>2, ElementOfSeq
<1>4. /\ rest \in Seq(AnyPiece) /\ Len(rest) = Len(p) - 1
      /\ \A i \in 1 .. Len(rest) : rest[i] = p[i + 1]
  BY <1>1, HeadTailProperties
<1>5. \A i \in 1 .. Len(rest) : i + 1 \in 1 .. Len(p)
  BY <1>2, <1>4
<1>6. /\ all \in Seq(AnyPiece) /\ Len(all) = Len(b) + 1 /\ all[Len(b) + 1] = x
      /\ \A i \in 1 .. Len(b) : all[i] = b[i]
  BY <1>1, <1>3, AppendProperties, SMTT(30)
<1>7. /\ reading' = [pieces |-> rest, buffer |-> IF x.end THEN <<>> ELSE all]
      /\ IF x.end /\ Passes(written[all[1].line]) /\ written[x.line].class # "skip"
         THEN watcher' = "send" /\ inHand' = <<LineOf(all)>>
         ELSE UNCHANGED <<watcher, inHand>>
      /\ UNCHANGED <<written, tail, file>>
  BY <1>3 DEF FileLine
<1> HIDE DEF rest, all, x
<1>8. reading'.pieces = rest /\ reading'.buffer = IF x.end THEN <<>> ELSE all
  BY <1>7, SMTT(30)
<1>9. reading' \in ReadState
  <2>1. (IF x.end THEN <<>> ELSE all) \in Seq(AnyPiece)
    BY <1>6, EmptySeq
  <2> QED BY <1>4, <1>7, <2>1 DEF ReadState
<1>10. Joining = all
  BY DEF Joining, all, x
<1> HIDE DEF p, b
<1> QED BY <1>1, <1>3, <1>4, <1>5, <1>6, <1>7, <1>8, <1>9, <1>10 DEF TookPiece, p, b, x

\* The path names no file, and then a new one.
LEMMA RotateEffect ==
    ASSUME FileTypes, Rotate
    PROVE  /\ UNCHANGED <<written, tail, reading>>
           /\ file.now = Len(file.pieces) /\ ~Unfinished(file.pieces[file.now])
           /\ file' \in FileState
           /\ file'.now = NoFile /\ file'.pieces = file.pieces
           /\ file'.events = IF tail.at = "watching" THEN file.events + 1 ELSE file.events
           /\ file'.hasty = (file.hasty \/ file.events > 0)
<1>1. (file.hasty \/ file.events > 0) \in BOOLEAN
  OBVIOUS
<1>2. (IF tail.at = "watching" THEN file.events + 1 ELSE file.events) \in Nat
  BY DEF FileTypes, TailState, FileState, ReadState
<1> QED BY <1>1, <1>2, Zenon DEF FileTypes, TailState, FileState, ReadState, Rotate, NodeStep, NoFile

LEMMA CreateEffect ==
    ASSUME FileTypes, CreateFile
    PROVE  /\ UNCHANGED <<written, tail, reading>>
           /\ file.now = NoFile
           /\ file' \in FileState
           /\ file'.now = Len(file.pieces) + 1 /\ Len(file'.pieces) = Len(file.pieces) + 1
           /\ file'.events = file.events /\ file'.hasty = file.hasty
           /\ \A g \in 1 .. Len(file.pieces) : file'.pieces[g] = file.pieces[g]
           /\ file'.pieces[Len(file.pieces) + 1] = <<>>
<1> DEFINE all == Append(file.pieces, <<>>)
<1>1. <<>> \in Seq(AnyPiece)
  BY EmptySeq
<1>2. /\ all \in Seq(Seq(AnyPiece)) /\ Len(all) = Len(file.pieces) + 1
      /\ \A g \in 1 .. Len(file.pieces) : all[g] = file.pieces[g]
      /\ all[Len(file.pieces) + 1] = <<>>
  BY <1>1, AppendProperties DEF FileTypes, TailState, FileState, ReadState
<1>3. /\ file' = [file EXCEPT !.now = Len(file.pieces) + 1, !.pieces = all] /\ file.now = NoFile
      /\ UNCHANGED <<written, tail, reading>>
  BY DEF CreateFile, NodeStep
<1> HIDE DEF all
<1>4. Len(file.pieces) + 1 \in Nat
  BY LenProperties, SMTT(30) DEF FileTypes, TailState, FileState, ReadState
<1> QED BY <1>2, <1>3, <1>4, Zenon DEF FileTypes, TailState, FileState, ReadState

-----------------------------------------------------------------------------
(* The invariant of the file *)

\* Tail does not touch the pieces of the file, and what it opens is there.
LEMMA TailEffect ==
    ASSUME FileTypes, TailLoop
    PROVE  /\ UNCHANGED <<written, reading>>
           /\ tail' \in TailState
           /\ file' \in FileState
           /\ file'.now = file.now /\ file'.pieces = file.pieces /\ file'.hasty = file.hasty
           /\ \/ /\ tail.at = "open" /\ tail'.at = "opened" /\ file.now # NoFile
                 /\ tail'.open = file.now /\ tail'.pos = 0 /\ UNCHANGED file
              \/ /\ tail'.open = tail.open /\ tail'.pos = tail.pos
                 /\ \/ <<tail.at, tail'.at>> \in {<<"start", "open">>, <<"open", "ended">>}
                       /\ tail'.closed = tail.closed /\ UNCHANGED file
                    \/ tail.at \in {"opened", "watching"} /\ tail'.at \in {"watching", "ended"}
                       /\ UNCHANGED file
                    \/ tail.at = "watching" /\ tail'.at = "start" /\ tail'.closed
                       /\ file'.events \in {0, 1} /\ file'.events < file.events
<1> USE DEF TailStep, FileTypes, TailState, FileState, NoFile
<1>1. CASE TailLock
  BY <1>1, Zenon DEF TailLock
<1>2. CASE TailOpen
  BY <1>2, Zenon DEF TailOpen
<1>3. CASE TailGivesUp
  <2>1. (IF tail.stop THEN "eof" ELSE "err") \in {"nil", "eof", "err"}
    OBVIOUS
  <2> QED BY <1>3, <2>1, Zenon DEF TailGivesUp
<1>4. CASE TailWatch
  BY <1>4, Zenon DEF TailWatch
<1>5. CASE TailRotated
  <2>1. PICK left \in {0, 1} : left < file.events /\ file' = [file EXCEPT !.events = left]
    BY <1>5, Zenon DEF TailRotated
  <2>2. left \in Nat
    OBVIOUS
  <2>3. /\ file' \in FileState
        /\ file'.now = file.now /\ file'.pieces = file.pieces /\ file'.hasty = file.hasty
        /\ file'.events = left
    BY <2>1, <2>2, Zenon
  <2>4. /\ tail.at = "watching" /\ tail' = [tail EXCEPT !.at = "start", !.closed = TRUE]
        /\ UNCHANGED <<written, reading>>
    BY <1>5 DEF TailRotated
  <2>5. /\ tail' \in TailState
        /\ tail'.at = "start" /\ tail'.closed /\ tail'.open = tail.open /\ tail'.pos = tail.pos
    BY <2>4, Zenon
  <2> QED BY <2>1, <2>3, <2>4, <2>5
<1>6. CASE TailStopped
  BY <1>6, Zenon DEF TailStopped
<1> QED BY <1>1, <1>2, <1>3, <1>4, <1>5, <1>6 DEF TailLoop

\* The end of the watch leaves the file and the reader's place in it.
LEMMA ExitEffect ==
    ASSUME FileTypes, Exit
    PROVE  /\ UNCHANGED <<written, file, reading>>
           /\ tail' \in TailState
           /\ tail'.at = tail.at /\ tail'.open = tail.open /\ tail'.pos = tail.pos
           /\ tail'.closed = tail.closed
BY Zenon DEF Exit, FileTypes, TailState

\* What the types say of the fields.
LEMMA Fields ==
    ASSUME FileTypes
    PROVE  /\ tail.open \in 0 .. Len(file.pieces) /\ tail.pos \in Nat
           /\ file.now \in Nat /\ file.events \in Nat
           /\ Len(file.pieces) \in Nat /\ Len(reading.pieces) \in Nat /\ Len(reading.buffer) \in Nat
           /\ file.pieces \in Seq(Seq(AnyPiece))
           /\ reading.pieces \in Seq(AnyPiece) /\ reading.buffer \in Seq(AnyPiece)
           /\ \A i \in 1 .. Len(reading.pieces) :
                 reading.pieces[i] \in AnyPiece /\ reading.pieces[i].line \in Nat
           /\ \A i \in 1 .. Len(reading.buffer) :
                 reading.buffer[i] \in AnyPiece /\ reading.buffer[i].line \in Nat
<1>1. /\ tail.open \in Nat /\ tail.pos \in Nat /\ file.now \in Nat /\ file.events \in Nat
      /\ file.pieces \in Seq(Seq(AnyPiece)) /\ tail.open <= Len(file.pieces)
      /\ reading.pieces \in Seq(AnyPiece) /\ reading.buffer \in Seq(AnyPiece)
  BY DEF FileTypes, TailState, FileState, ReadState
<1>2. Len(file.pieces) \in Nat /\ Len(reading.pieces) \in Nat /\ Len(reading.buffer) \in Nat
  BY <1>1, LenProperties
<1>3. /\ \A i \in 1 .. Len(reading.pieces) : reading.pieces[i] \in AnyPiece
      /\ \A i \in 1 .. Len(reading.buffer) : reading.buffer[i] \in AnyPiece
  BY <1>1, ElementOfSeq
<1> QED BY <1>1, <1>2, <1>3, SMTT(30) DEF AnyPiece

\* Steps keep Tail's place in the file.
LEMMA FileTypesStep ==
    ASSUME WatcherTypes, FileTypes, LinesBounded, MonitorSide \/ WatcherSide
    PROVE  FileTypes'
<1>0. /\ tail.open \in 0 .. Len(file.pieces) /\ tail.pos \in Nat /\ Len(file.pieces) \in Nat
      /\ Len(file.pieces) >= 1
  BY Fields DEF FileTypes
<1>1. CASE FilesKept
  BY <1>1 DEF FilesKept, FileTypes
<1>2. CASE Exit
  BY <1>2, ExitEffect DEF FileTypes
<1>3. CASE FileFill
  <2>1. Filled
    BY <1>3, FileFillFilled
  <2>2. tail.open # 0 /\ Len(file.pieces[tail.open]) \in Nat
    BY <1>0, <2>1, Generations DEF Filled
  <2> QED BY <2>1, <2>2 DEF Filled, FileTypes
<1>4. CASE FileLine
  <2>1. TookPiece
    BY <1>4, FileLineTookPiece
  <2>2. tail.open # 0
    BY <2>1 DEF TookPiece, FileTypes
  <2> QED BY <2>1, <2>2 DEF TookPiece, FileTypes
<1>5. CASE TailLoop
  <2>1. CASE tail'.open = file.now /\ file.now # NoFile /\ tail'.pos = 0
    <3>1. tail'.open = Len(file.pieces) /\ Len(file.pieces[tail'.open]) \in Nat
      BY <1>0, <2>1, Generations DEF FileTypes
    <3> QED BY <1>0, <1>5, <2>1, <3>1, TailEffect DEF FileTypes, NoFile
  <2>2. CASE tail'.open = tail.open /\ tail'.pos = tail.pos
    BY <1>0, <1>5, <2>2, TailEffect DEF FileTypes, NoFile
  <2> QED BY <1>5, <2>1, <2>2, TailEffect
<1>6. CASE WriteFile
  <2>1. PICK p \in AnyPiece : Wrote(p)
    BY <1>6, WriteFileWrote
  <2>2. ASSUME tail.open >= 1
        PROVE  tail.pos <= Len(file'.pieces[tail.open])
    <3>1. tail.open \in 1 .. Len(file.pieces)
      BY <1>0, <2>2
    <3>2. Len(file.pieces[tail.open]) \in Nat /\ tail.pos <= Len(file.pieces[tail.open])
      BY <3>1, <2>2, Generations DEF FileTypes
    <3>3. Len(file'.pieces[tail.open]) \in {Len(file.pieces[tail.open]), Len(file.pieces[tail.open]) + 1}
      BY <2>1, <3>1, Zenon DEF Wrote
    <3> DEFINE old == Len(file.pieces[tail.open])
               new == Len(file'.pieces[tail.open])
               m == tail.pos
    <3>4. m \in Nat /\ old \in Nat /\ m <= old /\ (new = old \/ new = old + 1)
      BY <1>0, <3>2, <3>3, Zenon
    <3> HIDE DEF old, new, m
    <3>5. m <= new
      BY <3>4
    <3> QED BY <3>5 DEF new, m
  <2> QED BY <2>1, <2>2 DEF Wrote, FileTypes
<1>7. CASE Rotate
  <2>1. tail.at = "watching" => tail.open # 0
    BY DEF FileTypes
  <2> QED BY <1>7, <2>1, RotateEffect DEF FileTypes
<1>8. CASE CreateFile
  <2>1. tail.open >= 1 => tail.open \in 1 .. Len(file.pieces)
    BY <1>0
  <2>2. tail.open <= Len(file'.pieces) /\ Len(file'.pieces) >= 1
    BY <1>0, <1>8, CreateEffect
  <2>3. tail.open >= 1 => tail.pos <= Len(file'.pieces[tail.open])
    BY <1>8, <2>1, CreateEffect, SMTT(30) DEF FileTypes
  <2> QED BY <1>8, <2>2, <2>3, CreateEffect DEF FileTypes
<1> QED BY <1>1, <1>2, <1>3, <1>4, <1>5, <1>6, <1>7, <1>8, FileSteps DEF FileStep

\* Steps keep pieces to lines that were written.
LEMMA LinesBoundedStep ==
    ASSUME WatcherTypes, FileTypes, LinesBounded, MonitorSide \/ WatcherSide
    PROVE  LinesBounded'
<1> USE DEF LinesBounded, Bounded
<1>0. Len(file.pieces) \in Nat /\ Len(written) \in Nat /\ Len(reading.buffer) \in Nat
  BY Fields, LenProperties DEF WatcherTypes
<1>a. /\ \A i \in 1 .. Len(reading.pieces) : reading.pieces[i].line \in Nat
      /\ \A i \in 1 .. Len(reading.buffer) : reading.buffer[i].line \in Nat
  BY Fields
<1>b. \A g \in 1 .. Len(file.pieces) : \A k \in 1 .. Len(file.pieces[g]) : file.pieces[g][k].line \in Nat
  BY Generations
<1>1. CASE FilesKept
  BY <1>0, <1>1, <1>a, <1>b, SMTT(30) DEF FilesKept
<1>2. CASE Exit
  BY <1>2, ExitEffect
<1>3. CASE FileFill
  BY <1>3, FileFillFilled, Zenon DEF Filled
<1>4. CASE FileLine
  <2>1. TookPiece
    BY <1>4, FileLineTookPiece
  <2>2. reading'.buffer \in {<<>>, Joining}
    BY <2>1 DEF TookPiece
  <2>3. ASSUME NEW i \in 1 .. Len(Joining) PROVE Joining[i].line <= Len(written)
    <3>1. i \in 1 .. Len(reading.buffer) \/ i = Len(reading.buffer) + 1
      BY <1>0, <2>1 DEF TookPiece
    <3> QED BY <2>1, <3>1 DEF TookPiece
  <2>4. \A i \in 1 .. Len(reading'.buffer) : reading'.buffer[i].line <= Len(written)
    <3>1. Len(<<>>) = 0
      OBVIOUS
    <3> QED BY <2>2, <2>3, <3>1
  <2> QED BY <2>1, <2>4, Zenon DEF TookPiece
<1>5. CASE TailLoop
  BY <1>5, TailEffect
<1>6. CASE WriteFile
  <2>1. PICK p \in AnyPiece : Wrote(p)
    BY <1>6, WriteFileWrote
  <2>2. p.line <= Len(written') /\ Len(written) <= Len(written') /\ Len(written') \in Nat
    BY <1>0, <2>1 DEF Wrote, AnyPiece
  <2>3. ASSUME NEW g \in 1 .. Len(file.pieces), NEW k \in 1 .. Len(file'.pieces[g])
        PROVE  file'.pieces[g][k].line <= Len(written')
    <3>1. CASE g # file.now
      BY <1>0, <1>b, <2>1, <2>2, <3>1, SMTT(30) DEF Wrote
    <3>2. CASE g = file.now
      <4>1. Len(file.pieces[g]) \in Nat
        BY Generations
      <4>2. k \in 1 .. Len(file.pieces[g]) \/ k = Len(file.pieces[g]) + 1
        BY <2>1, <3>2, <4>1 DEF Wrote
      <4>3. CASE k \in 1 .. Len(file.pieces[g])
        <5>1. file'.pieces[g][k] = file.pieces[g][k]
          BY <2>1, <3>2, <4>3 DEF Wrote
        <5>2. file.pieces[g][k].line \in Nat /\ file.pieces[g][k].line <= Len(written)
          BY <1>b, <4>3
        <5> QED BY <1>0, <2>2, <5>1, <5>2
      <4>4. CASE k = Len(file.pieces[g]) + 1
        BY <2>1, <2>2, <3>2, <4>4 DEF Wrote
      <4> QED BY <4>2, <4>3, <4>4
    <3> QED BY <3>1, <3>2
  <2> QED BY <1>0, <1>a, <2>1, <2>2, <2>3 DEF Wrote
<1>7. CASE Rotate
  BY <1>7, RotateEffect
<1>8. CASE CreateFile
  <2>1. ASSUME NEW g \in 1 .. Len(file'.pieces), NEW k \in 1 .. Len(file'.pieces[g])
        PROVE  file'.pieces[g][k].line <= Len(written)
    <3>1. g \in 1 .. Len(file.pieces) \/ g = Len(file.pieces) + 1
      BY <1>0, <1>8, CreateEffect
    <3>2. CASE g \in 1 .. Len(file.pieces)
      BY <1>8, <3>2, CreateEffect
    <3>3. CASE g = Len(file.pieces) + 1
      <4>1. Len(file'.pieces[g]) = 0
        BY <1>8, <3>3, CreateEffect
      <4> QED BY <4>1
    <3> QED BY <3>1, <3>2, <3>3
  <2> QED BY <1>8, <2>1, CreateEffect
<1> QED BY <1>1, <1>2, <1>3, <1>4, <1>5, <1>6, <1>7, <1>8, FileSteps DEF FileStep

LEMMA FileOnlyStep ==
    ASSUME WatcherTypes, FileOnly, MonitorSide \/ WatcherSide
    PROVE  FileOnly'
BY FileSteps DEF FileOnly, FileStep, FilesKept

\* Steps keep the pace of restarts.
LEMMA PacedStep ==
    ASSUME WatcherTypes, Paced, MonitorSide \/ WatcherSide
    PROVE  Paced'
<1> USE DEF channel, sources
<1>1. CASE UNCHANGED <<parser, watcher>>
  BY <1>1 DEF Paced
<1>2. CASE Watch
  <2>1. parser' \in ParserState /\ parser'.attempts = parser.attempts /\ (parser.recent => parser'.recent)
    <3>1. CASE parser' = [parser EXCEPT !.state = "open", !.opened = 1]
      BY <3>1, Zenon DEF Paced, ParserState
    <3> QED BY <1>2, <3>1 DEF Watch, Paced
  <2> QED BY <1>2, <2>1 DEF Watch, Paced
<1>c. ASSUME parser' = [parser EXCEPT !.state = "nil", !.closed = @ + 1]
      PROVE  /\ parser' \in ParserState /\ parser'.attempts = parser.attempts
             /\ parser'.recent = parser.recent
  <2> DEFINE c == parser.closed + 1
  <2>1. c \in Nat /\ parser' = [parser EXCEPT !.state = "nil", !.closed = c]
    BY <1>c DEF Paced, ParserState
  <2> HIDE DEF c
  <2> QED BY <2>1, Zenon DEF Paced, ParserState
<1>3. CASE Exit
  <2>1. parser' \in ParserState /\ parser'.attempts = parser.attempts
    BY <1>3, <1>c DEF Exit, Paced
  <2> QED BY <1>3, <2>1 DEF Exit, Paced
<1>4. CASE KmsgFails \/ KmsgClosed
  <2>1. parser' \in ParserState /\ parser'.attempts = parser.attempts /\ (parser.recent => parser'.recent)
    <3>1. CASE parser' = [parser EXCEPT !.failed = TRUE]
      BY <3>1, Zenon DEF Paced, ParserState
    <3> QED BY <1>4, <1>c, <3>1 DEF KmsgFails, KmsgClosed
  <2>2. parser.attempts \in {0, 1}
    BY DEF Paced, ParserState
  <2>3. CASE KmsgFails
    BY <2>1, <2>3 DEF KmsgFails, Paced
  <2>4. CASE KmsgClosed
    BY <2>1, <2>2, <2>4 DEF KmsgClosed, Paced
  <2> QED BY <1>4, <2>3, <2>4
<1>5. CASE KmsgAttempt
  <2>1. parser \in ParserState /\ parser.attempts = 0
    BY <1>5 DEF KmsgAttempt, Paced
  <2> DEFINE p == Attempted
             o == p.opened + 1
             c == p.closed + 1
  <2>2. p \in ParserState /\ p.attempts = 1
    <3>1. p = [parser EXCEPT !.attempts = 1]
      BY <2>1 DEF Attempted, ParserState
    <3> QED BY <2>1, <3>1 DEF ParserState
  <2> HIDE DEF p
  <2>3. o \in Nat /\ c \in Nat
    BY <2>2 DEF ParserState
  <2>4. CASE watcher' = "wait" /\ parser' \in {p, [p EXCEPT !.opened = o, !.closed = c]}
    <3> HIDE DEF o, c
    <3>1. parser' \in ParserState /\ parser'.attempts = 1
      BY <2>2, <2>3, <2>4, Zenon DEF ParserState
    <3> QED BY <2>4, <3>1 DEF Paced
  <2>5. CASE /\ watcher' = "loop"
             /\ parser' = [p EXCEPT !.state = "open", !.failed = FALSE, !.opened = o, !.recent = TRUE]
    <3> HIDE DEF o, c
    <3>1. parser' \in ParserState /\ parser'.recent /\ parser'.attempts = 1
      BY <2>2, <2>3, <2>5, Zenon DEF ParserState
    <3> QED BY <2>5, <3>1 DEF Paced
  <2> QED BY <1>5, <2>4, <2>5 DEF KmsgAttempt, p
<1>6. CASE KmsgDelayPasses
  <2>1. parser' \in ParserState /\ parser'.attempts = 0
    BY <1>6, Zenon DEF KmsgDelayPasses, Paced, ParserState
  <2> QED BY <2>1 DEF Paced
<1>7. CASE UNCHANGED parser /\ watcher \in {"off", "loop", "send"} /\ watcher' \in {"loop", "send", "failed"}
  BY <1>7 DEF Paced
<1>8. \/ UNCHANGED <<parser, watcher>> \/ Watch \/ Exit \/ KmsgFails \/ KmsgClosed \/ KmsgAttempt
      \/ KmsgDelayPasses
      \/ (UNCHANGED parser /\ watcher \in {"off", "loop", "send"} /\ watcher' \in {"loop", "send", "failed"})
  <2>1. CASE MonitorSide \/ WatchFails
    BY <2>1 DEF MonitorSide, WatchFails
  <2>2. CASE StopWatching \/ FileError
    BY <2>2 DEF StopWatching, FileError
  <2>3. CASE Send \/ KmsgReceive \/ JournaldRead
    BY <2>3 DEF Send, KmsgReceive, JournaldRead, Take
  <2>4. CASE FileFill \/ FileLine
    BY <2>4 DEF FileFill, FileLine
  <2>5. CASE TailLoop
    BY <2>5 DEF TailLoop, TailLock, TailOpen, TailGivesUp, TailWatch, TailRotated, TailStopped, TailStep
  <2>6. CASE WriteEntry \/ WriteFile \/ Rotate \/ CreateFile
    BY <2>6, Zenon DEF WriteEntry, WriteFile, Rotate, CreateFile, NodeStep
  <2> QED BY <2>1, <2>2, <2>3, <2>4, <2>5, <2>6 DEF WatcherSide, Loop, Node
<1> QED BY <1>1, <1>2, <1>3, <1>4, <1>5, <1>6, <1>7, <1>8

-----------------------------------------------------------------------------
(* The state of the monitor *)

Working == {"stamp", "status", "reason", "send"}
Places == {"new", "failed", "initialize", "receive", "match", "stopping", "done", "initial",
           "stamp", "status", "reason", "send"}
MonitorState == [at : Places, rule : Nat, matched : Seq(AnyLog), event : BOOLEAN]
Condition == [type : STRING, status : BOOLEAN, reason : STRING, transition : Nat]
RuledTypes == {Rules[r].condition : r \in DOMAIN Rules}
Telling == Nat \X Nat

\* monitorLoop works on one rule after the other, for a match of its pattern.
MonitorTypes ==
    /\ monitor \in MonitorState /\ exported \in Seq(MonitorState) /\ output \in Seq(MonitorState)
    /\ conditions \in Seq(Condition)
    /\ counted \in [Reasons -> Nat]
    /\ gauge \in [RuledTypes -> Reasons \cup {"none"}]
    /\ monitor.at # "initial" /\ (monitor.at = "match" => monitor.rule \in 1 .. Len(Rules) + 1)
    /\ monitor.at \in Working => monitor.rule \in 1 .. Len(Rules) /\ monitor.matched # <<>>
    /\ monitor.at \in {"status", "reason"} => ConditionOf(Rules[monitor.rule]) # 0
    /\ monitor.at \in {"match"} \cup Working => received # <<>>

\* Unless a status waits for it, the exporter has read what the monitor holds: the
\* conditions before the one it copies, and that one since the copy began.
Settled ==
    /\ copying \in Nat
    /\ /\ output = <<>> /\ exported # <<>> /\ settings.updateConditions
       /\ monitor.at \in {"receive", "match", "stamp", "stopping", "done"}
       => /\ copying # 0 => values = {conditions[copying]}
          /\ \A i \in DOMAIN conditions : copying = 0 \/ i < copying => seen[i] = {conditions[i]}

\* ConditionOf, for any conditions.
First(cs, type) ==
    LET is == {i \in DOMAIN cs : cs[i].type = type}
    IN  IF is = {} THEN 0 ELSE Min(is)

-----------------------------------------------------------------------------
(* Steps of the monitor *)

\* A step that changes the monitor is one of these.
LEMMA MonitorSteps ==
    ASSUME [Next]_vars
    PROVE  \/ Start \/ Stop \/ InitializeStatus \/ Receive \/ MatchRule \/ Stamp \/ SetStatus
           \/ SetReason \/ SendStatus \/ LogsClosed \/ StopWatcher \/ WatcherStopped \/ Export
           \/ ExportCondition \/ UNCHANGED monitorVars
BY DEF Next, MonitorLoop, vars

\* What the steps of generateStatus leave alone,
LEMMA WriteLeaves ==
    ASSUME Stamp \/ SetStatus \/ SetReason
    PROVE  UNCHANGED <<settings, exported, copying, seen>>
BY Zenon DEF Stamp, SetStatus, SetReason, Stored, exporter

\* what the copy of a condition does,
LEMMA CopyLeaves ==
    ASSUME ExportCondition
    PROVE  UNCHANGED <<buffer, conditions, monitor, output, received, settings, exported, counted, gauge>>
BY Zenon DEF ExportCondition, MonitorOnly, metrics

\* and what every step does.
LEMMA SettingsFixed ==
    ASSUME [Next]_vars
    PROVE  settings' = settings
<1>1. CASE Start \/ Stop \/ InitializeStatus \/ Receive \/ MatchRule \/ SendStatus
  BY <1>1, Zenon DEF Start, Stop, InitializeStatus, Receive, MatchRule, SendStatus, exporter
<1>2. CASE LogsClosed \/ StopWatcher \/ WatcherStopped \/ UNCHANGED monitorVars
  BY <1>2, Zenon DEF LogsClosed, StopWatcher, WatcherStopped, Finish, monitorVars, exporter
<1>3. CASE Export
  BY <1>3, Zenon DEF Export
<1> QED BY <1>1, <1>2, <1>3, WriteLeaves, CopyLeaves, MonitorSteps, Zenon

LEMMA RuleFacts ==
    /\ DOMAIN Rules = 1 .. Len(Rules) /\ Len(Rules) \in Nat
    /\ \A r \in 1 .. Len(Rules) :
          /\ Rules[r].perm \in BOOLEAN /\ Rules[r].condition \in STRING /\ Rules[r].reason \in STRING
          /\ Rules[r].pattern \in Seq(Alternative)
          /\ Rules[r].condition \in RuledTypes /\ Rules[r].reason \in Reasons
<1> DEFINE R == [perm : BOOLEAN, condition : STRING, reason : STRING, pattern : Seq(Alternative)]
<1>1. Rules \in Seq(R)
  BY RulesAssumption
<1> HIDE DEF R
<1>2. DOMAIN Rules = 1 .. Len(Rules) /\ Len(Rules) \in Nat
  BY <1>1, LenProperties
<1>3. \A r \in 1 .. Len(Rules) : Rules[r] \in R
  BY <1>1, ElementOfSeq
<1> QED BY <1>2, <1>3, Zenon DEF R, RuledTypes, Reasons

\* The condition at i changes, but not its type.
OneSet(cs, ds, i) ==
    /\ ds \in Seq(Condition) /\ Len(ds) = Len(cs)
    /\ \A j \in 1 .. Len(cs) : ds[j].type = cs[j].type /\ (j # i => ds[j] = cs[j])

LEMMA SetOne ==
    ASSUME NEW cs \in Seq(Condition), NEW i \in 1 .. Len(cs), NEW c \in Condition,
           c.type = cs[i].type, NEW ds, ds = [cs EXCEPT ![i] = c]
    PROVE  OneSet(cs, ds, i) /\ ds[i] = c
<1> DEFINE n == Len(cs)
<1>1. n \in Nat /\ cs \in [1 .. n -> Condition]
  BY LenProperties
<1> HIDE DEF n
<1>2. ds \in [1 .. n -> Condition] /\ ds[i] = c /\ \A j \in 1 .. n : j # i => ds[j] = cs[j]
  BY <1>1 DEF n
<1>3. ds \in Seq(Condition) /\ Len(ds) = n
  BY <1>1, <1>2, SeqDef, LenProperties
<1> QED BY <1>2, <1>3 DEF OneSet, n

LEMMA FirstSame ==
    ASSUME NEW cs \in Seq(Condition), NEW ds, NEW k, OneSet(cs, ds, k), NEW type
    PROVE  First(ds, type) = First(cs, type)
<1>1. DOMAIN cs = 1 .. Len(cs) /\ DOMAIN ds = 1 .. Len(cs)
  BY LenProperties DEF OneSet
<1>2. {i \in DOMAIN ds : ds[i].type = type} = {i \in DOMAIN cs : cs[i].type = type}
  BY <1>1 DEF OneSet
<1> QED BY <1>2, Zenon DEF First

\* Where a step of generateStatus leaves the monitor.
LEMMA MovesTo ==
    ASSUME monitor \in MonitorState, NEW at \in Places, NEW event \in BOOLEAN,
           monitor' = [monitor EXCEPT !.event = event, !.at = at]
    PROVE  /\ monitor' \in MonitorState /\ monitor'.at = at /\ monitor'.event = event
           /\ monitor'.rule = monitor.rule /\ monitor'.matched = monitor.matched
BY Zenon DEF MonitorState

LEMMA MovesOnTo ==
    ASSUME monitor \in MonitorState, NEW at \in Places, monitor' = [monitor EXCEPT !.at = at]
    PROVE  /\ monitor' \in MonitorState /\ monitor'.at = at /\ monitor'.event = monitor.event
           /\ monitor'.rule = monitor.rule /\ monitor'.matched = monitor.matched
BY DEF MonitorState

\* The rule at work goes on to have a condition.
LEMMA ConditionStays ==
    ASSUME MonitorTypes, NEW k, OneSet(conditions, conditions', k), NEW rule
    PROVE  First(conditions', rule.condition) = ConditionOf(rule)
<1>1. conditions \in Seq(Condition)
  BY DEF MonitorTypes
<1>2. First(conditions', rule.condition) = First(conditions, rule.condition)
  BY <1>1, FirstSame
<1> QED BY <1>2 DEF First, ConditionOf

LEMMA CountedTypes ==
    ASSUME MonitorTypes, monitor.at \in Working, NEW event, Counted(event)
    PROVE  counted' \in [Reasons -> Nat]
<1>1. Rules[monitor.rule].reason \in Reasons
  BY RuleFacts DEF MonitorTypes
<1> DEFINE r == Rules[monitor.rule].reason
<1> HIDE DEF r
<1>2. counted' = counted \/ counted' = [counted EXCEPT ![r] = @ + 1]
  BY DEF Counted, r
<1> QED BY <1>1, <1>2 DEF MonitorTypes, r

LEMMA SettledStep ==
    ASSUME MonitorTypes, Settled, [Next]_vars
    PROVE  Settled'
<1>t. monitor \in MonitorState /\ output \in Seq(MonitorState) /\ conditions \in Seq(Condition)
  BY DEF MonitorTypes
<1>c. copying \in Nat /\ DOMAIN conditions = 1 .. Len(conditions) /\ Len(conditions) \in Nat
  BY <1>t, LenProperties DEF Settled
<1>1. CASE Start
  BY <1>1 DEF Start, At, Settled, exporter
<1>2. CASE Stop \/ UNCHANGED monitorVars
  <2>1. UNCHANGED <<conditions, monitor, output, exporter>>
    BY <1>2, Zenon DEF Stop, monitorVars
  <2> QED BY <2>1 DEF Settled, exporter
<1>3. CASE InitializeStatus \/ SendStatus
  <2>1. PICK m : output' = Append(output, m)
    BY <1>3 DEF InitializeStatus, SendStatus
  <2>2. output' # <<>> /\ copying' = copying
    BY <1>t, <1>3, <2>1 DEF InitializeStatus, SendStatus, exporter
  <2> QED BY <1>c, <2>2 DEF Settled
<1>4. CASE Receive \/ MatchRule
  <2>1. UNCHANGED <<conditions, output, exporter>> /\ monitor.at \in {"receive", "match"}
    BY <1>4 DEF Receive, MatchRule
  <2> QED BY <2>1 DEF Settled, exporter
<1>5. CASE Stamp
  <2>1. monitor'.at \in {"status", "send"}
    BY <1>5, <1>t DEF Stamp, MonitorState
  <2> QED BY <1>c, <1>5, <2>1, WriteLeaves DEF Settled
<1>6. CASE SetStatus \/ SetReason
  <2>1. monitor'.at \in {"reason", "send"}
    BY <1>6, <1>t DEF SetStatus, SetReason, MonitorState
  <2> QED BY <1>c, <1>6, <2>1, WriteLeaves DEF Settled
<1>7. CASE LogsClosed \/ StopWatcher \/ WatcherStopped
  <2>1. UNCHANGED <<conditions, output, exporter>> /\ monitor.at \in {"receive", "stopping"}
    BY <1>7 DEF LogsClosed, StopWatcher, WatcherStopped, Finish
  <2> QED BY <2>1 DEF Settled, exporter
<1>8. CASE Export
  <2>1. UNCHANGED <<conditions, settings>>
    BY <1>8 DEF Export
  <2>2. CASE settings.updateConditions
    <3>1. IF 1 \in DOMAIN conditions THEN copying' = 1 /\ values' = {conditions[1]}
          ELSE copying' = 0 /\ values' = {}
      BY <1>8, <2>2 DEF Export, CopyFrom
    <3> QED BY <1>c, <2>1, <3>1 DEF Settled
  <2>3. CASE ~settings.updateConditions
    BY <1>c, <1>8, <2>1, <2>3 DEF Export, Settled
  <2> QED BY <2>2, <2>3
<1>9. CASE ExportCondition
  <2> DEFINE quiet == /\ output = <<>> /\ exported # <<>> /\ settings.updateConditions
                      /\ monitor.at \in {"receive", "match", "stamp", "stopping", "done"}
  <2>1. UNCHANGED <<conditions, monitor, output, exported, settings>>
    BY <1>9, CopyLeaves
  <2>2. /\ copying # 0
        /\ IF copying + 1 \in DOMAIN conditions
           THEN copying' = copying + 1 /\ values' = {conditions[copying + 1]}
           ELSE copying' = 0 /\ values' = {}
    BY <1>9 DEF ExportCondition, CopyFrom
  <2>3. /\ copying' \in Nat
        /\ copying' # 0 => values' = {conditions[copying']}
        /\ \A i \in DOMAIN conditions : copying' = 0 \/ i < copying' => i < copying \/ i = copying
    BY <1>c, <2>2
  <2>4. PICK a \in values, b \in values, c \in values :
            seen' = [i \in DOMAIN conditions |->
                        IF i = copying
                        THEN {[type |-> conditions[copying].type, status |-> a.status,
                               reason |-> b.reason, transition |-> c.transition]}
                        ELSE seen[i]]
    BY <1>9, Zenon DEF ExportCondition
  <2>5. ASSUME quiet, NEW i \in DOMAIN conditions, copying' = 0 \/ i < copying'
        PROVE  seen'[i] = {conditions[i]}
    <3>1. CASE i = copying
      <4>1. values = {conditions[i]}
        BY <2>2, <2>5, <3>1 DEF Settled
      <4>2. a = conditions[i] /\ b = conditions[i] /\ c = conditions[i]
        BY <4>1
      <4>3. conditions[i] \in Condition
        BY <1>t, <1>c, ElementOfSeq
      <4>4. conditions[i] = [type |-> conditions[i].type, status |-> conditions[i].status,
                             reason |-> conditions[i].reason, transition |-> conditions[i].transition]
        BY <4>3 DEF Condition
      <4> QED BY <2>4, <3>1, <4>2, <4>4, Zenon
    <3>2. CASE i # copying
      <4>1. seen'[i] = seen[i]
        BY <2>4, <3>2, Zenon
      <4>2. i < copying
        BY <2>3, <2>5, <3>2
      <4> QED BY <2>5, <4>1, <4>2 DEF Settled
    <3> QED BY <3>1, <3>2
  <2> HIDE DEF quiet
  <2>6. quiet' = quiet
    BY <2>1 DEF quiet
  <2>7. quiet => \A i \in DOMAIN conditions : copying' = 0 \/ i < copying' => seen'[i] = {conditions[i]}
    BY <2>5, Zenon
  <2> QED BY <2>1, <2>3, <2>7 DEF Settled, quiet
<1> QED BY <1>1, <1>2, <1>3, <1>4, <1>5, <1>6, <1>7, <1>8, <1>9, MonitorSteps, Zenon

\* A status that is sent, and one that is exported.
LEMMA SentStep ==
    ASSUME NEW S, NEW e \in Seq(S), NEW o \in Seq(S)
    PROVE  /\ e \o o \in Seq(S)
           /\ \A m \in S : e \o Append(o, m) = Append(e \o o, m)
           /\ o # <<>> => Append(e, Head(o)) \o Tail(o) = e \o o
<1>1. e \o o \in Seq(S)
  BY ConcatProperties
<1>2. ASSUME NEW m \in S PROVE e \o Append(o, m) = Append(e \o o, m)
  <2>1. Append(o, m) = o \o <<m>> /\ Append(e \o o, m) = (e \o o) \o <<m>>
    BY <1>1, AppendIsConcat
  <2>2. <<m>> \in Seq(S)
    OBVIOUS
  <2> QED BY <2>1, <2>2, ConcatAssociative
<1>3. ASSUME o # <<>> PROVE Append(e, Head(o)) \o Tail(o) = e \o o
  <2>1. Head(o) \in S /\ Tail(o) \in Seq(S) /\ o = <<Head(o)>> \o Tail(o)
    BY <1>3, HeadTailProperties, ConcatProperties
  <2>2. Append(e, Head(o)) = e \o <<Head(o)>>
    BY <2>1, AppendIsConcat
  <2>3. <<Head(o)>> \in Seq(S)
    BY <2>1
  <2> QED BY <2>1, <2>2, <2>3, ConcatAssociative
<1> QED BY <1>1, <1>2, <1>3, Zenon

\* The first lines.
LEMMA FirstLines ==
    ASSUME NEW S, NEW lines \in Seq(S), NEW n \in 0 .. Len(lines)
    PROVE  /\ SubSeq(lines, 1, n) \in Seq(S) /\ Len(SubSeq(lines, 1, n)) = n
           /\ \A i \in 1 .. n : SubSeq(lines, 1, n)[i] = lines[i]
           /\ n = Len(lines) => SubSeq(lines, 1, n) = lines
           /\ \A x \in S : SubSeq(Append(lines, x), 1, n) = SubSeq(lines, 1, n)
<1> DEFINE p == SubSeq(lines, 1, n)
<1>1. n \in Int /\ 1 \in Int /\ n >= 0 /\ Len(lines) \in Nat /\ \A i \in 1 .. n : i \in 1 .. Len(lines)
  BY LenProperties
<1>2. ASSUME NEW s, \A i \in 1 .. n : s[i] = lines[i]
      PROVE  /\ SubSeq(s, 1, n) \in Seq(S) /\ Len(SubSeq(s, 1, n)) = n
             /\ \A i \in 1 .. n : SubSeq(s, 1, n)[i] = lines[i]
  <2>1. \A i \in 1 .. n : s[i] \in S
    BY <1>1, <1>2, ElementOfSeq
  <2>2. /\ SubSeq(s, 1, n) \in Seq(S)
        /\ Len(SubSeq(s, 1, n)) = IF 1 <= n THEN n - 1 + 1 ELSE 0
        /\ \A i \in 1 .. n - 1 + 1 : SubSeq(s, 1, n)[i] = s[1 + i - 1]
    BY <1>1, <2>1, SubSeqProperties
  <2>3. n - 1 + 1 = n /\ (IF 1 <= n THEN n - 1 + 1 ELSE 0) = n /\ \A i \in 1 .. n : 1 + i - 1 = i
    BY <1>1
  <2> QED BY <1>2, <2>2, <2>3
<1>3. p \in Seq(S) /\ Len(p) = n /\ \A i \in 1 .. n : p[i] = lines[i]
  BY <1>2
<1>4. ASSUME NEW x \in S PROVE SubSeq(Append(lines, x), 1, n) = p
  <2> DEFINE s == Append(lines, x)
             q == SubSeq(s, 1, n)
  <2>1. \A i \in 1 .. n : s[i] = lines[i]
    BY <1>1, AppendProperties
  <2> HIDE DEF s
  <2>2. q \in Seq(S) /\ Len(q) = n /\ \A i \in 1 .. n : q[i] = lines[i]
    BY <1>2, <2>1
  <2> HIDE DEF p, q
  <2>3. q = p
    BY <1>3, <2>2, SeqEqual
  <2> QED BY <2>3 DEF q, s
<1>5. n = Len(lines) => p = lines
  <2> HIDE DEF p
  <2> QED BY <1>3, SeqEqual
<1> QED BY <1>3, <1>4, <1>5

\* What a status adds to what is told.
LEMMA ToldFacts ==
    ASSUME NEW s \in Seq(MonitorState)
    PROVE  /\ s = <<>> => Told(s) = <<>>
           /\ \A m : s = <<>> => Told(Append(s, m)) = <<>>
           /\ \A m \in MonitorState :
                 s # <<>> /\ Told(s) \in Seq(Telling) /\ <<m.rule, m.matched[1].time>> \in Telling
                 => Told(Append(s, m)) = Append(Told(s), <<m.rule, m.matched[1].time>>)
<1> DEFINE n == Len(s)
           t(x) == <<x.rule, x.matched[1].time>>
<1>1. n \in Nat
  BY LenProperties
<1>2. ASSUME s = <<>> PROVE Told(s) = <<>> /\ \A m : Told(Append(s, m)) = <<>>
  <2>1. Len(s) = 0 /\ \A m : Len(Append(s, m)) = 1
    BY <1>2
  <2>2. 1 .. 0 - 1 = 1 .. 0 /\ 1 .. 1 - 1 = 1 .. 0
    OBVIOUS
  <2>3. ASSUME NEW u, Len(u) = 0 \/ Len(u) = 1 PROVE Told(u) \in [1 .. 0 -> {}]
    <3>1. 1 .. Len(u) - 1 = 1 .. 0
      BY <2>2, <2>3, Zenon
    <3>2. \A i \in 1 .. 0 : FALSE
      OBVIOUS
    <3>3. Told(u) = [i \in 1 .. 0 |-> t(u[i + 1])]
      BY <3>1, Zenon DEF Told
    <3> HIDE DEF t
    <3> QED BY <3>2, <3>3
  <2>4. \A f \in [1 .. 0 -> {}] : f = <<>>
    OBVIOUS
  <2> QED BY <2>1, <2>3, <2>4
<1>3. ASSUME NEW m \in MonitorState, s # <<>>, Told(s) \in Seq(Telling), t(m) \in Telling
      PROVE  Told(Append(s, m)) = Append(Told(s), t(m))
  <2> DEFINE more == Append(s, m)
             a == Told(more)
             b == Append(Told(s), t(m))
  <2>1. n >= 1
    BY <1>1, <1>3, EmptySeq
  <2>2. Len(more) = n + 1 /\ more[n + 1] = m /\ \A i \in 1 .. n : more[i] = s[i]
    BY AppendProperties
  <2>3. n + 1 - 1 = n /\ n - 1 \in Nat
    BY <1>1, <2>1
  <2>4. a = [i \in 1 .. n |-> t(more[i + 1])] /\ Told(s) = [i \in 1 .. n - 1 |-> t(s[i + 1])]
    BY <2>2, <2>3 DEF Told
  <2>5. Len(Told(s)) = n - 1
    <3>1. DOMAIN Told(s) = 1 .. n - 1
      BY <2>4
    <3>2. \A p, q \in Nat : 1 .. p = 1 .. q => p = q
      <4> SUFFICES ASSUME NEW p \in Nat, NEW q \in Nat, 1 .. p = 1 .. q, p < q PROVE FALSE
        OBVIOUS
      <4>1. q \in 1 .. q /\ q \notin 1 .. p
        OBVIOUS
      <4> QED BY <4>1
    <3>3. Len(Told(s)) \in Nat /\ DOMAIN Told(s) = 1 .. Len(Told(s))
      BY <1>3, LenProperties
    <3> QED BY <2>3, <3>1, <3>2, <3>3, Zenon
  <2> HIDE DEF t, more
  <2>6. b \in Seq(Telling) /\ Len(b) = n /\ b[n] = t(m) /\ \A i \in 1 .. n - 1 : b[i] = Told(s)[i]
    <3> DEFINE u == Told(s)
               x == t(m)
    <3>1. u \in Seq(Telling) /\ x \in Telling /\ Len(u) = n - 1 /\ Len(u) + 1 = n
      BY <1>1, <1>3, <2>5
    <3> HIDE DEF u, x
    <3>2. /\ Append(u, x) \in Seq(Telling) /\ Len(Append(u, x)) = n /\ Append(u, x)[n] = x
          /\ \A i \in 1 .. n - 1 : Append(u, x)[i] = u[i]
      BY <3>1, AppendProperties
    <3> QED BY <3>2 DEF u, x
  <2> HIDE DEF a, b
  <2>7. ASSUME NEW i \in 1 .. n PROVE a[i] = b[i]
    <3>1. CASE i = n
      BY <2>2, <2>4, <2>6, <3>1, SMTT(30)
    <3>2. CASE i # n
      <4>1. i \in 1 .. n - 1 /\ i + 1 \in 1 .. n
        BY <1>1, <3>2
      <4>2. a[i] = t(more[i + 1]) /\ Told(s)[i] = t(s[i + 1])
        BY <2>4, <4>1
      <4> QED BY <2>2, <2>6, <4>1, <4>2
    <3> QED BY <3>1, <3>2
  <2>8. a = [i \in 1 .. n |-> a[i]] /\ b = [i \in 1 .. n |-> b[i]]
    <3>1. b \in [1 .. n -> Telling]
      BY <2>6, LenProperties
    <3> QED BY <2>4, <3>1
  <2>9. a = b
    BY <2>7, <2>8
  <2> QED BY <2>9 DEF a, b, more, t
<1> QED BY <1>2, <1>3

\* An event is counted before its status is sent.
CountedEvents ==
    \A r \in Reasons :
        counted[r] = Cardinality(EventsFor(Sent, r))
                     + IF monitor.at = "send" /\ monitor.event /\ Rules[monitor.rule].reason = r
                       THEN 1 ELSE 0

\* A condition is set by a rule, and the gauge tells its reason but for the one that is
\* being set.
Tells(cs, g, skip) ==
    \A i \in 1 .. Len(cs) :
        cs[i].status => /\ cs[i].type \in RuledTypes
                        /\ i # skip /\ i = First(cs, cs[i].type) => g[cs[i].type] = cs[i].reason
GaugesTell ==
    Tells(conditions, gauge,
          IF monitor.at = "reason" THEN First(conditions, Rules[monitor.rule].condition) ELSE 0)

\* Two facts about sets, the least element of one and the size of another, which the
\* steps below need and LogMonitorProofs proves: a condition is found where it is,
FirstWithin ==
    \A cs \in Seq(Condition) : \A type :
        /\ First(cs, type) = 0 \/ First(cs, type) \in 1 .. Len(cs)
        /\ First(cs, type) # 0 => cs[First(cs, type)].type = type

\* and a status more is one event more, or none.
EventsCount ==
    \A s \in Seq(MonitorState), m \in MonitorState : \A reason :
        /\ Cardinality(EventsFor(s, reason)) \in Nat
        /\ Cardinality(EventsFor(Append(s, m), reason))
             = Cardinality(EventsFor(s, reason))
               + IF m.event /\ Rules[m.rule].reason = reason THEN 1 ELSE 0

\* What generateStatus changes of the condition of the rule at work: its transition time,
LEMMA StampSets ==
    ASSUME MonitorTypes, FirstWithin, Stamp
    PROVE  LET i == ConditionOf(Rules[monitor.rule])
           IN  \/ UNCHANGED conditions
               \/ /\ i \in 1 .. Len(conditions) /\ OneSet(conditions, conditions', i)
                  /\ conditions'[i].status = conditions[i].status
                  /\ conditions'[i].reason = conditions[i].reason
<1> DEFINE rule == Rules[monitor.rule]
           i == ConditionOf(rule)
           t == monitor.matched[1].time
<1>1. i = First(conditions, rule.condition)
  BY DEF ConditionOf, First
<1>2. conditions \in Seq(Condition) /\ monitor.matched \in Seq(AnyLog) /\ monitor.matched # <<>>
  BY DEF MonitorTypes, MonitorState, Stamp, Working
<1>3. t \in Nat
  <2>1. 1 \in 1 .. Len(monitor.matched)
    BY <1>2, EmptySeq, LenProperties
  <2>2. monitor.matched[1] \in AnyLog
    BY <1>2, <2>1, ElementOfSeq
  <2> QED BY <2>2 DEF AnyLog
<1> DEFINE c == [conditions[i] EXCEPT !.transition = t]
<1>4. conditions' = conditions \/ (i # 0 /\ conditions' = [conditions EXCEPT ![i] = c])
  BY DEF Stamp, Stored
<1> HIDE DEF t, i
<1>5. CASE i # 0 /\ conditions' = [conditions EXCEPT ![i] = c]
  <2>1. i \in 1 .. Len(conditions)
    BY <1>1, <1>2, <1>5 DEF FirstWithin
  <2>2. conditions[i] \in Condition
    BY <1>2, <2>1, ElementOfSeq
  <2>3. /\ c \in Condition /\ c.type = conditions[i].type
        /\ c.status = conditions[i].status /\ c.reason = conditions[i].reason
    BY <1>3, <2>2 DEF Condition
  <2> HIDE DEF c
  <2>5. OneSet(conditions, conditions', i) /\ conditions'[i] = c
    BY <1>2, <1>5, <2>1, <2>3, SetOne, Zenon
  <2> QED BY <2>1, <2>3, <2>5 DEF i
<1> QED BY <1>4, <1>5

\* ... its status,
LEMMA SetStatusSets ==
    ASSUME MonitorTypes, FirstWithin, SetStatus
    PROVE  LET i == ConditionOf(Rules[monitor.rule])
           IN  /\ i \in 1 .. Len(conditions) /\ OneSet(conditions, conditions', i)
               /\ conditions[i].type = Rules[monitor.rule].condition
<1> DEFINE rule == Rules[monitor.rule]
           i == ConditionOf(rule)
           c == [conditions[i] EXCEPT !.status = TRUE]
<1>1. i = First(conditions, rule.condition) /\ i # 0 /\ conditions \in Seq(Condition)
  BY DEF ConditionOf, First, MonitorTypes, SetStatus
<1>2. conditions' = [conditions EXCEPT ![i] = c]
  BY Zenon DEF SetStatus, Stored
<1> HIDE DEF i
<1>3. i \in 1 .. Len(conditions) /\ conditions[i].type = rule.condition
  BY <1>1 DEF FirstWithin
<1>4. conditions[i] \in Condition
  BY <1>1, <1>3, ElementOfSeq
<1>5. c \in Condition /\ c.type = conditions[i].type
  BY <1>4, Zenon DEF Condition
<1> HIDE DEF c
<1>7. OneSet(conditions, conditions', i)
  BY <1>1, <1>2, <1>3, <1>5, SetOne, Zenon
<1> QED BY <1>3, <1>7 DEF i

\* ... and its reason.
LEMMA SetReasonSets ==
    ASSUME MonitorTypes, FirstWithin, SetReason
    PROVE  LET i == ConditionOf(Rules[monitor.rule])
           IN  /\ i \in 1 .. Len(conditions) /\ OneSet(conditions, conditions', i)
               /\ conditions[i].type = Rules[monitor.rule].condition
               /\ conditions'[i].reason = Rules[monitor.rule].reason
<1> DEFINE rule == Rules[monitor.rule]
           i == ConditionOf(rule)
           c == [conditions[i] EXCEPT !.reason = rule.reason]
<1>1. i = First(conditions, rule.condition) /\ i # 0 /\ conditions \in Seq(Condition)
  BY DEF ConditionOf, First, MonitorTypes, SetReason
<1>2. conditions' = [conditions EXCEPT ![i] = c]
  BY Zenon DEF SetReason, Stored
<1>a. rule.reason \in STRING
  BY RuleFacts DEF MonitorTypes, SetReason, Working
<1> HIDE DEF i
<1>3. i \in 1 .. Len(conditions) /\ conditions[i].type = rule.condition
  BY <1>1 DEF FirstWithin
<1>4. conditions[i] \in Condition
  BY <1>1, <1>3, ElementOfSeq
<1>5. c \in Condition /\ c.type = conditions[i].type /\ c.reason = rule.reason
  BY <1>4, <1>a DEF Condition
<1> HIDE DEF c
<1>7. OneSet(conditions, conditions', i) /\ conditions'[i] = c
  BY <1>1, <1>2, <1>3, <1>5, SetOne, Zenon
<1> QED BY <1>3, <1>5, <1>7 DEF i

LEMMA CountedEventsStep ==
    ASSUME MonitorTypes, EventsCount, settings.reporting, CountedEvents, [Next]_vars
    PROVE  CountedEvents'
<1> DEFINE N(r) == Cardinality(EventsFor(Sent, r))
           Due(r) == IF monitor.at = "send" /\ monitor.event /\ Rules[monitor.rule].reason = r
                     THEN 1 ELSE 0
<1>t. /\ monitor \in MonitorState /\ exported \in Seq(MonitorState) /\ output \in Seq(MonitorState)
      /\ counted \in [Reasons -> Nat]
  BY DEF MonitorTypes
<1>s. Sent \in Seq(MonitorState)
  BY <1>t, SentStep, SMTT(30) DEF Sent
<1>n. \A r : N(r) \in Nat
  BY <1>t, <1>s DEF EventsCount
<1>c. \A r \in Reasons : counted[r] = N(r) + Due(r)
  BY DEF CountedEvents
<1>g. (\A r \in Reasons : counted'[r] = N(r)' + Due(r)') => CountedEvents'
  BY DEF CountedEvents
<1> HIDE DEF N, Due
<1>u. UNCHANGED Sent => \A r : N(r)' = N(r)
  BY DEF N, EventsFor
<1>d. /\ \A r : monitor.at # "send" => Due(r) = 0
      /\ \A r : monitor'.at # "send" => Due(r)' = 0
      /\ UNCHANGED monitor => \A r : Due(r)' = Due(r)
  BY DEF Due
<1>e. UNCHANGED <<exported, output>> => UNCHANGED Sent
  BY DEF Sent
<1>1. CASE \/ Start \/ Receive \/ MatchRule \/ SetStatus \/ LogsClosed \/ StopWatcher
           \/ WatcherStopped
  <2>1. UNCHANGED <<exported, output, counted>> /\ monitor.at # "send"
    BY <1>1, WriteLeaves DEF Start, Receive, MatchRule, SetStatus, LogsClosed, StopWatcher,
                WatcherStopped, Finish, metrics, exporter
  <2>2. monitor'.at # "send"
    <3>1. CASE SetStatus
      BY <1>t, <3>1 DEF SetStatus, MonitorState
    <3>2. CASE MatchRule
      BY <3>2 DEF MatchRule, At
    <3>3. CASE Start \/ Receive \/ LogsClosed \/ StopWatcher \/ WatcherStopped
      BY <3>3 DEF Start, Receive, LogsClosed, StopWatcher, WatcherStopped, Finish, At
    <3> QED BY <1>1, <3>1, <3>2, <3>3
  <2> QED BY <1>c, <1>g, <1>u, <1>d, <1>e, <2>1, <2>2
<1>2. CASE Stop \/ UNCHANGED monitorVars \/ Export \/ ExportCondition
  <2>1. UNCHANGED <<monitor, counted>>
    BY <1>2, CopyLeaves DEF Stop, monitorVars, Export, metrics
  <2>2. UNCHANGED Sent
    <3>1. CASE Export
      BY <1>t, <3>1, SentStep DEF Export, Sent
    <3>2. CASE Stop \/ UNCHANGED monitorVars \/ ExportCondition
      BY <3>2, <1>e, CopyLeaves DEF Stop, monitorVars, exporter
    <3> QED BY <1>2, <3>1, <3>2
  <2> QED BY <1>c, <1>g, <1>u, <1>d, <2>1, <2>2
<1>3. CASE InitializeStatus
  <2> DEFINE m == At("initial", 0, <<>>)
  <2>1. m \in MonitorState /\ m.event = FALSE
    BY EmptySeq DEF At, MonitorState, Places
  <2>2. UNCHANGED <<exported, counted>> /\ output' = Append(output, m)
    BY <1>3 DEF InitializeStatus, metrics, exporter
  <2>3. monitor.at # "send" /\ monitor'.at # "send"
    BY <1>3 DEF InitializeStatus, At
  <2> HIDE DEF m
  <2>4. Sent' = Append(Sent, m)
    BY <1>t, <2>1, <2>2, SentStep DEF Sent
  <2>5. ASSUME NEW r \in Reasons PROVE N(r)' = N(r)
    <3>1. Cardinality(EventsFor(Append(Sent, m), r)) = N(r) + 0
      BY <1>s, <2>1 DEF N, EventsCount
    <3>2. N(r)' = Cardinality(EventsFor(Append(Sent, m), r))
      BY <2>4 DEF N, EventsFor
    <3> QED BY <1>n, <3>1, <3>2
  <2> QED BY <1>c, <1>g, <1>d, <2>2, <2>3, <2>5, SMTT(30)
<1>4. CASE SendStatus
  <2>1. UNCHANGED <<exported, counted>> /\ output' = Append(output, monitor) /\ monitor.at = "send"
    BY <1>4 DEF SendStatus, metrics, exporter
  <2>2. Sent' = Append(Sent, monitor)
    BY <1>t, <2>1, SentStep DEF Sent
  <2>3. monitor'.at # "send"
    BY <1>4 DEF SendStatus, At
  <2>4. ASSUME NEW r \in Reasons PROVE N(r)' = N(r) + Due(r)
    <3>1. Cardinality(EventsFor(Append(Sent, monitor), r)) = N(r) + Due(r)
      BY <1>t, <1>s, <2>1 DEF N, Due, EventsCount
    <3>2. N(r)' = Cardinality(EventsFor(Append(Sent, monitor), r))
      BY <2>2 DEF N, EventsFor
    <3> QED BY <3>1, <3>2
  <2>5. ASSUME NEW r \in Reasons PROVE counted'[r] = N(r)' + Due(r)'
    <3>1. counted'[r] = counted[r] /\ counted[r] = N(r) + Due(r) /\ Due(r)' = 0 /\ counted[r] \in Nat
      BY <1>c, <1>d, <1>t, <2>1, <2>3
    <3> QED BY <2>4, <3>1
  <2> QED BY <1>g, <2>5
<1>5. ASSUME NEW event \in BOOLEAN, monitor.at \in Working \ {"send"}, Counted(event), UNCHANGED Sent,
             monitor'.at = "send", monitor'.event = event, monitor'.rule = monitor.rule
      PROVE  CountedEvents'
  <2> DEFINE q == Rules[monitor.rule].reason
  <2>1. q \in Reasons
    BY <1>5, RuleFacts DEF MonitorTypes
  <2>2. counted' = IF event THEN [counted EXCEPT ![q] = @ + 1] ELSE counted
    BY <1>5 DEF Counted
  <2>3. \A r : Due(r)' = IF event /\ q = r THEN 1 ELSE 0
    BY <1>5 DEF Due
  <2> HIDE DEF q
  <2>4. ASSUME NEW r \in Reasons PROVE counted'[r] = N(r)' + Due(r)'
    <3>1. counted[r] = N(r) /\ N(r)' = N(r) /\ N(r) \in Nat
      <4>1. Due(r) = 0
        BY <1>5, <1>d
      <4> QED BY <1>5, <1>c, <1>n, <1>u, <4>1
    <3>2. CASE event /\ q = r
      <4>1. counted'[r] = counted[r] + 1 /\ Due(r)' = 1
        BY <1>t, <2>2, <2>3, <3>2
      <4> QED BY <3>1, <4>1
    <3>3. CASE ~(event /\ q = r)
      <4>1. counted'[r] = counted[r] /\ Due(r)' = 0
        BY <1>t, <2>1, <2>2, <2>3, <3>3
      <4> QED BY <3>1, <4>1
    <3> QED BY <3>2, <3>3
  <2> QED BY <1>g, <2>4
<1>6. CASE Stamp
  <2> DEFINE rule == Rules[monitor.rule]
             i == ConditionOf(rule)
             event == IF rule.perm THEN i # 0 /\ Changes(i, rule) ELSE TRUE
             at == IF rule.perm /\ i # 0 THEN "status" ELSE "send"
  <2>1. /\ UNCHANGED <<exported, output>> /\ monitor.at = "stamp"
        /\ monitor' = [monitor EXCEPT !.event = event, !.at = at]
        /\ IF rule.perm THEN UNCHANGED counted ELSE Counted(event)
    BY <1>6, WriteLeaves, Zenon DEF Stamp
  <2>2. at \in Places /\ event \in BOOLEAN
    BY Zenon DEF Changes, Places
  <2>3. /\ at = "send" => ~rule.perm \/ i = 0
        /\ at = "status" \/ at = "send"
        /\ ~rule.perm => event = TRUE /\ at = "send"
        /\ rule.perm /\ i = 0 => event = FALSE
    OBVIOUS
  <2> HIDE DEF event, at, i
  <2>4. monitor'.at = at /\ monitor'.event = event /\ monitor'.rule = monitor.rule
    BY <1>t, <2>1, <2>2, MovesTo, Zenon
  <2>5. UNCHANGED Sent
    BY <1>e, <2>1
  <2>6. CASE at = "status"
    <3>1. UNCHANGED counted
      BY <2>1, <2>3, <2>6
    <3>2. monitor.at # "send" /\ monitor'.at # "send"
      BY <2>1, <2>4, <2>6
    <3> QED BY <1>c, <1>g, <1>u, <1>d, <2>5, <3>1, <3>2
  <2>7. CASE at = "send"
    <3>1. Counted(event)
      <4>1. CASE ~rule.perm
        BY <2>1, <4>1
      <4>2. CASE rule.perm
        <5>1. event = FALSE /\ UNCHANGED counted
          BY <2>1, <2>3, <2>7, <4>2
        <5> QED BY <5>1 DEF Counted
      <4> QED BY <4>1, <4>2
    <3> QED BY <1>5, <2>1, <2>2, <2>4, <2>5, <2>7, <3>1 DEF Working
  <2> QED BY <2>3, <2>6, <2>7
<1>7. CASE SetReason
  <2>1. /\ UNCHANGED <<exported, output>> /\ monitor.at = "reason"
        /\ monitor' = [monitor EXCEPT !.at = "send"] /\ Counted(monitor.event)
    BY <1>7, WriteLeaves, Zenon DEF SetReason
  <2>2. "send" \in Places /\ monitor.event \in BOOLEAN
    BY <1>t DEF MonitorState, Places
  <2>3. monitor'.at = "send" /\ monitor'.event = monitor.event /\ monitor'.rule = monitor.rule
    BY <1>t, <2>1, <2>2, MovesOnTo
  <2> QED BY <1>5, <1>e, <2>1, <2>2, <2>3, SMTT(30) DEF Working
<1> QED BY <1>1, <1>2, <1>3, <1>4, <1>6, <1>7, MonitorSteps

LEMMA GaugesTellStep ==
    ASSUME MonitorTypes, MonitorTypes', FirstWithin, settings.reporting, GaugesTell, [Next]_vars
    PROVE  GaugesTell'
<1>t. /\ monitor \in MonitorState /\ conditions \in Seq(Condition)
      /\ gauge \in [RuledTypes -> Reasons \cup {"none"}]
  BY SMTT(30) DEF MonitorTypes
<1>n. /\ monitor.at # "reason" => Tells(conditions, gauge, 0)
      /\ monitor'.at # "reason" /\ Tells(conditions', gauge', 0) => GaugesTell'
  BY DEF GaugesTell
<1>1. CASE \/ Start \/ Receive \/ MatchRule \/ SendStatus \/ LogsClosed \/ StopWatcher
           \/ WatcherStopped
  <2>1. UNCHANGED <<conditions, gauge>> /\ monitor.at # "reason"
    <3>1. CASE Start
      BY <3>1 DEF Start, metrics
    <3>2. CASE Receive
      BY <3>2 DEF Receive, metrics
    <3>3. CASE MatchRule
      BY <3>3 DEF MatchRule, metrics
    <3>4. CASE SendStatus
      BY <3>4 DEF SendStatus, metrics
    <3>5. CASE LogsClosed
      BY <3>5 DEF LogsClosed, Finish, metrics
    <3>6. CASE StopWatcher
      BY <3>6 DEF StopWatcher, metrics
    <3>7. CASE WatcherStopped
      BY <3>7 DEF WatcherStopped, Finish, metrics
    <3> QED BY <1>1, <3>1, <3>2, <3>3, <3>4, <3>5, <3>6, <3>7, Zenon
  <2>2. monitor'.at # "reason"
    <3>1. CASE Start
      BY <3>1 DEF Start, At
    <3>2. CASE Receive
      BY <3>2, SMTT(30) DEF Receive, At
    <3>3. CASE MatchRule
      BY <3>3 DEF MatchRule, At
    <3>4. CASE SendStatus
      BY <3>4 DEF SendStatus, At
    <3>5. CASE LogsClosed
      BY <3>5 DEF LogsClosed, At, Finish
    <3>6. CASE StopWatcher
      BY <3>6 DEF StopWatcher, At
    <3>7. CASE WatcherStopped
      BY <3>7 DEF WatcherStopped, Finish, At
    <3> QED BY <1>1, <3>1, <3>2, <3>3, <3>4, <3>5, <3>6, <3>7, Zenon
  <2> QED BY <1>n, <2>1, <2>2
<1>2. CASE Stop \/ UNCHANGED monitorVars \/ Export \/ ExportCondition
  <2>1. UNCHANGED <<monitor, conditions, gauge>>
    BY <1>2, CopyLeaves DEF Stop, monitorVars, Export, metrics
  <2> QED BY <2>1 DEF GaugesTell
<1>3. CASE InitializeStatus
  <2>1. monitor'.at # "reason"
    BY <1>3 DEF InitializeStatus, At
  <2>2. ASSUME NEW i \in 1 .. Len(conditions') PROVE conditions'[i].status = FALSE
    <3>1. conditions' \in Seq(Condition)
      BY DEF MonitorTypes
    <3>2. DOMAIN conditions' = 1 .. Len(conditions')
      BY <3>1, LenProperties
    <3>3. conditions' = [j \in DOMAIN DefaultConditions |->
                            [type |-> DefaultConditions[j].type, status |-> FALSE,
                             reason |-> DefaultConditions[j].reason, transition |-> 0]]
      BY <1>3 DEF InitializeStatus
    <3>4. i \in DOMAIN DefaultConditions
      BY <3>2, <3>3
    <3> QED BY <3>3, <3>4
  <2> QED BY <1>n, <2>1, <2>2, Zenon DEF Tells
<1>4. CASE Stamp
  <2>1. monitor.at # "reason" /\ UNCHANGED gauge
    BY <1>4 DEF Stamp
  <2>2. monitor'.at # "reason"
    BY <1>t, <1>4, SMTT(30) DEF Stamp, MonitorState
  <2>3. Tells(conditions, gauge, 0)
    BY <1>n, <2>1
  <2>4. CASE UNCHANGED conditions
    BY <1>n, <2>1, <2>2, <2>3, <2>4
  <2>5. CASE ~UNCHANGED conditions
    <3> DEFINE k == ConditionOf(Rules[monitor.rule])
    <3>1. /\ k \in 1 .. Len(conditions) /\ OneSet(conditions, conditions', k)
          /\ conditions'[k].status = conditions[k].status
          /\ conditions'[k].reason = conditions[k].reason
      BY <1>4, <2>5, StampSets, Zenon
    <3> HIDE DEF k
    <3>2. \A t : First(conditions', t) = First(conditions, t)
      BY <1>t, <3>1, FirstSame
    <3>3. \A i \in 1 .. Len(conditions) :
             /\ conditions'[i].status = conditions[i].status /\ conditions'[i].reason = conditions[i].reason
             /\ conditions'[i].type = conditions[i].type
      BY <3>1 DEF OneSet
    <3>4. Len(conditions') = Len(conditions)
      BY <3>1 DEF OneSet
    <3>5. Tells(conditions', gauge', 0)
      BY <2>1, <2>3, <3>2, <3>3, <3>4, SMTT(30) DEF Tells
    <3> QED BY <1>n, <2>2, <3>5, SMTT(30)
  <2> QED BY <2>4, <2>5
<1>5. CASE SetStatus
  <2> DEFINE type == Rules[monitor.rule].condition
             k == First(conditions, type)
  <2>1. monitor.at # "reason" /\ UNCHANGED gauge
    BY <1>5 DEF SetStatus, metrics
  <2>2. monitor'.at = "reason" /\ monitor'.rule = monitor.rule
    BY <1>t, <1>5, SMTT(30) DEF SetStatus, MonitorState
  <2>3. Tells(conditions, gauge, 0)
    BY <1>n, <2>1
  <2>4. k \in 1 .. Len(conditions) /\ OneSet(conditions, conditions', k) /\ conditions[k].type = type
    <3>1. k = ConditionOf(Rules[monitor.rule])
      BY DEF First, ConditionOf
    <3> QED BY <1>5, <3>1, SetStatusSets
  <2>5. type \in RuledTypes
    BY <1>5, RuleFacts DEF MonitorTypes, SetStatus, Working
  <2>6. First(conditions', Rules[monitor'.rule].condition) = k
    BY <1>t, <2>2, <2>4, FirstSame, SMTT(30)
  <2>7. \A t : First(conditions', t) = First(conditions, t)
    BY <1>t, <2>4, FirstSame
  <2> HIDE DEF k, type
  <2>8. ASSUME NEW i \in 1 .. Len(conditions), conditions'[i].status
        PROVE  /\ conditions'[i].type \in RuledTypes
               /\ i # k /\ i = First(conditions', conditions'[i].type)
                  => gauge'[conditions'[i].type] = conditions'[i].reason
    <3>1. CASE i = k
      BY <2>4, <2>5, <3>1, SMTT(30) DEF OneSet
    <3>2. CASE i # k
      <4>1. conditions'[i] = conditions[i] /\ i # 0
        BY <2>4, <3>2 DEF OneSet
      <4> QED BY <2>1, <2>3, <2>7, <2>8, <4>1 DEF Tells
    <3> QED BY <3>1, <3>2
  <2>9. Tells(conditions', gauge', k)
    BY <2>4, <2>8 DEF Tells, OneSet
  <2> QED BY <2>2, <2>6, <2>9 DEF GaugesTell
<1>6. CASE SetReason
  <2> DEFINE type == Rules[monitor.rule].condition
             reason == Rules[monitor.rule].reason
             k == First(conditions, type)
  <2>1. monitor.at = "reason" /\ gauge' = [gauge EXCEPT ![type] = reason]
    BY <1>6 DEF SetReason, Gauged
  <2>2. monitor'.at # "reason"
    BY <1>t, <1>6 DEF SetReason, MonitorState
  <2>3. Tells(conditions, gauge, k)
    BY <2>1, SMTT(30) DEF GaugesTell
  <2>4. /\ k \in 1 .. Len(conditions) /\ OneSet(conditions, conditions', k)
        /\ conditions[k].type = type /\ conditions'[k].reason = reason
    <3>1. k = ConditionOf(Rules[monitor.rule])
      BY DEF First, ConditionOf
    <3> QED BY <1>6, <3>1, SetReasonSets, Zenon
  <2>5. type \in RuledTypes
    BY <1>6, RuleFacts, SMTT(30) DEF MonitorTypes, SetReason, Working
  <2>6. \A t : First(conditions', t) = First(conditions, t)
    BY <1>t, <2>4, FirstSame
  <2>7. k = First(conditions, type)
    OBVIOUS
  <2> HIDE DEF k, type, reason
  <2>8. ASSUME NEW i \in 1 .. Len(conditions), conditions'[i].status
        PROVE  /\ conditions'[i].type \in RuledTypes
               /\ i = First(conditions', conditions'[i].type)
                  => gauge'[conditions'[i].type] = conditions'[i].reason
    <3>1. CASE i = k
      <4>1. conditions'[i].type = type /\ gauge'[type] = reason
        BY <1>t, <2>1, <2>4, <2>5, <3>1, SMTT(30) DEF OneSet
      <4> QED BY <2>4, <2>5, <3>1, <4>1, SMTT(30)
    <3>2. CASE i # k
      <4>1. conditions'[i] = conditions[i]
        BY <2>4, <3>2 DEF OneSet
      <4>2. conditions[i].type \in RuledTypes
        BY <2>3, <2>8, <4>1 DEF Tells
      <4>3. ASSUME i = First(conditions, conditions[i].type)
            PROVE  gauge'[conditions[i].type] = conditions[i].reason
        <5>1. gauge[conditions[i].type] = conditions[i].reason
          BY <2>3, <2>8, <3>2, <4>1, <4>3 DEF Tells
        <5>2. conditions[i].type # type
          BY <2>7, <3>2, <4>3, SMTT(30)
        <5> QED BY <1>t, <2>1, <4>2, <5>1, <5>2
      <4> QED BY <2>6, <4>1, <4>2, <4>3
    <3> QED BY <3>1, <3>2
  <2>9. Tells(conditions', gauge', 0)
    BY <2>4, <2>8 DEF Tells, OneSet
  <2> QED BY <1>n, <2>2, <2>9
<1> QED BY <1>1, <1>2, <1>3, <1>4, <1>5, <1>6, MonitorSteps, SMTT(30)

-----------------------------------------------------------------------------
(* The theorems *)

\* The watchers start with an empty log and nothing in hand.
LEMMA InitialWatcher ==
    ASSUME Init
    PROVE  /\ kind \in Kinds /\ watcher = "off" /\ next = 1
           /\ written = <<>> /\ received = <<>> /\ logCh = <<>> /\ inHand = <<>>
           /\ tail = NewTail /\ tail.at = "start" /\ tail.open = 0 /\ tail.pos = 0 /\ tail.closed
           /\ file = [now |-> 1, events |-> 0, pieces |-> <<<<>>>>, hasty |-> FALSE]
           /\ file.now = 1 /\ file.events = 0 /\ file.pieces = <<<<>>>> /\ ~file.hasty
           /\ Len(file.pieces) = 1 /\ Len(file.pieces[1]) = 0
           /\ reading = [pieces |-> <<>>, buffer |-> <<>>]
           /\ reading.pieces = <<>> /\ reading.buffer = <<>>
<1>1. /\ kind \in Kinds /\ watcher = "off" /\ next = 1
      /\ written = <<>> /\ received = <<>> /\ logCh = <<>> /\ inHand = <<>>
      /\ tail = NewTail
      /\ file = [now |-> 1, events |-> 0, pieces |-> <<<<>>>>, hasty |-> FALSE]
      /\ reading = [pieces |-> <<>>, buffer |-> <<>>]
  BY Zenon DEF Init, WatcherInit
<1>2. tail.at = "start" /\ tail.open = 0 /\ tail.pos = 0 /\ tail.closed
  BY <1>1, Zenon DEF NewTail, NoFile
<1>3. file.now = 1 /\ file.events = 0 /\ file.pieces = <<<<>>>> /\ ~file.hasty
  BY <1>1, Zenon
<1>4. Len(file.pieces) = 1 /\ Len(file.pieces[1]) = 0
  BY <1>3
<1>5. reading.pieces = <<>> /\ reading.buffer = <<>>
  BY <1>1, Zenon
<1> QED BY <1>1, <1>2, <1>3, <1>4, <1>5, Zenon

LEMMA InitHolds ==
    ASSUME Init
    PROVE  WatcherHolds /\ Paced
<1>1. <<>> \in Seq(PushedLog) /\ <<>> \in Seq(Entry) /\ <<>> \in Seq(AnyPiece)
  BY EmptySeq, Zenon
<1>2. Len(written) = 0 /\ Len(reading.pieces) = 0 /\ Len(reading.buffer) = 0
  BY InitialWatcher, Zenon
<1>3. WatcherTypes
  <2>1. next \in 1 .. Len(written) + 1
    <3>1. next = 1
      BY InitialWatcher, Zenon
    <3> QED BY <1>2, <3>1
  <2> QED BY <1>1, <2>1, InitialWatcher, Zenon DEF WatcherTypes
<1>4. FileTypes
  <2>1. <<<<>>>> \in Seq(Seq(AnyPiece))
    BY <1>1
  <2>2. tail \in TailState /\ file \in FileState /\ reading \in ReadState
    <3>1. NewTail \in TailState
      BY DEF NewTail, NoFile, TailState
    <3>2. [now |-> 1, events |-> 0, pieces |-> <<<<>>>>, hasty |-> FALSE] \in FileState
      BY <2>1 DEF FileState
    <3>3. [pieces |-> <<>>, buffer |-> <<>>] \in ReadState
      BY <1>1, Zenon DEF ReadState
    <3> QED BY <3>1, <3>2, <3>3, InitialWatcher, Zenon
  <2>3. /\ Len(file.pieces) >= 1 /\ file.now \in {NoFile, Len(file.pieces)}
        /\ tail.open <= Len(file.pieces)
        /\ tail.open >= 1 => tail.pos <= Len(file.pieces[tail.open])
    <3>1. Len(file.pieces) = 1 /\ file.now = 1 /\ tail.open = 0
      BY InitialWatcher, Zenon
    <3> QED BY <3>1
  <2>4. /\ tail.closed /\ tail.pos = 0 /\ tail.at \notin {"opened", "watching"}
        /\ reading.pieces = <<>> /\ reading.buffer = <<>> /\ file.events = 0
    BY InitialWatcher, Zenon
  <2> QED BY <2>2, <2>3, <2>4, Zenon DEF FileTypes
<1>5. LinesBounded
  <2>1. \A g \in 1 .. Len(file.pieces) : Len(file.pieces[g]) = 0
    <3>1. Len(file.pieces) = 1 /\ Len(file.pieces[1]) = 0
      BY InitialWatcher, Zenon
    <3> QED BY <3>1
  <2>2. \A i : i \notin 1 .. 0
    OBVIOUS
  <2> QED BY <1>2, <2>1, <2>2, Zenon DEF LinesBounded, Bounded
<1>6. FileOnly
  BY InitialWatcher, Zenon DEF FileOnly
<1>7. Paced
  <2>1. /\ watcher = "off"
        /\ parser = [state |-> "nil", failed |-> FALSE, opened |-> 0, closed |-> 0,
                     recent |-> FALSE, attempts |-> 0]
    BY Zenon DEF Init, WatcherInit
  <2> QED BY <2>1 DEF Paced, ParserState
<1> QED BY <1>3, <1>4, <1>5, <1>6, <1>7, Zenon DEF WatcherHolds

\* and every step keeps what they hold.
LEMMA StepHolds ==
    ASSUME WatcherHolds, [Next]_vars
    PROVE  WatcherHolds'
<1>1. MonitorSide \/ WatcherSide
  BY TwoSides, Zenon
<1> QED BY <1>1, WatcherTypesStep, FileTypesStep, LinesBoundedStep, FileOnlyStep, Zenon DEF WatcherHolds

\* What the watchers, the kmsg parser, Tail and the channel hold is kept by every step.
THEOREM HoldsAlways == Spec => [](WatcherHolds /\ Paced)
<1>1. Init => WatcherHolds /\ Paced
  BY InitHolds, Zenon
<1>2. WatcherHolds /\ Paced /\ [Next]_vars => (WatcherHolds /\ Paced)'
  <2> SUFFICES ASSUME WatcherHolds, Paced, [Next]_vars PROVE WatcherHolds' /\ Paced'
    BY Zenon
  <2>1. Paced'
    BY PacedStep, TwoSides, Zenon DEF WatcherHolds
  <2> QED BY <2>1, StepHolds, Zenon
<1> QED BY <1>1, <1>2, PTL DEF Spec

\* The loop over kmsg makes at most one attempt to open the parser in a retryDelay, also
\* when a parser that was just opened fails again.
THEOREM RestartsPacedAlways == Spec => []RestartsPaced
<1>1. Paced => RestartsPaced
  BY DEF Paced, RestartsPaced
<1> QED BY <1>1, HoldsAlways, PTL
=============================================================================
