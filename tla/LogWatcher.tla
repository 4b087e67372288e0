----------------------------- MODULE LogWatcher -----------------------------
(***************************************************************************)
(* The three log watchers (pkg/systemlogmonitor/logwatchers) and the       *)
(* tailing of a file that the file watcher reads through                   *)
(* (third_party/forked/cadvisor/tail).  The node writes entries to the     *)
(* kernel's ring, to the journal, or to a file that is rotated; the watch  *)
(* loop of the configured kind reads them and sends those that pass its    *)
(* filters on logCh.                                                       *)
(***************************************************************************)
EXTENDS Integers, Sequences, FiniteSets

CONSTANTS
    Kinds,          \* plugins configured: subset of {"kmsg", "filelog", "journald"}
    Entries,        \* what may be written, for each kind: sets of [message, class]
    MaxEntries,     \* bound: entries written, for each kind
    MaxFailures,    \* bound: times the kmsg parser fails
    MaxRotations,   \* bound: times the file is rotated
    LogCap          \* capacity of logCh

VARIABLES
    kind,
    written,        \* entries written, in order
    watcher,        \* where watchLoop is
    inHand,         \* the log it is about to send
    logCh, logClosed, watcherStop, watcherDone,
    next,           \* kmsg, journald: index of the next entry to read
    parser,         \* kmsg: [state, failed, opened, closed, recent, attempts]
    tail,           \* filelog: where Tail's watchLoop is, and its reader
    file,           \* filelog: the generations of the file, the one under the path, the
                    \* events of inotify, and whether it was ever rotated with one pending
    reading         \* filelog: what s.reader and buffer hold

\* class: "ok"; "old", before the start time; "empty"; "skip", in the skip list;
\* "bad", without a timestamp or message.  The time of an entry is its index.
Passes(e) == e.class = "ok"
Log(i) == [message |-> written[i].message, time |-> i]

channel == <<logCh, logClosed, watcherDone>>
sources == <<next, parser, tail, file, reading>>
watcherVars == <<kind, written, watcher, inHand, channel, watcherStop, sources>>

NoFile == 0

\* newTail: a read before the first attemptOpen is at the end of the file.
NewTail == [at |-> "start", err |-> "eof", open |-> NoFile, pos |-> 0, closed |-> TRUE,
            stop |-> FALSE]

WatcherInit ==
    /\ kind \in Kinds
    /\ written = <<>>
    /\ watcher = "off" /\ inHand = <<>>
    /\ logCh = <<>> /\ logClosed = FALSE /\ watcherStop = FALSE /\ watcherDone = FALSE
    /\ next = 1
    /\ parser = [state |-> "nil", failed |-> FALSE, opened |-> 0, closed |-> 0,
                 recent |-> FALSE, attempts |-> 0]
    /\ tail = NewTail
    /\ file = [now |-> 1, events |-> 0, pieces |-> <<<<>>>>, hasty |-> FALSE]
    /\ reading = [pieces |-> <<>>, buffer |-> <<>>]

-----------------------------------------------------------------------------
(* Common to the watchers *)

\* watchLoop sees the stop.  Only kmsg looks for it while it sends.
\* Mutant of SeesStop: the kmsg watcher does not look while it waits to retry.
SeesStopUnlessWaiting == watcherStop /\ watcher \in {"loop", "send"}
SeesStop ==
    /\ watcherStop
    /\ watcher \in (IF kind = "kmsg" THEN {"loop", "wait", "send"} ELSE {"loop"})

\* The deferred function.  The journald watcher leaves logCh open.
Exit ==
    /\ watcher' = "done" /\ watcherDone' = TRUE
    /\ logClosed' = (kind # "journald")
    /\ inHand' = <<>>
    /\ parser' = IF parser.state = "nil" THEN parser
                 ELSE [parser EXCEPT !.state = "nil", !.closed = @ + 1]
    /\ tail' = IF kind = "filelog" THEN [tail EXCEPT !.stop = TRUE] ELSE tail
    /\ UNCHANGED <<kind, written, logCh, watcherStop, next, file, reading>>

StopWatching == SeesStop /\ Exit

\* The send on logCh.
Send ==
    /\ watcher = "send" /\ Len(logCh) < LogCap
    /\ logCh' = Append(logCh, inHand[1])
    /\ inHand' = <<>> /\ watcher' = "loop"
    /\ UNCHANGED <<kind, written, logClosed, watcherStop, watcherDone, sources>>

\* An entry was read: it is dropped, or sent next.
Take(i) ==
    IF Passes(written[i])
    THEN watcher' = "send" /\ inHand' = <<Log(i)>>
    ELSE watcher' = "loop" /\ UNCHANGED inHand

\* Watch fails: no parser, no journal or no such file, or an empty journal source.
WatchFails ==
    /\ watcher = "off" /\ watcher' = "failed"
    /\ UNCHANGED <<kind, written, inHand, channel, watcherStop, sources>>

Watch ==
    /\ watcher = "off" /\ watcher' = "loop"
    /\ parser' = IF kind = "kmsg" THEN [parser EXCEPT !.state = "open", !.opened = 1] ELSE parser
    /\ kind = "filelog" => file.now # NoFile     \* os.Stat
    /\ UNCHANGED <<kind, written, inHand, channel, watcherStop, next, tail, file, reading>>

-----------------------------------------------------------------------------
(* kmsg *)

KmsgReceive ==
    /\ kind = "kmsg" /\ watcher = "loop" /\ ~parser.failed
    /\ next <= Len(written)
    /\ Take(next) /\ next' = next + 1
    /\ UNCHANGED <<kind, written, channel, watcherStop, parser, tail, file, reading>>

\* The parser closes its channel: a read of /dev/kmsg failed.
KmsgFails ==
    /\ kind = "kmsg" /\ parser.state = "open" /\ ~parser.failed
    /\ parser.opened <= MaxFailures
    /\ parser' = [parser EXCEPT !.failed = TRUE]
    /\ UNCHANGED <<kind, written, watcher, inHand, channel, watcherStop, next, tail, file, reading>>

\* Mutant of KmsgClosed: the first attempt is never delayed.
KmsgClosedHot ==
    /\ kind = "kmsg" /\ watcher = "loop" /\ parser.failed
    /\ parser' = [parser EXCEPT !.state = "nil", !.closed = @ + 1]
    /\ watcher' = "attempt"
    /\ UNCHANGED <<kind, written, inHand, channel, watcherStop, next, tail, file, reading>>

\* The closed channel is noticed; retryCreateParser first waits if the last restart
\* was less than retryDelay ago.
KmsgClosed ==
    /\ kind = "kmsg" /\ watcher = "loop" /\ parser.failed
    /\ parser' = [parser EXCEPT !.state = "nil", !.closed = @ + 1]
    /\ watcher' = IF parser.recent THEN "wait" ELSE "attempt"
    /\ UNCHANGED <<kind, written, inHand, channel, watcherStop, next, tail, file, reading>>

Attempted == [parser EXCEPT !.attempts = @ + 1]

\* One attempt: no parser, a parser that cannot seek, or a parser that is taken.
\* Mutant of SeekEnd: it reads the ring from its start.
SeekStart == next' = 1
SeekEnd == next' = Len(written) + 1

KmsgAttempt ==
    /\ kind = "kmsg" /\ watcher = "attempt"
    /\ \/ /\ watcher' = "wait" /\ UNCHANGED next
          /\ parser.opened <= MaxFailures
          /\ parser' \in {Attempted, [Attempted EXCEPT !.opened = @ + 1, !.closed = @ + 1]}
       \/ /\ watcher' = "loop" /\ SeekEnd
          /\ parser' = [Attempted EXCEPT !.state = "open", !.failed = FALSE,
                                         !.opened = @ + 1, !.recent = TRUE]
    /\ UNCHANGED <<kind, written, inHand, channel, watcherStop, tail, file, reading>>

\* retryDelay has passed: since the last restart, or in the wait.
KmsgDelayPasses ==
    /\ kind = "kmsg"
    /\ parser.recent \/ parser.attempts > 0 \/ watcher = "wait"
    /\ parser' = [parser EXCEPT !.recent = FALSE, !.attempts = 0]
    /\ watcher' = IF watcher = "wait" THEN "attempt" ELSE watcher
    /\ UNCHANGED <<kind, written, inHand, channel, watcherStop, next, tail, file, reading>>

-----------------------------------------------------------------------------
(* journald *)

\* Next reaches an entry; the entry may be unreadable and is then skipped.
JournaldRead ==
    /\ kind = "journald" /\ watcher = "loop" /\ next <= Len(written)
    /\ next' = next + 1
    /\ Take(next) \/ UNCHANGED <<watcher, inHand>>
    /\ UNCHANGED <<kind, written, channel, watcherStop, parser, tail, file, reading>>

-----------------------------------------------------------------------------
(* filelog.  A line is written in one piece or in two. *)

Piece(i, end) == [line |-> i, end |-> end]
Unfinished(pieces) == pieces # <<>> /\ ~pieces[Len(pieces)].end

\* Tail.Read: blocked while attemptOpen holds the lock.
ReadResult ==
    IF tail.err # "nil" THEN tail.err
    ELSE IF tail.closed THEN "err"
    ELSE IF tail.pos < Len(file.pieces[tail.open]) THEN "data" ELSE "eof"

\* s.reader is empty and reads all there is; at the end of the file the loop sleeps.
FileFill ==
    /\ kind = "filelog" /\ watcher = "loop" /\ tail.at # "open"
    /\ reading.pieces = <<>> /\ ReadResult = "data"
    /\ LET pieces == file.pieces[tail.open] IN
          /\ reading' = [reading EXCEPT !.pieces = SubSeq(pieces, tail.pos + 1, Len(pieces))]
          /\ tail' = [tail EXCEPT !.pos = Len(pieces)]
    /\ UNCHANGED <<kind, written, watcher, inHand, channel, watcherStop, next, parser, file>>

\* Any error but io.EOF ends the watch.
FileError ==
    /\ kind = "filelog" /\ watcher = "loop" /\ tail.at # "open"
    /\ reading.pieces = <<>> /\ ReadResult = "err"
    /\ Exit

\* The line in buffer: pieces of one line, unless a rotation took the rest of it.
LineOf(pieces) ==
    LET first == pieces[1].line
        last == pieces[Len(pieces)].line
    IN  [message |-> IF first = last THEN written[first].message
                     ELSE written[first].message \o written[last].message,
         time |-> first]

\* A piece of s.reader: the line ends with it and is filtered and translated, or
\* waits in buffer for its end.
FileLine ==
    /\ kind = "filelog" /\ watcher = "loop" /\ reading.pieces # <<>>
    /\ LET piece == Head(reading.pieces)
           buffer == Append(reading.buffer, piece)
       IN  /\ reading' = [pieces |-> Tail(reading.pieces),
                          buffer |-> IF piece.end THEN <<>> ELSE buffer]
           /\ IF piece.end /\ Passes(written[buffer[1].line]) /\ written[piece.line].class # "skip"
              THEN watcher' = "send" /\ inHand' = <<LineOf(buffer)>>
              ELSE UNCHANGED <<watcher, inHand>>
    /\ UNCHANGED <<kind, written, channel, watcherStop, next, parser, tail, file>>

-----------------------------------------------------------------------------
(* Tail: watchLoop and watchFile *)

TailStep(t) ==
    /\ kind = "filelog" /\ watcher # "off" /\ tail' = t
    /\ UNCHANGED <<kind, written, watcher, inHand, channel, watcherStop, next, parser, reading>>

\* attemptOpen takes the lock.
TailLock ==
    /\ tail.at = "start"
    /\ TailStep([tail EXCEPT !.at = "open", !.err = "nil"]) /\ UNCHANGED file

TailOpen ==
    /\ tail.at = "open" /\ file.now # NoFile
    /\ TailStep([tail EXCEPT !.at = "opened", !.open = file.now, !.pos = 0, !.closed = FALSE])
    /\ UNCHANGED file

\* The file is missing for too long, or the tail is stopped meanwhile.
TailGivesUp ==
    /\ tail.at = "open" /\ file.now = NoFile
    /\ TailStep([tail EXCEPT !.at = "ended", !.err = IF tail.stop THEN "eof" ELSE "err"])
    /\ UNCHANGED file

\* AddWatch, which may fail.
TailWatch ==
    /\ tail.at = "opened"
    /\ \/ TailStep([tail EXCEPT !.at = "watching"])
       \/ TailStep([tail EXCEPT !.at = "ended", !.closed = TRUE])
    /\ UNCHANGED file

\* The file was moved or deleted: the deferred RemoveWatch and Close, before the next
\* attemptOpen.  With the watch go the events behind it, but for one that the
\* goroutine of inotify is already sending.
TailRotated ==
    /\ tail.at = "watching" /\ file.events > 0
    /\ TailStep([tail EXCEPT !.at = "start", !.closed = TRUE])
    /\ \E left \in {0, 1} : left < file.events /\ file' = [file EXCEPT !.events = left]

TailStopped ==
    /\ tail.at = "watching" /\ tail.stop
    /\ TailStep([tail EXCEPT !.at = "ended", !.closed = TRUE]) /\ UNCHANGED file

-----------------------------------------------------------------------------
(* The node *)

NodeStep == UNCHANGED <<kind, watcher, inHand, channel, watcherStop, next, parser, tail, reading>>

WriteEntry ==
    /\ kind # "filelog" /\ Len(written) < MaxEntries[kind]
    /\ \E e \in Entries[kind] : written' = Append(written, e)
    /\ NodeStep /\ UNCHANGED file

WriteFile ==
    /\ kind = "filelog" /\ file.now # NoFile
    /\ LET n == Len(written)
           pieces == file.pieces[file.now]
           Put(piece) == file' = [file EXCEPT !.pieces[file.now] = Append(@, piece)]
       IN  \/ /\ Unfinished(pieces)
              /\ Put(Piece(n, TRUE)) /\ UNCHANGED written
           \/ /\ ~Unfinished(pieces) /\ n < MaxEntries[kind]
              /\ \E e \in Entries[kind], end \in BOOLEAN :
                    written' = Append(written, e) /\ Put(Piece(n + 1, end))
    /\ NodeStep

\* The file is moved away, and made again.  inotify tells a tail that watches.
Rotate ==
    /\ kind = "filelog" /\ file.now # NoFile /\ file.now <= MaxRotations
    /\ ~Unfinished(file.pieces[file.now])
    /\ file' = [file EXCEPT !.now = NoFile,
                            !.events = IF tail.at = "watching" THEN @ + 1 ELSE @,
                            !.hasty = @ \/ file.events > 0]
    /\ NodeStep /\ UNCHANGED written

CreateFile ==
    /\ kind = "filelog" /\ file.now = NoFile
    /\ file' = [file EXCEPT !.now = Len(file.pieces) + 1, !.pieces = Append(@, <<>>)]
    /\ NodeStep /\ UNCHANGED written

-----------------------------------------------------------------------------

Loop == StopWatching \/ Send \/ KmsgReceive \/ KmsgClosed \/ KmsgAttempt \/ KmsgDelayPasses
        \/ JournaldRead \/ FileFill \/ FileError \/ FileLine
TailLoop == TailLock \/ TailOpen \/ TailGivesUp \/ TailWatch \/ TailRotated \/ TailStopped
Node == KmsgFails \/ WriteEntry \/ WriteFile \/ Rotate \/ CreateFile

\* The goroutines are scheduled, timers fire, and a select takes a stop that is
\* always there when it looks.
WatcherFairness ==
    /\ WF_watcherVars(Loop) /\ SF_watcherVars(StopWatching) /\ WF_watcherVars(TailLoop)
=============================================================================
