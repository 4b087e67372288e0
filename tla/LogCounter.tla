----------------------------- MODULE LogCounter ------------------------------
(***************************************************************************)
(* The log-counter binary (cmd/logcounter, pkg/logcounter): a script of    *)
(* the plugin monitor that counts the journal's lines that match a         *)
(* pattern.  The journald watcher is the one of LogWatcher; here it        *)
(* delivers the journal in order.                                          *)
(***************************************************************************)
EXTENDS LogBuffer

CONSTANTS CounterOptions,   \* [pattern, revertPattern (<<>>: none), count, watchFails]
          LogLines, MaxLines
ASSUME CounterAssumption ==
    /\ LogLines \subseteq Seq(Letter)
    /\ \A o \in CounterOptions :
          o.pattern \in Seq(Alternative) /\ o.revertPattern \in Seq(Alternative)

VARIABLES
    fedo,       \* the command line
    counter,    \* where the invocation is
    lines,      \* the journal: [message, late]; late: stamped after the start
    read,       \* lines taken from the channel
    logBuffer,
    count,
    quiet,      \* Count ended because the channel was silent for a second
    exitStatus
counterVars == <<fedo, counter, lines, read, logBuffer, count, quiet, exitStatus>>

CounterInit ==
    /\ counter = "off" /\ read = 0 /\ logBuffer = NewLogBuffer /\ count = 0
    /\ quiet = FALSE /\ exitStatus = 0

\* NewJournaldLogCounter: both patterns compile; Watch may fail.
NewJournaldLogCounter ==
    /\ counter = "off"
    /\ IF fedo.watchFails THEN counter' = "exiting" /\ exitStatus' = 2
       ELSE counter' = "counting" /\ UNCHANGED exitStatus
    /\ UNCHANGED <<fedo, lines, read, logBuffer, count, quiet>>

Hit(b, expr) == IF expr # <<>> /\ Match(b, CompilePattern(expr)) # <<>> THEN 1 ELSE 0

\* main after Count: the threshold.
Finish(c) ==
    counter' = "exiting" /\ exitStatus' = IF c >= fedo.count THEN 1 ELSE 0

\* Mutant of CountLine: the line is matched before it is in the buffer.
CountLineLate ==
    /\ counter = "counting" /\ read < Len(lines)
    /\ LET log == lines[read + 1]
           pushed == Push(logBuffer, [message |-> log.message, time |-> read + 1])
       IN  IF log.late THEN Finish(count) /\ UNCHANGED <<read, logBuffer, count>>
           ELSE /\ read' = read + 1
                /\ logBuffer' = pushed
                /\ count' = count + Hit(logBuffer, fedo.pattern) - Hit(logBuffer, fedo.revertPattern)
                /\ UNCHANGED <<counter, exitStatus>>
    /\ UNCHANGED <<fedo, lines, quiet>>

\* One turn of Count's loop: a line, counted unless it was logged after the start.
CountLine ==
    /\ counter = "counting" /\ read < Len(lines)
    /\ LET log == lines[read + 1]
           pushed == Push(logBuffer, [message |-> log.message, time |-> read + 1])
           matched == AfterMatch(pushed, CompilePattern(fedo.pattern))
       IN  IF log.late THEN Finish(count) /\ UNCHANGED <<read, logBuffer, count>>
           ELSE /\ read' = read + 1
                /\ count' = count + Hit(pushed, fedo.pattern) - Hit(matched, fedo.revertPattern)
                /\ logBuffer' = IF fedo.revertPattern = <<>> THEN matched
                                ELSE AfterMatch(matched, CompilePattern(fedo.revertPattern))
                /\ UNCHANGED <<counter, exitStatus>>
    /\ UNCHANGED <<fedo, lines, quiet>>

\* No line for a second, which a slow journal allows at any time.
Silence ==
    /\ counter = "counting"
    /\ Finish(count) /\ quiet' = TRUE
    /\ UNCHANGED <<fedo, lines, read, logBuffer, count>>

CounterStep == NewJournaldLogCounter \/ CountLine \/ Silence

\* The node logs on while the script runs; what it logs now is stamped after the start.
LogLine(message) ==
    /\ counter = "counting" /\ Len(lines) < MaxLines
    /\ lines' = Append(lines, [message |-> message, late |-> TRUE])
    /\ UNCHANGED <<fedo, counter, read, logBuffer, count, quiet, exitStatus>>

-----------------------------------------------------------------------------
(* What Count is to return for the first n lines of a journal *)

Pushed(logs, n) == [i \in 1 .. n |-> [message |-> logs[i].message, time |-> i]]
Hits(logs, n, expr) ==
    IF expr = <<>> THEN 0
    ELSE Cardinality({i \in 1 .. n : CoveredLines(Pushed(logs, i), expr) # <<>>})
=============================================================================
