------------------------------ MODULE LogBuffer ------------------------------
(***************************************************************************)
(* The ring buffer of log lines and the matching of rules against it       *)
(* (pkg/systemlogmonitor/log_buffer.go).  A buffer is a record; its        *)
(* operations are operators.  A message is a sequence of letters, and an   *)
(* expression a sequence of alternatives, each a sequence of letter        *)
(* classes that may be starred, possibly with a start anchor.              *)
(***************************************************************************)
EXTENDS Integers, Sequences, FiniteSets, FiniteSetsExt

CONSTANT BufferSize     \* maxLines
ASSUME BufferSizeAssumption == BufferSize \in Nat \ {0}

Newline == "nl"
Letter == STRING \cup {Newline}
\* The expressions.
Class == [letters : SUBSET Letter, star : BOOLEAN]
Alternative == [start : BOOLEAN, classes : Seq(Class)]

\* A log with its message, and one that was pushed: times are counted from 1.
AnyLog == [message : Seq(Letter), time : Nat]
PushedLog == {l \in AnyLog : l.time > 0}
NoLog == [message |-> <<>>, time |-> 0]     \* nil; its msg slot is ""

\* current only counts up; it is kept below twice the size here.
Advance(n) == IF n + 1 = 2 * BufferSize THEN BufferSize ELSE n + 1

NewLogBuffer == [buffer |-> [i \in 0 .. BufferSize - 1 |-> NoLog], current |-> 0,
                 joined |-> <<>>, joinedOK |-> FALSE]

\* Mutant of Push: the cached text stays.
PushKeepingJoined(b, log) ==
    [b EXCEPT !.buffer[b.current % BufferSize] = log, !.current = Advance(b.current)]

Push(b, log) ==
    [b EXCEPT !.buffer[b.current % BufferSize] = log, !.current = Advance(b.current),
              !.joinedOK = FALSE, !.joined = <<>>]

\* What strings.Join makes of the first n logs, for every n.
Texts(logs) ==
    LET texts[n \in 0 .. Len(logs)] ==
            IF n = 0 THEN <<>>
            ELSE IF n = 1 THEN logs[1].message
            ELSE texts[n - 1] \o <<Newline>> \o logs[n].message
    IN  texts
concatLogs(logs) == Texts(logs)[Len(logs)]

\* The slots from the oldest one round to the last pushed.
Slots(b) == [k \in 1 .. BufferSize |-> b.buffer[(b.current + k - 1) % BufferSize]]

String(b) == IF b.joinedOK THEN b.joined ELSE concatLogs(Slots(b))
\* The buffer after String.
Joined(b) == [b EXCEPT !.joined = String(b), !.joinedOK = TRUE]

-----------------------------------------------------------------------------
(* Patterns *)

\* The positions after one class that begins at i, starred or not.
After(text, i, class) ==
    IF class.star
    THEN {j \in i .. Len(text) + 1 : \A k \in i .. j - 1 : text[k] \in class.letters}
    ELSE {j \in {i + 1} : i <= Len(text) /\ text[i] \in class.letters}

\* The positions where a match of the first k classes that begins at i may end, for
\* every k, and of all of them.
Reached(text, i, classes) ==
    LET reached[k \in 0 .. Len(classes)] ==
            IF k = 0 THEN {i} ELSE UNION {After(text, j, classes[k]) : j \in reached[k - 1]}
    IN  reached
Ends(text, i, classes) == Reached(text, i, classes)[Len(classes)]

\* CompilePattern appends \z, which binds to the last alternative only.
AcceptsNewline(alternative) == \E i \in DOMAIN alternative.classes : Newline \in alternative.classes[i].letters

CompilePattern(expr) ==
    [alternatives |-> expr,
     lastLineOnly |-> Len(expr) = 1 /\ ~expr[1].start /\ ~AcceptsNewline(expr[1])]

MatchesAt(p, text, i) ==
    \E a \in DOMAIN p.alternatives :
        /\ p.alternatives[a].start => i = 1
        /\ \E e \in Ends(text, i, p.alternatives[a].classes) :
              a = Len(p.alternatives) => e = Len(text) + 1

Starts(p, text) == {i \in 1 .. Len(text) + 1 : MatchesAt(p, text, i)}

\* The n-th line from the tail, and the letters of the last n lines with a newline each:
\* total after n turns of the loop.
Slot(b, n) == b.buffer[(b.current + BufferSize - n) % BufferSize]
Covered(b) ==
    LET total[n \in 0 .. BufferSize] ==
            IF n = 0 THEN 0 ELSE total[n - 1] + Len(Slot(b, n).message) + 1
    IN  total

\* Match of a pattern that may span lines: from the tail, the lines that hold what
\* follows the start of the match.
MatchedLines(b, start) ==
    LET s == Len(String(b)) - (start - 1) - 1
        turns == {n \in 1 .. BufferSize :
                     /\ \A m \in 1 .. n : Slot(b, m) # NoLog
                     /\ \A m \in 1 .. n - 1 : Covered(b)[m] <= s}
        count == Cardinality(turns)
    IN  [k \in 1 .. count |-> Slot(b, count + 1 - k)]

matchLastLine(b, p) ==
    LET last == b.buffer[(b.current - 1) % BufferSize]
    IN  IF b.current # 0 /\ Starts(p, last.message) # {} THEN <<last>> ELSE <<>>

Match(b, p) ==
    IF p.lastLineOnly THEN matchLastLine(b, p)
    ELSE LET starts == Starts(p, String(b))
         IN  IF starts = {} THEN <<>> ELSE MatchedLines(b, Min(starts))

AfterMatch(b, p) == IF p.lastLineOnly THEN b ELSE Joined(b)

-----------------------------------------------------------------------------
(* What Match is to return, from the lines pushed so far: each letter of the joined
   text belongs to a line, a newline to the line it precedes. *)

\* The window is padded with empty lines when fewer lines were pushed.
Window(lines) ==
    LET all == [i \in 1 .. BufferSize |-> NoLog] \o lines
    IN  SubSeq(all, Len(all) - BufferSize + 1, Len(all))

\* The line that the letter at i belongs to; the last one when i is the end.
Owner(lines, i) ==
    Min({n \in 1 .. Len(lines) : i <= Len(Texts(lines)[n])} \cup {Len(lines)})

CoveredLines(lines, expr) ==
    LET window == Window(lines)
        starts == Starts([alternatives |-> expr], concatLogs(window))
        first == Max({Owner(window, Min(starts)), BufferSize - Len(lines) + 1})
    IN  IF starts = {} THEN <<>> ELSE SubSeq(window, first, BufferSize)
=============================================================================
