----------------------------- MODULE LogMonitor -----------------------------
(***************************************************************************)
(* The log monitor (pkg/systemlogmonitor/log_monitor.go) over one of the   *)
(* log watchers: monitorLoop pushes each line into the buffer, matches     *)
(* every rule, and sends a status for each match.  A status carries its    *)
(* events and a reference to the monitor's conditions, which the exporter  *)
(* (pkg/exporters/k8sexporter) copies one by one when it gets to it, while *)
(* the monitor may go on writing them.  That the exporter writes a         *)
(* status's events changes nothing here: CustomPluginMonitor has it.       *)
(***************************************************************************)
EXTENDS LogWatcher, LogBuffer

CONSTANTS
    Rules,          \* sequence of [perm, condition, reason, pattern]
    DefaultConditions,  \* sequence of [type, reason]
    OutputCap,      \* capacity of the status channel
    Settings        \* for each kind, a set of [reporting, updateConditions]: metrics
                    \* reporting of the monitor, and whether the exporter has conditions
ASSUME RulesAssumption ==
    /\ Rules \in Seq([perm : BOOLEAN, condition : STRING, reason : STRING, pattern : Seq(Alternative)])
    /\ DefaultConditions \in Seq([type : STRING, reason : STRING])
    /\ \A k \in Kinds : Settings[k] \subseteq [reporting : BOOLEAN, updateConditions : BOOLEAN]
ASSUME EntriesAssumption == \A k \in Kinds : \A e \in Entries[k] : e.message \in Seq(Letter)

VARIABLES
    buffer,
    conditions,     \* sequence of [type, status, reason, transition]
    monitor,        \* [at, rule, matched, event]: where monitorLoop is
    output, outputClosed,
    monitorStop, monitorDone,
    received,       \* history: the lines monitorLoop has taken
    settings,       \* the member of Settings that is used
    exported,       \* history: the statuses received by the detector
    copying,        \* index of the condition the exporter copies; 0 between statuses
    values,         \* what that condition has been since the copy began
    seen,           \* history: the last copy of each condition, {} before the first
    counted,        \* problem_counter by reason
    gauge           \* problem_gauge: the reason set for each condition type

metrics == <<counted, gauge>>
exporter == <<settings, exported, copying, values, seen>>
monitorVars == <<buffer, conditions, monitor, output, outputClosed, monitorStop, monitorDone,
                 received, exporter, metrics>>
vars == <<watcherVars, monitorVars>>

Patterns == [r \in DOMAIN Rules |-> CompilePattern(Rules[r].pattern)]
Reasons == {Rules[r].reason : r \in DOMAIN Rules}

At(state, rule, matched) ==
    [at |-> state, rule |-> rule, matched |-> matched, event |-> FALSE]

\* NewLogMonitorOrDie with its initializeProblemMetricsOrDie, before Start.
Init ==
    /\ WatcherInit
    /\ buffer = NewLogBuffer
    /\ conditions = <<>>
    /\ monitor = At("new", 0, <<>>)
    /\ output = <<>> /\ outputClosed = FALSE /\ monitorStop = FALSE /\ monitorDone = FALSE
    /\ received = <<>>
    /\ settings \in Settings[kind]
    /\ exported = <<>> /\ copying = 0 /\ values = {}
    /\ seen = [i \in DOMAIN DefaultConditions |-> {}]
    /\ counted = [r \in Reasons |-> 0]
    /\ gauge = [t \in {Rules[r].condition : r \in DOMAIN Rules} |-> "none"]

\* Start: a Watch that fails starts no loop.
Start ==
    /\ monitor.at = "new"
    /\ \/ Watch /\ monitor' = At("initialize", 0, <<>>)
       \/ WatchFails /\ monitor' = At("failed", 0, <<>>)
    /\ UNCHANGED <<buffer, conditions, output, outputClosed, monitorStop, monitorDone, received,
                   exporter, metrics>>

Stop ==
    /\ monitor.at \notin {"new", "failed"} /\ ~monitorStop
    /\ monitorStop' = TRUE
    /\ UNCHANGED <<watcherVars, buffer, conditions, monitor, output, outputClosed, monitorDone,
                   received, exporter, metrics>>

\* initializeStatus: the initial status has no event.
InitializeStatus ==
    /\ monitor.at = "initialize"
    /\ conditions' = [i \in DOMAIN DefaultConditions |->
                        [type |-> DefaultConditions[i].type, status |-> FALSE,
                         reason |-> DefaultConditions[i].reason, transition |-> 0]]
    /\ output' = Append(output, At("initial", 0, <<>>))
    /\ monitor' = At("receive", 0, <<>>)
    /\ UNCHANGED <<watcherVars, buffer, outputClosed, monitorStop, monitorDone, received,
                   exporter, metrics>>

Quiet == UNCHANGED <<kind, written, watcher, inHand, logClosed, watcherDone, watcherStop, sources>>

\* A line is received and pushed; the rules follow.
Receive ==
    /\ monitor.at = "receive" /\ logCh # <<>>
    /\ buffer' = Push(buffer, Head(logCh))
    /\ received' = Append(received, Head(logCh))
    /\ logCh' = Tail(logCh)
    /\ monitor' = At("match", 1, <<>>)
    /\ Quiet
    /\ UNCHANGED <<conditions, output, outputClosed, monitorStop, monitorDone, exporter, metrics>>

MonitorOnly == UNCHANGED <<watcherVars, outputClosed, monitorStop, monitorDone, received>>

\* Match of the next rule.
MatchRule ==
    /\ monitor.at = "match"
    /\ LET r == monitor.rule IN
          IF r > Len(Rules)
          THEN monitor' = At("receive", 0, <<>>) /\ UNCHANGED buffer
          ELSE LET matched == Match(buffer, Patterns[r]) IN
               /\ monitor' = IF matched = <<>> THEN At("match", r + 1, <<>>)
                             ELSE At("stamp", r, matched)
               /\ buffer' = AfterMatch(buffer, Patterns[r])
    /\ MonitorOnly /\ UNCHANGED <<conditions, output, exporter, metrics>>

\* The index in conditions of the first condition of a rule's type; 0 without one.
ConditionOf(rule) ==
    LET is == {i \in DOMAIN conditions : conditions[i].type = rule.condition}
    IN  IF is = {} THEN 0 ELSE Min(is)

Changes(i, rule) == ~conditions[i].status \/ conditions[i].reason # rule.reason

\* problem_counter of the rule at hand, with metrics reporting on.
Counted(event) ==
    counted' = IF event /\ settings.reporting
               THEN [counted EXCEPT ![Rules[monitor.rule].reason] = @ + 1]
               ELSE counted

\* A field of condition i is stored: a copy under way may find the field before or after.
Stored(i, condition) ==
    /\ conditions' = [conditions EXCEPT ![i] = condition]
    /\ values' = IF copying = i THEN values \cup {condition} ELSE values
    /\ UNCHANGED <<settings, exported, copying, seen>>

\* SetProblemGauge of a rule that holds, with metrics reporting on.
Gauged(rule) ==
    gauge' = IF settings.reporting THEN [gauge EXCEPT ![rule.condition] = rule.reason] ELSE gauge

\* generateStatus: a temporary problem is an event; a permanent one gives its
\* condition a new transition time and an event if the condition changes.
Stamp ==
    /\ monitor.at = "stamp"
    /\ LET rule == Rules[monitor.rule]
           i == ConditionOf(rule)
           event == IF rule.perm THEN i # 0 /\ Changes(i, rule) ELSE TRUE
       IN  /\ IF rule.perm /\ event
              THEN Stored(i, [conditions[i] EXCEPT !.transition = monitor.matched[1].time])
              ELSE UNCHANGED <<conditions, exporter>>
           /\ monitor' = [monitor EXCEPT !.event = event,
                                         !.at = IF rule.perm /\ i # 0 THEN "status" ELSE "send"]
           /\ IF rule.perm THEN UNCHANGED counted ELSE Counted(event)
    /\ MonitorOnly /\ UNCHANGED <<buffer, output, gauge>>

\* ... then the condition's status,
SetStatus ==
    /\ monitor.at = "status"
    /\ LET i == ConditionOf(Rules[monitor.rule])
       IN  Stored(i, [conditions[i] EXCEPT !.status = TRUE])
    /\ monitor' = [monitor EXCEPT !.at = "reason"]
    /\ MonitorOnly /\ UNCHANGED <<buffer, output, metrics>>

\* Mutant of SetReason: a match that changes nothing is counted.
SetReasonCounting ==
    /\ monitor.at = "reason"
    /\ LET rule == Rules[monitor.rule]
           i == ConditionOf(rule)
       IN  /\ Stored(i, [conditions[i] EXCEPT !.reason = rule.reason])
           /\ Gauged(rule)
           /\ Counted(TRUE)
    /\ monitor' = [monitor EXCEPT !.at = "send"]
    /\ MonitorOnly /\ UNCHANGED <<buffer, output>>

\* ... its reason, and the metrics.
SetReason ==
    /\ monitor.at = "reason"
    /\ LET rule == Rules[monitor.rule]
           i == ConditionOf(rule)
       IN  /\ Stored(i, [conditions[i] EXCEPT !.reason = rule.reason])
           /\ Gauged(rule)
           /\ Counted(monitor.event)
    /\ monitor' = [monitor EXCEPT !.at = "send"]
    /\ MonitorOnly /\ UNCHANGED <<buffer, output>>

\* The blocking send of the status.
SendStatus ==
    /\ monitor.at = "send" /\ Len(output) < OutputCap
    /\ output' = Append(output, monitor)
    /\ monitor' = At("match", monitor.rule + 1, <<>>)
    /\ MonitorOnly /\ UNCHANGED <<buffer, conditions, exporter, metrics>>

\* The copy of condition i begins; after the last one the next status may be taken.
CopyFrom(i) ==
    IF i \in DOMAIN conditions
    THEN copying' = i /\ values' = {conditions[i]}
    ELSE copying' = 0 /\ values' = {}

\* Mutant of Export: the conditions of a status without an event are left out.
ExportEventful ==
    /\ output # <<>> /\ copying = 0
    /\ exported' = Append(exported, Head(output))
    /\ output' = Tail(output)
    /\ IF settings.updateConditions /\ Head(output).event THEN CopyFrom(1)
       ELSE UNCHANGED <<copying, values>>
    /\ MonitorOnly /\ UNCHANGED <<buffer, conditions, monitor, settings, seen, metrics>>

\* The detector takes a status and hands it to the exporter, which goes through the
\* conditions it refers to if it has a condition manager.
Export ==
    /\ output # <<>> /\ copying = 0
    /\ exported' = Append(exported, Head(output))
    /\ output' = Tail(output)
    /\ IF settings.updateConditions THEN CopyFrom(1) ELSE UNCHANGED <<copying, values>>
    /\ MonitorOnly /\ UNCHANGED <<buffer, conditions, monitor, settings, seen, metrics>>

\* A condition is copied, without a lock: each field as it was at some moment of the copy.
ExportCondition ==
    /\ copying # 0
    /\ \E a, b, c \in values :
          LET copy == [type |-> conditions[copying].type, status |-> a.status,
                       reason |-> b.reason, transition |-> c.transition]
          IN  seen' = [i \in DOMAIN conditions |-> IF i = copying THEN {copy} ELSE seen[i]]
    /\ CopyFrom(copying + 1)
    /\ MonitorOnly
    /\ UNCHANGED <<buffer, conditions, monitor, output, settings, exported, metrics>>

Finish ==
    /\ outputClosed' = TRUE /\ monitorDone' = TRUE
    /\ monitor' = At("done", 0, <<>>)
    /\ UNCHANGED <<buffer, conditions, output, monitorStop, received, exporter, metrics>>

\* The log channel was closed.
LogsClosed ==
    /\ monitor.at = "receive" /\ logCh = <<>> /\ logClosed
    /\ Finish /\ UNCHANGED watcherVars

\* The stop: watcher.Stop closes its stop channel and waits for it.
StopWatcher ==
    /\ monitor.at = "receive" /\ monitorStop
    /\ watcherStop' = TRUE
    /\ monitor' = At("stopping", 0, <<>>)
    /\ UNCHANGED <<kind, written, watcher, inHand, channel, sources, buffer, conditions, output,
                   outputClosed, monitorStop, monitorDone, received, exporter, metrics>>

WatcherStopped ==
    /\ monitor.at = "stopping" /\ watcherDone
    /\ Finish /\ UNCHANGED watcherVars

MonitorLoop == InitializeStatus \/ Receive \/ MatchRule \/ Stamp \/ SetStatus \/ SetReason
               \/ SendStatus \/ LogsClosed \/ StopWatcher \/ WatcherStopped

Next ==
    \/ Start \/ Stop \/ MonitorLoop \/ Export \/ ExportCondition
    \/ (Loop \/ TailLoop \/ Node) /\ UNCHANGED monitorVars

Spec ==
    /\ Init /\ [][Next]_vars
    /\ WatcherFairness
    /\ WF_vars(MonitorLoop) /\ SF_vars(StopWatcher) /\ WF_vars(Export \/ ExportCondition)

-----------------------------------------------------------------------------
(* Properties *)

\* The statuses that the last of the lines calls for, of the first r rules: one for each
\* rule whose pattern matches the last lines, timed by the first line the match covers.
Matches(lines) ==
    LET matches[r \in 0 .. Len(Rules)] ==
            LET covered == CoveredLines(lines, Rules[r].pattern)
            IN  IF r = 0 THEN <<>>
                ELSE IF covered = <<>> THEN matches[r - 1]
                ELSE Append(matches[r - 1], <<r, covered[1].time>>)
    IN  matches

\* ... and those that the first n lines call for.
Expected(lines) ==
    LET all[n \in 0 .. Len(lines)] ==
            IF n = 0 THEN <<>> ELSE all[n - 1] \o Matches(SubSeq(lines, 1, n))[Len(Rules)]
    IN  all

\* What the statuses after the initial one tell.
Told(statuses) ==
    [i \in 1 .. Len(statuses) - 1 |-> <<statuses[i + 1].rule, statuses[i + 1].matched[1].time>>]

Sent == exported \o output

\* What parseLog reports is what the lines call for: a status for every line and
\* rule that matches the joined lines, in order, none twice and none for a line that
\* has left the buffer, timed by the first line the match covers - although Match
\* looks at the last line only where it can, caches the joined text, and counts
\* lines back from the end of a ring that may not be full.
StatusesFollowLines ==
    LET expected == Expected(received)[Len(received)]
    IN  /\ Told(Sent) = SubSeq(expected, 1, Len(Told(Sent))) /\ Len(Told(Sent)) <= Len(expected)
        /\ monitor.at = "receive" => Told(Sent) = expected

\* The exporter copies conditions that generateStatus goes on writing, and a copy may
\* mix the fields of two matches; once every status is exported its last copies are what
\* the monitor holds.
SettledExport ==
    /\ output = <<>> /\ copying = 0 /\ exported # <<>> /\ settings.updateConditions
    /\ monitor.at \in {"receive", "stopping", "done"}
    => \A i \in DOMAIN conditions : seen[i] = {conditions[i]}

\* The statuses with an event for a reason.
EventsFor(statuses, reason) ==
    {i \in DOMAIN statuses : statuses[i].event /\ Rules[statuses[i].rule].reason = reason}

\* problem_counter counts the events of the statuses, and problem_gauge tells the
\* reason of the condition, at every moment the loop waits for a line; both are kept
\* only with metrics reporting on.
CountsEvents ==
    settings.reporting /\ monitor.at = "receive" =>
        /\ \A r \in Reasons : counted[r] = Cardinality(EventsFor(Sent, r))
        /\ \A i \in DOMAIN conditions :
              conditions[i].status /\ i = ConditionOf([condition |-> conditions[i].type])
                  => gauge[conditions[i].type] = conditions[i].reason

Delivered == received \o logCh \o inHand

\* A watcher delivers entries in the order they were written and none twice, across
\* restarts of the kmsg parser and rotations of the file, and as they were written;
\* only a rotation may join the part of a line that was read to another line.  A file
\* that is rotated again before Tail has noticed is another matter: the second event may
\* make Tail read the file it has open from the start again.
LinesInOrder ==
    \A i, j \in DOMAIN Delivered :
        /\ i < j /\ ~file.hasty => Delivered[i].time < Delivered[j].time
        /\ Len(file.pieces) = 1 => Delivered[i] = Log(Delivered[i].time)

\* retryCreateParser: "a parser that keeps failing right after a successful restart
\* cannot drive a hot restart loop": one attempt in any retryDelay.
RestartsPaced == parser.attempts <= 1

\* Stop of a watcher takes effect, also in the wait between two attempts to open the
\* parser, and every kmsg parser that was opened has then been closed, and once: none
\* again by the deferred function.  A watcher other than kmsg may be stuck in its send
\* instead.
WatcherStops ==
    watcherStop ~> \/ watcherDone /\ parser.closed = parser.opened
                   \/ kind # "kmsg" /\ watcher = "send"
=============================================================================
