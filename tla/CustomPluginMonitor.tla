------------------------ MODULE CustomPluginMonitor ------------------------
(***************************************************************************)
(* What a custom plugin monitor makes of the results of its scripts: the   *)
(* node conditions it keeps, the events and metrics it emits, and the      *)
(* statuses it sends.                                                      *)
(*                                                                         *)
(* A status does not carry a copy of the conditions: Status.Conditions is  *)
(* the monitor's own slice.  The exporter copies each condition out of it  *)
(* in its own goroutine, without a lock, while the monitor may be writing  *)
(* the condition for the next result.  A copy therefore takes each field   *)
(* from any of the values the condition had between its first and its last *)
(* load: seen collects them.                                               *)
(*                                                                         *)
(* Transition times are left out.  The starting and stopping of the loop   *)
(* are in ProblemDetector, the origin of the results in Plugin.            *)
(***************************************************************************)
EXTENDS Integers, Sequences

CONSTANTS NumConditions,  \* conditions are numbered in the order of the configuration
          Reasons,
          Messages,
          None,           \* no reason, event or condition
          MessageModes,   \* settings of EnableMessageChangeBasedConditionUpdate
          MetricsModes,   \* settings of EnableMetricsReporting
          StatusCap,      \* capacity of statusChan
          CountModulus    \* bound: problem counters are kept modulo this number

ASSUME ConstantsAssumption ==
    /\ NumConditions \in Nat
    /\ None \notin Reasons
    /\ MessageModes \subseteq BOOLEAN /\ MetricsModes \subseteq BOOLEAN
    /\ StatusCap \in Nat \ {0}
    /\ CountModulus \in Nat \ {0, 1}

VARIABLES
    default,       \* config.DefaultConditions (fixed)
    byMessage,     \* EnableMessageChangeBasedConditionUpdate (fixed)
    metrics,       \* EnableMetricsReporting (fixed)
    writeEvents, updateConditions,  \* what the Kubernetes exporter exports (fixed)
    pc,            \* monitorLoop: what it does next
    conditions,
    result,        \* the result being handled
    change,        \* the condition being written for it, or None
    gauge,         \* problem gauges that are 1
    lastReason,    \* problemTypeToReason
    counter,       \* problem counters, modulo CountModulus
    statusChan,    \* the condition change event of each status, or None
    reading,       \* exporter: the next condition to copy; 0 between two statuses
    seen,          \* values of that condition since the copy began
    exported,      \* conditions handed to the condition manager
    told           \* the last change event sent for each condition

config == <<default, byMessage, metrics, writeEvents, updateConditions>>
monitor == <<pc, conditions, result, change>>
measures == <<gauge, lastReason, counter>>
exporter == <<reading, seen, exported, told>>
vars == <<config, monitor, measures, statusChan, exporter>>

Types == 1..NumConditions

Condition == [status : {"True", "False", "Unknown"}, reason : Reasons, message : Messages]

Result == [perm : BOOLEAN, type : Types, reason : Reasons,
           exit : {"OK", "NonOK", "Unknown"}, message : Messages]

\* A condition change event names its condition and says what it is now.
ChangeEvent == [type : Types, now : Condition]

\* None stands for a missing value, never for a condition, a result or an event.
ASSUME NoneAssumption == None \notin Condition \cup Result \cup ChangeEvent

TypeOK ==
    /\ default \in [Types -> [reason : Reasons, message : Messages]]
    /\ byMessage \in BOOLEAN /\ metrics \in BOOLEAN
    /\ writeEvents \in BOOLEAN /\ updateConditions \in BOOLEAN
    /\ pc \in {"initial", "recv", "write", "metrics", "send"}
    /\ conditions \in [Types -> Condition]
    /\ result \in Result \cup {None}
    /\ change \in Condition \cup {None}
    /\ gauge \in SUBSET (Types \X Reasons)
    /\ lastReason \in [Types -> Reasons \cup {None}]
    /\ counter \in [Reasons -> 0..(CountModulus - 1)]
    /\ statusChan \in Seq(ChangeEvent \cup {None}) /\ Len(statusChan) <= StatusCap
    /\ reading \in 0..NumConditions
    /\ seen \in SUBSET Condition
    /\ exported \in [Types -> Condition \cup {None}]
    /\ told \in [Types -> Condition \cup {None}]
-----------------------------------------------------------------------------
\* initialConditions: the defaults, with status False.
initialConditions(t) ==
    [status |-> "False", reason |-> default[t].reason, message |-> default[t].message]

\* initializeProblemMetricsOrDie sets the gauge of every permanent rule to 0;
\* the last rule of a condition leaves its reason behind.
Init ==
    /\ default \in [Types -> [reason : Reasons, message : Messages]]
    /\ byMessage \in MessageModes
    /\ metrics \in MetricsModes
    /\ writeEvents \in BOOLEAN /\ updateConditions \in BOOLEAN
    /\ pc \in {"initial", "recv"}  \* SkipInitialStatus or not
    /\ conditions = [t \in Types |-> initialConditions(t)]
    /\ result = None
    /\ change = None
    /\ gauge = {}
    /\ lastReason \in IF metrics THEN [Types -> Reasons \cup {None}] ELSE [Types -> {None}]
    /\ counter = [r \in Reasons |-> 0]
    /\ statusChan = <<>>
    /\ reading = 0
    /\ seen = {}
    /\ exported = [t \in Types |-> None]
    /\ told = [t \in Types |-> None]

sendInitialStatus ==
    /\ pc = "initial"
    /\ Len(statusChan) < StatusCap
    /\ statusChan' = Append(statusChan, None)
    /\ pc' = "recv"
    /\ UNCHANGED <<config, conditions, result, change, measures, exporter>>
-----------------------------------------------------------------------------
(* generateStatus.                                                          *)

toConditionStatus(exit) == CASE exit = "OK" -> "False"
                             [] exit = "NonOK" -> "True"
                             [] OTHER -> "Unknown"

\* What the condition becomes when it is not, or no longer, a problem.
Cleared(t, status, message) ==
    [status |-> status, reason |-> default[t].reason,
     message |-> IF status = "False" THEN default[t].message ELSE message]

\* A permanent rule's result changes its condition when the status changes, or
\* when it stays True with another reason or, if configured, another message.
needToUpdateCondition(r) ==
    LET c == conditions[r.type]
        status == toConditionStatus(r.exit)
    IN  \/ c.status # status
        \/ /\ status = "True"
           /\ \/ c.reason # r.reason
              \/ byMessage /\ c.message # r.message

\* Mutant of Updated: the reason of the rule is kept when the problem goes away.
UpdatedKeepsReason(r) ==
    [status |-> toConditionStatus(r.exit), reason |-> r.reason, message |-> r.message]

Updated(r) ==
    LET status == toConditionStatus(r.exit)
    IN  IF status = "True"
        THEN [status |-> "True", reason |-> r.reason, message |-> r.message]
        ELSE Cleared(r.type, status, r.message)

\* A result is received.  From here on the new value of a changed condition is
\* being stored, field by field.
Receive(r) ==
    /\ pc = "recv"
    /\ result' = r
    /\ IF r.perm /\ needToUpdateCondition(r)
       THEN /\ pc' = "write"
            /\ change' = Updated(r)
            /\ seen' = IF reading = r.type THEN seen \cup {Updated(r)} ELSE seen
       ELSE /\ pc' = "metrics"
            /\ change' = None
            /\ UNCHANGED seen
    /\ UNCHANGED <<config, conditions, measures, statusChan, reading, exported, told>>

\* The last field is stored.
Write ==
    /\ pc = "write"
    /\ conditions' = [conditions EXCEPT ![result.type] = change]
    /\ pc' = "metrics"
    /\ UNCHANGED <<config, result, change, measures, statusChan, exporter>>

\* Only active problems which were just detected are counted: a temporary
\* problem, or a condition that became or stayed True in a changed form.
Detected ==
    IF result.perm THEN change # None /\ change.status = "True" ELSE result.exit # "OK"

\* The gauge is set for every condition; setting it clears the gauge of the
\* reason it was last set for.
SetGauges ==
    /\ gauge' = {g \in Types \X Reasons :
                   IF g[2] = conditions[g[1]].reason THEN conditions[g[1]].status = "True"
                   ELSE g[2] # lastReason[g[1]] /\ g \in gauge}
    /\ lastReason' = [t \in Types |-> conditions[t].reason]

\* Mutant of Metrics: a result that leaves its condition True is counted too.
MetricsCountsAll ==
    /\ pc = "metrics"
    /\ IF metrics
       THEN /\ counter' = IF result.exit = "NonOK"
                          THEN [counter EXCEPT ![result.reason] = (@ + 1) % CountModulus]
                          ELSE counter
            /\ SetGauges
       ELSE UNCHANGED measures
    /\ pc' = "send"
    /\ UNCHANGED <<config, conditions, result, change, statusChan, exporter>>

\* Mutant of Metrics: the gauge of a condition is only set when it is True.
MetricsOnlyTrue ==
    /\ pc = "metrics"
    /\ IF metrics /\ Detected
       THEN /\ counter' = [counter EXCEPT ![result.reason] = (@ + 1) % CountModulus]
            /\ SetGauges
       ELSE UNCHANGED measures
    /\ pc' = "send"
    /\ UNCHANGED <<config, conditions, result, change, statusChan, exporter>>

Metrics ==
    /\ pc = "metrics"
    /\ IF metrics
       THEN /\ counter' = IF Detected
                          THEN [counter EXCEPT ![result.reason] = (@ + 1) % CountModulus]
                          ELSE counter
            /\ SetGauges
       ELSE UNCHANGED measures
    /\ pc' = "send"
    /\ UNCHANGED <<config, conditions, result, change, statusChan, exporter>>

\* Mutant of Send: a status is dropped when the channel is full.
SendOrDrop ==
    /\ pc = "send"
    /\ statusChan' = IF Len(statusChan) = StatusCap THEN statusChan
                     ELSE Append(statusChan, IF change = None THEN None
                                             ELSE [type |-> result.type, now |-> change])
    /\ pc' = "recv"
    /\ result' = None
    /\ change' = None
    /\ UNCHANGED <<config, conditions, measures, exporter>>

Send ==
    /\ pc = "send"
    /\ Len(statusChan) < StatusCap
    /\ statusChan' = Append(statusChan, IF change = None THEN None
                                        ELSE [type |-> result.type, now |-> change])
    /\ pc' = "recv"
    /\ result' = None
    /\ change' = None
    /\ UNCHANGED <<config, conditions, measures, exporter>>
-----------------------------------------------------------------------------
(* ExportProblems, in the detector's goroutine.                             *)

\* What a load of condition t may return now.
InMemory(t) ==
    {conditions[t]} \cup (IF pc = "write" /\ result.type = t THEN {change} ELSE {})

\* The next condition to copy after t, and the values its copy may start with.
CopyFrom(t) ==
    IF t \in Types THEN reading' = t /\ seen' = InMemory(t)
                   ELSE reading' = 0 /\ seen' = {}

\* A status arrives: its event is sent, then its conditions are copied, each if
\* the exporter is configured to.
ExportEvents ==
    /\ reading = 0
    /\ statusChan # <<>>
    /\ statusChan' = Tail(statusChan)
    /\ LET e == Head(statusChan)
       IN  told' = IF writeEvents /\ e # None THEN [told EXCEPT ![e.type] = e.now] ELSE told
    /\ IF updateConditions THEN CopyFrom(1) ELSE UNCHANGED <<reading, seen>>
    /\ UNCHANGED <<config, monitor, measures, exported>>

\* The copy of one condition is complete and is handed to UpdateCondition.
ExportCondition ==
    /\ reading # 0
    /\ \E a, b, c \in seen :
          exported' = [exported EXCEPT ![reading] =
              [status |-> a.status, reason |-> b.reason, message |-> c.message]]
    /\ CopyFrom(reading + 1)
    /\ UNCHANGED <<config, monitor, measures, statusChan, told>>
-----------------------------------------------------------------------------
Next ==
    \/ sendInitialStatus
    \/ \E r \in Result : Receive(r)
    \/ Write
    \/ Metrics
    \/ Send
    \/ ExportEvents
    \/ ExportCondition

Spec == Init /\ [][Next]_vars
-----------------------------------------------------------------------------
(* Properties.                                                              *)

\* Between two results a condition that is not True carries the default reason,
\* and one that is False also the default message: whatever the order of the
\* results of the rules that share it, a problem that went away leaves no trace.
\* Scenario 5 of generateStatus relies on it.
DefaultsRestored ==
    pc = "recv" =>
        \A t \in Types :
            /\ conditions[t].status # "True" => conditions[t].reason = default[t].reason
            /\ conditions[t].status = "False" => conditions[t].message = default[t].message

\* Between two results the gauges that are 1 are exactly the conditions that are
\* True, with their reasons; in particular at most one reason per condition.
GaugeTellsCondition ==
    pc \in {"initial", "recv"} /\ metrics =>
        gauge = {g \in Types \X Reasons :
                    conditions[g[1]].status = "True" /\ conditions[g[1]].reason = g[2]}

\* Unless messages count as changes, a permanent problem is counted exactly when
\* the gauge of a reason rises, however long and through how many rules the
\* condition stays True.
CountsRisingGauges ==
    [][pc = "metrics" /\ metrics /\ ~byMessage /\ result.perm =>
          \A r \in Reasons :
              counter'[r] # counter[r] <=> \E t \in Types : <<t, r>> \in gauge' \ gauge]_vars

\* When everything sent has been exported, the conditions that ExportProblems has
\* handed over are those of the monitor, if it updates conditions, and so are the last
\* events, if it writes them: a copy that mixed an old and a new value, or an event
\* that overtook its condition, has been made up for.
SettledAgrees ==
    pc = "recv" /\ statusChan = <<>> /\ reading = 0 =>
        \A t \in Types :
            /\ updateConditions =>
                  \/ exported[t] = conditions[t]
                  \/ exported[t] = None /\ conditions[t] = initialConditions(t)
            /\ writeEvents =>
                  \/ told[t] = conditions[t]
                  \/ told[t] = None /\ conditions[t] = initialConditions(t)
=============================================================================
