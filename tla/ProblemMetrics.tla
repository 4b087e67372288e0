--------------------------- MODULE ProblemMetrics ---------------------------
(***************************************************************************)
(* GlobalProblemMetricsManager (pkg/problemmetrics): the counter and the   *)
(* gauge of problems that every log monitor and custom plugin monitor of   *)
(* the process records to, each from its own goroutine.  A scrape may see  *)
(* the rows between any two steps.                                         *)
(***************************************************************************)
EXTENDS Metrics

CONSTANTS Callers,          \* goroutines of monitors that report metrics
          ProblemTypes,     \* types of permanent problems
          Reasons,
          NoCaller

ASSUME CallersAssumption == NoCaller \notin Callers

VARIABLES call,                 \* what each caller is doing
          mutex,                \* problemTypeToReasonMutex: who holds it
          problemTypeToReason,
          asked                 \* history: the last gauge set for each type

problemVars == <<call, mutex, problemTypeToReason, asked>>

Idle == [at |-> "idle"]
GaugeLabels(t, r) == [type |-> t, reason |-> r]
Gauge(t, r, v) == rows' = Record(rows, "problem_gauge", GaugeLabels(t, r), v)

\* NewProblemMetricsManagerOrDie, run before main: see also Metrics.
ProblemInit ==
    /\ call = [c \in Callers |-> Idle]
    /\ mutex = NoCaller
    /\ problemTypeToReason = [t \in {} |-> ""]
    /\ asked = [t \in {} |-> ""]
ProblemTags == View["problem_counter"].tags \cup View["problem_gauge"].tags

IncrementProblemCounter(c, reason, count) ==
    /\ call[c] = Idle
    /\ rows' = Record(rows, "problem_counter", [reason |-> reason], count)
    /\ UNCHANGED <<tagMap, problemVars>>

SetProblemGauge(c, t, reason, value) ==
    /\ call[c] = Idle
    /\ call' = [call EXCEPT ![c] = [at |-> "lock", type |-> t, reason |-> reason, value |-> value]]
    /\ UNCHANGED <<tagMap, rows, mutex, problemTypeToReason, asked>>

Locked(c) ==
    /\ call[c].at = "lock"
    /\ call' = [call EXCEPT ![c].at = "clear"]
    /\ asked' = Over([t \in {call[c].type} |-> <<call[c].reason, call[c].value>>], asked)

\* Mutant of Lock: no mutex.
LockNothing(c) ==
    Locked(c) /\ UNCHANGED <<tagMap, rows, mutex, problemTypeToReason>>

Lock(c) ==
    /\ mutex = NoCaller /\ mutex' = c
    /\ Locked(c) /\ UNCHANGED <<tagMap, rows, problemTypeToReason>>

ClearLastReason(c) ==
    /\ call[c].at = "clear"
    /\ IF call[c].type \in DOMAIN problemTypeToReason
       THEN Gauge(call[c].type, problemTypeToReason[call[c].type], 0)
       ELSE UNCHANGED rows
    /\ call' = [call EXCEPT ![c].at = "set"]
    /\ UNCHANGED <<tagMap, mutex, problemTypeToReason, asked>>

\* The new reason is recorded and the mutex released.
SetReason(c) ==
    /\ call[c].at = "set"
    /\ problemTypeToReason' = Over([t \in {call[c].type} |-> call[c].reason], problemTypeToReason)
    /\ Gauge(call[c].type, call[c].reason, call[c].value)
    /\ mutex' = NoCaller
    /\ call' = [call EXCEPT ![c] = Idle]
    /\ UNCHANGED <<tagMap, asked>>

\* The monitors that report metrics are a matter of configuration.
ProblemNext(reporting) ==
    \E c \in reporting :
        \/ \E r \in Reasons, n \in 0 .. 1 : IncrementProblemCounter(c, r, n)
        \/ \E t \in ProblemTypes, r \in Reasons, v \in 0 .. 1 : SetProblemGauge(c, t, r, v)
        \/ Lock(c) \/ ClearLastReason(c) \/ SetReason(c)

-----------------------------------------------------------------------------

ReasonsSet(t) ==
    {r \in Reasons : LET row == Row("problem_gauge", GaugeLabels(t, r))
                     IN  row \in DOMAIN rows /\ rows[row] = 1}

\* SetProblemGauge: "at any point of time, for each type of permanent problem,
\* there should be at most one reason got set to 1", with monitors that set
\* gauges of the same type at the same time, and for a scrape that comes between
\* the two records of a call.  Between calls that reason is the one of the last
\* call that took the mutex, if it said 1, and there is none otherwise.
LastReasonOnly ==
    /\ \A t \in ProblemTypes : Cardinality(ReasonsSet(t)) <= 1
    /\ mutex = NoCaller =>
           \A t \in DOMAIN asked :
               ReasonsSet(t) = (IF asked[t][2] = 1 THEN {asked[t][1]} ELSE {})
=============================================================================
