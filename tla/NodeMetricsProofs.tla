-------------------------- MODULE NodeMetricsProofs --------------------------
(***************************************************************************)
(* Proofs about the metrics of one process: what the problem metrics       *)
(* manager and the collectors of the system stats monitor record, for any  *)
(* number of callers, problem types, reasons and devices.                  *)
(***************************************************************************)
EXTENDS NodeMetrics, FiniteSetTheorems, TLAPS

-----------------------------------------------------------------------------
(* Views and rows *)

\* The views that the proofs are about.
LEMMA ViewFacts ==
    /\ View["problem_gauge"] = GaugeView({"type", "reason"})
    /\ View["cpu_usage_time"] = SumView({"state"})
    /\ View["disk_io_time"] = SumView({"device_name"})
    /\ View["disk_weighted_io"] = SumView({"device_name"})
    /\ View["disk_ops"] = SumView({"device_name", "direction"})
BY Zenon DEF View, CPUViews, DiskViews, HostViews, MemoryViews, OSFeatureViews, NetViews, ProblemViews, Over

LEMMA IncreaseViews ==
    /\ \A id \in {"cpu_usage_time", "disk_io_time", "disk_weighted_io", "disk_ops"} :
          View[id].aggregation = "Sum"
    /\ View["disk_io_time"].tags = {"device_name"} /\ View["disk_weighted_io"].tags = {"device_name"}
    /\ View["disk_ops"].tags = {"device_name", "direction"}
BY ViewFacts DEF SumView

\* A step that records to another metric leaves a row alone.
Same(data, new, id) ==
    \A r : r[1] = id => /\ r \in DOMAIN new <=> r \in DOMAIN data
                        /\ r \in DOMAIN data => new[r] = data[r]

LEMMA RecordAllElsewhere ==
    ASSUME NEW data, NEW id, NEW other, other # id, NEW ms
    PROVE  Same(data, RecordAll(data, other, ms), id)
<1> DEFINE accepted == {m \in ms : DOMAIN m[1] \subseteq tagMap}
           touched == {Row(other, m[1]) : m \in accepted}
           new == RecordAll(data, other, ms)
<1>1. \A r \in touched : r[1] # id
  <2>1. \A labels : Row(other, labels)[1] = other
    BY DEF Row
  <2> HIDE DEF accepted
  <2> QED BY <2>1
<1>2. /\ DOMAIN new = touched \cup DOMAIN data
      /\ \A r \in DOMAIN new : r \notin touched => new[r] = data[r]
  BY Zenon DEF RecordAll, Over
<1> HIDE DEF touched, new
<1>3. Same(data, new, id)
  BY <1>1, <1>2 DEF Same
<1> QED BY <1>3 DEF new

LEMMA SameTransitive ==
    ASSUME NEW a, NEW b, NEW c, NEW id, Same(a, b, id), Same(b, c, id)
    PROVE  Same(a, c, id)
BY DEF Same

LEMMA RecordIfElsewhere ==
    ASSUME NEW data, NEW id, NEW other, other # id, NEW ms
    PROVE  Same(data, RecordIf(data, other, ms), id)
<1>1. Same(data, data, id)
  BY DEF Same
<1> QED BY <1>1, RecordAllElsewhere DEF RecordIf

-----------------------------------------------------------------------------
(* The gauge of problems *)

Problem == "problem_gauge"
GaugeRow(t, r) == Row(Problem, GaugeLabels(t, r))

LEMMA GaugeRows ==
    ASSUME NEW t, NEW r, NEW u, NEW q
    PROVE  GaugeRow(t, r)[1] = Problem /\ (GaugeRow(t, r) = GaugeRow(u, q) => t = u /\ r = q)
<1> DEFINE labels(x, y) == [type |-> x, reason |-> y]
           cut(x, y) == [l \in {"type", "reason"} |-> labels(x, y)[l]]
<1>1. \A x, y : GaugeRow(x, y) = <<Problem, cut(x, y)>>
  <2> TAKE x, y
  <2>1. View[Problem].tags = {"type", "reason"}
    BY ViewFacts DEF GaugeView, Problem
  <2>2. DOMAIN labels(x, y) = {"type", "reason"}
    OBVIOUS
  <2>3. View[Problem].tags \cap DOMAIN labels(x, y) = {"type", "reason"}
    BY <2>1, <2>2
  <2> QED BY <2>3 DEF GaugeRow, Row, GaugeLabels, Restrict
<1>2. \A x, y : cut(x, y)["type"] = x /\ cut(x, y)["reason"] = y
  OBVIOUS
<1> HIDE DEF cut
<1> QED BY <1>1, <1>2

\* The reasons that are set in the data of the views.
SetIn(data, t) == {r \in Reasons : GaugeRow(t, r) \in DOMAIN data /\ data[GaugeRow(t, r)] = 1}

LEMMA SetInSame ==
    ASSUME NEW a, NEW b, Same(a, b, Problem), NEW t
    PROVE  SetIn(b, t) = SetIn(a, t)
<1>1. \A r : GaugeRow(t, r)[1] = Problem
  BY GaugeRows
<1> QED BY <1>1 DEF SetIn, Same

\* A gauge that is recorded sets or clears its reason.
LEMMA GaugeRecorded ==
    ASSUME ProblemTags \subseteq tagMap, NEW t, NEW r \in Reasons, NEW v \in {0, 1}, NEW data, NEW u
    PROVE  SetIn(Record(data, Problem, GaugeLabels(t, r), v), u)
             = IF u # t THEN SetIn(data, u)
               ELSE IF v = 1 THEN SetIn(data, u) \cup {r} ELSE SetIn(data, u) \ {r}
<1> DEFINE labels == GaugeLabels(t, r)
           m == <<labels, v>>
           ms == {m}
           g == GaugeRow(t, r)
           new == RecordAll(data, Problem, ms)
           accepted == {k \in ms : DOMAIN k[1] \subseteq tagMap}
           value == [q \in {Row(Problem, k[1]) : k \in accepted} |->
                        (CHOOSE k \in accepted : Row(Problem, k[1]) = q)[2]]
<1>1. accepted = {m}
  <2>1. DOMAIN labels \subseteq tagMap
    <3>1. View["problem_gauge"].tags = {"type", "reason"}
      BY ViewFacts DEF GaugeView
    <3>2. DOMAIN labels = {"type", "reason"}
      BY DEF GaugeLabels
    <3> QED BY <3>1, <3>2 DEF ProblemTags
  <2>2. m[1] = labels
    OBVIOUS
  <2> HIDE DEF m, labels
  <2> QED BY <2>1, <2>2
<1>2. {Row(Problem, k[1]) : k \in accepted} = {g} /\ Row(Problem, m[1]) = g
  <2>1. Row(Problem, m[1]) = g
    BY DEF GaugeRow
  <2> HIDE DEF m, g, accepted
  <2> QED BY <1>1, <2>1
<1>3. (CHOOSE k \in accepted : Row(Problem, k[1]) = g) = m
  <2> HIDE DEF m, g, accepted
  <2> QED BY <1>1, <1>2
<1>4. value = [q \in {g} |-> v]
  <2>1. m[2] = v
    OBVIOUS
  <2> HIDE DEF m, g, accepted
  <2> QED BY <1>2, <1>3, <2>1, Zenon
<1>5. new = Over(value, data)
  <2>1. View[Problem].aggregation # "Sum"
    BY ViewFacts DEF GaugeView, Problem
  <2> QED BY <2>1, Zenon DEF RecordAll
<1> HIDE DEF value, g, new
<1>6. /\ DOMAIN new = DOMAIN data \cup {g} /\ new[g] = v
      /\ \A q \in DOMAIN data : q # g => new[q] = data[q]
  BY <1>4, <1>5 DEF Over
<1>7. \A q \in Reasons : GaugeRow(u, q) = g => u = t /\ q = r
  BY GaugeRows DEF g
<1>8. u = t => GaugeRow(u, r) = g
  BY DEF g
<1>9. SetIn(new, u) = IF u # t THEN SetIn(data, u)
                      ELSE IF v = 1 THEN SetIn(data, u) \cup {r} ELSE SetIn(data, u) \ {r}
  <2>1. CASE u # t
    BY <1>6, <1>7, <2>1, Zenon DEF SetIn
  <2>2. CASE u = t /\ v = 1
    BY <1>6, <1>7, <1>8, <2>2 DEF SetIn
  <2>3. CASE u = t /\ v = 0
    <3>1. ASSUME NEW q \in Reasons
          PROVE  (GaugeRow(u, q) \in DOMAIN new /\ new[GaugeRow(u, q)] = 1)
                   <=> (GaugeRow(u, q) \in DOMAIN data /\ data[GaugeRow(u, q)] = 1 /\ q # r)
      <4>1. CASE q = r
        BY <1>6, <1>8, <2>3, <4>1
      <4>2. CASE q # r
        BY <1>6, <1>7, <4>2
      <4> QED BY <4>1, <4>2, Zenon
    <3> QED BY <2>3, <3>1 DEF SetIn
  <2> QED BY <2>1, <2>2, <2>3
<1> QED BY <1>9 DEF new, Record

-----------------------------------------------------------------------------
(* The inductive invariant *)

\* Every device that was measured has an age, that of the sample or more.
Ages ==
    /\ sampleAge \in Nat /\ ownAge \in [DOMAIN lastIO -> Nat]
    /\ \A d \in DOMAIN lastIO :
          sampleAge <= ownAge[d] /\ (d \in lastSample => sampleAge = ownAge[d])

CallState == [at : {"lock", "clear", "set"}, type : ProblemTypes, reason : Reasons, value : {0, 1}]

Calls ==
    /\ config \in Configs
    /\ ProblemTags \subseteq tagMap
    /\ call \in [Callers -> {Idle} \cup CallState]
    /\ DOMAIN asked \subseteq ProblemTypes
    /\ \A t \in DOMAIN asked : asked[t] \in Reasons \X {0, 1}
    /\ \A t \in DOMAIN problemTypeToReason : problemTypeToReason[t] \in Reasons

\* The mutex is held exactly by a caller between its two records.
MutexHeld == \A c \in Callers : mutex = c <=> call[c].at \in {"clear", "set"}

\* No reason but the one on record is ever set, and none once it is cleared.
OnRecord ==
    /\ \A t \in ProblemTypes : t \notin DOMAIN problemTypeToReason => SetIn(rows, t) = {}
    /\ \A t \in DOMAIN problemTypeToReason : SetIn(rows, t) \subseteq {problemTypeToReason[t]}
    /\ \A c \in Callers : call[c].at = "set" => SetIn(rows, call[c].type) = {}

InProgress(t) == \E c \in Callers : call[c].at \in {"clear", "set"} /\ call[c].type = t

\* What the last caller asked for is told, or is about to be.
AskedIsTold ==
    /\ \A t \in DOMAIN asked : ~InProgress(t) =>
           SetIn(rows, t) = (IF asked[t][2] = 1 THEN {asked[t][1]} ELSE {})
    /\ \A c \in Callers : call[c].at \in {"clear", "set"} =>
           /\ call[c].type \in DOMAIN asked
           /\ asked[call[c].type] = <<call[c].reason, call[c].value>>

ProblemInv == Calls /\ MutexHeld /\ OnRecord /\ AskedIsTold

\* The rows of the metrics that are fed with increases.
CPURow(s) == Row("cpu_usage_time", [state |-> s])
TimeRow(d) == Row("disk_io_time", [device_name |-> d])
WeightedRow(d) == Row("disk_weighted_io", [device_name |-> d])
OpsRow(d) == Row("disk_ops", Over([direction |-> "read"], [device_name |-> d]))

ToldIn(data, q) == IF q \in DOMAIN data THEN data[q] ELSE 0

\* A row tells what its collector read last, and so does the history.
Adds(data, known, shown, q, last) ==
    /\ shown => ToldIn(data, q) = last % SumModulus
    /\ q \in DOMAIN known => shown /\ q \in DOMAIN data /\ known[q] = last

IOs == [time : Counters, ops : Counters, weighted : Counters]

LastTypes ==
    /\ lastUsageTime \in [CPUStates -> Counters]
    /\ DOMAIN lastIO \subseteq Devices
    /\ \A d \in DOMAIN lastIO : lastIO[d] \in IOs

\* The metrics have their tags once the monitor is there.
Created ==
    monitor \notin {"new", "dead"} =>
        \A id \in config.named : View[id].tags \subseteq tagMap

LastTold ==
    /\ \A s \in CPUStates :
           Adds(rows, counters, Shown("cpu_usage_time"), CPURow(s), lastUsageTime[s])
    /\ \A d \in Devices :
           /\ Adds(rows, counters, Shown("disk_io_time"), TimeRow(d), LastIO(d).time)
           /\ Adds(rows, counters, Shown("disk_weighted_io"), WeightedRow(d), LastIO(d).weighted)
           /\ Adds(rows, counters, Shown("disk_ops"), OpsRow(d), LastIO(d).ops)

\* The history knows no other rows.
KnownRows ==
    \A r \in DOMAIN counters :
        /\ r[1] = "cpu_usage_time" => \E s \in CPUStates : r = CPURow(s)
        /\ r[1] = "disk_io_time" => \E d \in Devices : r = TimeRow(d)
        /\ r[1] = "disk_weighted_io" => \E d \in Devices : r = WeightedRow(d)
        /\ r[1] = "disk_ops" => \E d \in Devices : r = OpsRow(d)

SumInv == LastTypes /\ Created /\ LastTold /\ KnownRows
IInv == Ages /\ ProblemInv /\ SumInv

-----------------------------------------------------------------------------
(* The problem metrics manager keeps the invariant *)

LEMMA CallFacts ==
    ASSUME Calls, NEW c \in Callers
    PROVE  /\ call[c].at # "idle" => call[c] \in CallState
           /\ call[c] = Idle => call[c].at = "idle"
BY DEF Calls, CallState, Idle

\* Steps that leave the gauge of problems and its callers alone.
LEMMA ProblemStutter ==
    ASSUME ProblemInv, UNCHANGED <<config, problemVars>>, tagMap \subseteq tagMap',
           Same(rows, rows', Problem)
    PROVE  ProblemInv'
<1>1. \A t : SetIn(rows', t) = SetIn(rows, t)
  BY SetInSame
<1>2. Calls'
  BY DEF ProblemInv, Calls, problemVars, ProblemTags
<1>3. MutexHeld'
  BY DEF ProblemInv, MutexHeld, problemVars
<1>4. OnRecord'
  BY <1>1, Zenon DEF ProblemInv, OnRecord, problemVars
<1>5. AskedIsTold'
  BY <1>1, Zenon DEF ProblemInv, AskedIsTold, InProgress, problemVars
<1> QED BY <1>2, <1>3, <1>4, <1>5 DEF ProblemInv

LEMMA IncrementStep ==
    ASSUME ProblemInv, UNCHANGED config, NEW c \in Callers, NEW r \in Reasons, NEW n \in 0 .. 1,
           IncrementProblemCounter(c, r, n)
    PROVE  ProblemInv'
<1>1. Same(rows, rows', Problem)
  BY RecordAllElsewhere DEF IncrementProblemCounter, Record, Problem
<1> QED BY <1>1, ProblemStutter DEF IncrementProblemCounter

LEMMA SetProblemGaugeStep ==
    ASSUME ProblemInv, UNCHANGED config, NEW c \in Callers,
           NEW t \in ProblemTypes, NEW r \in Reasons, NEW v \in 0 .. 1,
           SetProblemGauge(c, t, r, v)
    PROVE  ProblemInv'
<1> DEFINE n == [at |-> "lock", type |-> t, reason |-> r, value |-> v]
<1>1. n \in CallState /\ n.at = "lock"
  BY DEF CallState
<1>2. call[c].at = "idle"
  BY CallFacts DEF ProblemInv, SetProblemGauge
<1>3. call' = [call EXCEPT ![c] = n]
  BY DEF SetProblemGauge
<1> HIDE DEF n
<1>4. call \in [Callers -> {Idle} \cup CallState] /\ call'[c] = n
      /\ \A d \in Callers : d # c => call'[d] = call[d]
  BY <1>3, Zenon DEF ProblemInv, Calls
<1>5. Calls'
  BY <1>1, <1>3, <1>4, Zenon DEF ProblemInv, Calls, SetProblemGauge, ProblemTags
<1>6. MutexHeld'
  BY <1>1, <1>2, <1>4 DEF ProblemInv, MutexHeld, SetProblemGauge
<1>7. OnRecord'
  <2>1. \A d \in Callers : call'[d].at = "set" => call[d].at = "set" /\ call'[d] = call[d]
    BY <1>1, <1>4
  <2> QED BY <2>1 DEF ProblemInv, OnRecord, SetProblemGauge
<1>8. AskedIsTold'
  <2>1. \A d \in Callers : call'[d].at \in {"clear", "set"} <=> call[d].at \in {"clear", "set"}
    BY <1>1, <1>2, <1>4, Zenon
  <2>2. \A d \in Callers : call'[d].at \in {"clear", "set"} => call'[d] = call[d]
    BY <1>1, <1>4, Zenon
  <2>3. \A u : InProgress(u)' <=> InProgress(u)
    BY <2>1, <2>2, Zenon DEF InProgress
  <2> QED BY <2>1, <2>2, <2>3, Zenon DEF ProblemInv, AskedIsTold, SetProblemGauge
<1> QED BY <1>5, <1>6, <1>7, <1>8 DEF ProblemInv

LEMMA LockStep ==
    ASSUME ProblemInv, UNCHANGED config, NEW c \in Callers, Lock(c)
    PROVE  ProblemInv'
<1> DEFINE old == call[c]
           n == [old EXCEPT !.at = "clear"]
<1>1. old \in CallState /\ old.at = "lock"
  BY CallFacts DEF ProblemInv, Lock, Locked
<1>2. n \in CallState /\ n.at = "clear" /\ n.type = old.type /\ n.reason = old.reason /\ n.value = old.value
  <2> HIDE DEF old
  <2> QED BY <1>1 DEF CallState
<1>3. call' = [call EXCEPT ![c] = n]
  BY DEF Lock, Locked
<1>4. asked' = Over([t \in {old.type} |-> <<old.reason, old.value>>], asked)
  BY DEF Lock, Locked
<1> HIDE DEF n
<1>5. call \in [Callers -> {Idle} \cup CallState] /\ call'[c] = n
      /\ \A d \in Callers : d # c => call'[d] = call[d]
  BY <1>3, Zenon DEF ProblemInv, Calls
<1> HIDE DEF old
<1>6. /\ DOMAIN asked' = DOMAIN asked \cup {old.type}
      /\ asked'[old.type] = <<old.reason, old.value>>
      /\ \A t \in DOMAIN asked : t # old.type => asked'[t] = asked[t]
  BY <1>4 DEF Over
<1>7. \A d \in Callers : call[d].at \notin {"clear", "set"}
  BY CallersAssumption DEF ProblemInv, MutexHeld, Lock
<1>8. Calls'
  <2>1. <<old.reason, old.value>> \in Reasons \X {0, 1} /\ old.type \in ProblemTypes
    BY <1>1 DEF CallState
  <2>2. call' \in [Callers -> {Idle} \cup CallState]
    BY <1>2, <1>3, <1>5
  <2>3. \A t \in DOMAIN asked' : asked'[t] \in Reasons \X {0, 1}
    BY <1>6, <2>1, Zenon DEF ProblemInv, Calls
  <2> QED BY <1>6, <2>1, <2>2, <2>3, Zenon DEF ProblemInv, Calls, Lock, ProblemTags
<1>9. MutexHeld'
  BY <1>2, <1>5, <1>7 DEF MutexHeld, Lock
<1>10. OnRecord'
  <2>1. \A d \in Callers : call'[d].at # "set"
    BY <1>2, <1>5, <1>7
  <2> QED BY <2>1 DEF ProblemInv, OnRecord, Lock
<1>11. AskedIsTold'
  <2>1. \A d \in Callers : call'[d].at \in {"clear", "set"} => d = c
    BY <1>5, <1>7
  <2>2. \A t : t = old.type => InProgress(t)'
    BY <1>2, <1>5 DEF InProgress
  <2>3. \A t : ~InProgress(t)
    BY <1>7 DEF InProgress
  <2>4. ASSUME NEW t \in DOMAIN asked', ~InProgress(t)'
        PROVE  SetIn(rows', t) = (IF asked'[t][2] = 1 THEN {asked'[t][1]} ELSE {})
    <3>1. t # old.type
      BY <2>2, <2>4, Zenon
    <3>2. t \in DOMAIN asked /\ asked'[t] = asked[t]
      BY <1>6, <3>1
    <3>3. rows' = rows
      BY DEF Lock
    <3>4. SetIn(rows, t) = (IF asked[t][2] = 1 THEN {asked[t][1]} ELSE {})
      BY <2>3, <3>2, Zenon DEF ProblemInv, AskedIsTold
    <3> QED BY <3>2, <3>3, <3>4, Zenon
  <2> QED BY <1>2, <1>5, <1>6, <2>1, <2>4, Zenon DEF AskedIsTold
<1> QED BY <1>8, <1>9, <1>10, <1>11 DEF ProblemInv

LEMMA ClearLastReasonStep ==
    ASSUME ProblemInv, UNCHANGED config, NEW c \in Callers, ClearLastReason(c)
    PROVE  ProblemInv'
<1> DEFINE old == call[c]
           n == [old EXCEPT !.at = "set"]
<1>1. old \in CallState /\ old.at = "clear"
  BY CallFacts DEF ProblemInv, ClearLastReason
<1>2. n \in CallState /\ n.at = "set" /\ n.type = old.type /\ n.reason = old.reason /\ n.value = old.value
  <2> HIDE DEF old
  <2> QED BY <1>1 DEF CallState
<1>3. call' = [call EXCEPT ![c] = n]
  BY DEF ClearLastReason
<1>4. IF old.type \in DOMAIN problemTypeToReason
      THEN rows' = Record(rows, Problem, GaugeLabels(old.type, problemTypeToReason[old.type]), 0)
      ELSE rows' = rows
  BY DEF ClearLastReason, Gauge, Problem
<1> HIDE DEF n
<1>5. call \in [Callers -> {Idle} \cup CallState] /\ call'[c] = n
      /\ \A d \in Callers : d # c => call'[d] = call[d]
  BY <1>3 DEF ProblemInv, Calls
<1>6. \A d \in Callers : call[d].at \in {"clear", "set"} => d = c
  BY <1>1 DEF ProblemInv, MutexHeld
<1> HIDE DEF old
<1>7. old.type \in ProblemTypes
  BY <1>1 DEF CallState
<1>8. SetIn(rows', old.type) = {} /\ \A u : u # old.type => SetIn(rows', u) = SetIn(rows, u)
  <2>1. CASE old.type \notin DOMAIN problemTypeToReason
    BY <1>4, <1>7, <2>1, Zenon DEF ProblemInv, OnRecord
  <2>2. CASE old.type \in DOMAIN problemTypeToReason
    <3> DEFINE r == problemTypeToReason[old.type]
    <3>1. r \in Reasons /\ ProblemTags \subseteq tagMap
      BY <2>2 DEF ProblemInv, Calls
    <3>2. SetIn(rows, old.type) \subseteq {r}
      BY <2>2 DEF ProblemInv, OnRecord
    <3>3. rows' = Record(rows, Problem, GaugeLabels(old.type, r), 0)
      BY <1>4, <2>2
    <3> HIDE DEF r
    <3>4. \A u : SetIn(rows', u) = IF u # old.type THEN SetIn(rows, u) ELSE SetIn(rows, u) \ {r}
      BY <3>1, <3>3, GaugeRecorded
    <3> QED BY <3>2, <3>4
  <2> QED BY <2>1, <2>2, Zenon
<1>9. Calls'
  BY <1>2, <1>3, <1>5 DEF ProblemInv, Calls, ClearLastReason, ProblemTags
<1>10. MutexHeld'
  BY <1>1, <1>2, <1>5 DEF ProblemInv, MutexHeld, ClearLastReason, old
<1>11. OnRecord'
  <2>1. \A d \in Callers : call'[d].at = "set" => d = c
    BY <1>5, <1>6
  <2> QED BY <1>2, <1>5, <1>8, <2>1, Zenon DEF ProblemInv, OnRecord, ClearLastReason
<1>12. AskedIsTold'
  <2>1. \A t : InProgress(t)' <=> t = old.type
    BY <1>2, <1>5, <1>6 DEF InProgress
  <2>2. \A t : InProgress(t) <=> t = old.type
    BY <1>1, <1>6 DEF InProgress, old
  <2>3. \A d \in Callers : call'[d].at \in {"clear", "set"} => d = c
    BY <1>5, <1>6
  <2>4. old.type \in DOMAIN asked /\ asked[old.type] = <<old.reason, old.value>>
    BY <1>1, Zenon DEF ProblemInv, AskedIsTold, old
  <2>5. asked' = asked
    BY DEF ClearLastReason
  <2> QED BY <1>2, <1>5, <1>8, <2>1, <2>2, <2>3, <2>4, <2>5, Zenon DEF ProblemInv, AskedIsTold
<1> QED BY <1>9, <1>10, <1>11, <1>12 DEF ProblemInv

LEMMA SetReasonStep ==
    ASSUME ProblemInv, UNCHANGED config, NEW c \in Callers, SetReason(c)
    PROVE  ProblemInv'
<1> DEFINE old == call[c]
<1>1. old \in CallState /\ old.at = "set"
  BY CallFacts DEF ProblemInv, SetReason
<1>2. old.type \in ProblemTypes /\ old.reason \in Reasons /\ old.value \in {0, 1}
  <2> HIDE DEF old
  <2> QED BY <1>1 DEF CallState
<1>3. SetIn(rows, old.type) = {}
  BY <1>1, Zenon DEF ProblemInv, OnRecord
<1>4. old.type \in DOMAIN asked /\ asked[old.type] = <<old.reason, old.value>>
  BY <1>1 DEF ProblemInv, AskedIsTold
<1>5. call' = [call EXCEPT ![c] = Idle] /\ Idle.at = "idle"
  BY DEF SetReason, Idle
<1>6. rows' = Record(rows, Problem, GaugeLabels(old.type, old.reason), old.value)
  BY DEF SetReason, Gauge, Problem
<1>7. problemTypeToReason' = Over([t \in {old.type} |-> old.reason], problemTypeToReason)
  BY DEF SetReason
<1>8. call \in [Callers -> {Idle} \cup CallState] /\ call'[c] = Idle
      /\ \A d \in Callers : d # c => call'[d] = call[d]
  BY <1>5, Zenon DEF ProblemInv, Calls
<1>9. \A d \in Callers : call[d].at \in {"clear", "set"} => d = c
  BY <1>1, Zenon DEF ProblemInv, MutexHeld
<1>10. \A d \in Callers : call'[d].at \notin {"clear", "set"}
  BY <1>5, <1>8, <1>9
<1>11. \A t : InProgress(t) => t = old.type
  BY <1>9 DEF InProgress
<1> HIDE DEF old
<1>12. /\ DOMAIN problemTypeToReason' = DOMAIN problemTypeToReason \cup {old.type}
       /\ problemTypeToReason'[old.type] = old.reason
       /\ \A t \in DOMAIN problemTypeToReason :
              t # old.type => problemTypeToReason'[t] = problemTypeToReason[t]
  BY <1>7 DEF Over
<1>13. /\ SetIn(rows', old.type) = (IF old.value = 1 THEN {old.reason} ELSE {})
       /\ \A u : u # old.type => SetIn(rows', u) = SetIn(rows, u)
  <2>1. ProblemTags \subseteq tagMap
    BY DEF ProblemInv, Calls
  <2> DEFINE t == old.type
             r == old.reason
             v == old.value
             new == Record(rows, Problem, GaugeLabels(t, r), v)
  <2>2. r \in Reasons /\ v \in {0, 1}
    BY <1>2
  <2> HIDE DEF t, r, v
  <2>3. \A u : SetIn(new, u) = IF u # t THEN SetIn(rows, u)
                               ELSE IF v = 1 THEN SetIn(rows, u) \cup {r} ELSE SetIn(rows, u) \ {r}
    BY <2>1, <2>2, GaugeRecorded
  <2>4. rows' = new
    BY <1>6 DEF t, r, v
  <2> HIDE DEF new
  <2>5. SetIn(rows, t) = {}
    BY <1>3 DEF t
  <2>6. SetIn(rows', t) = (IF v = 1 THEN {r} ELSE {}) /\ \A u : u # t => SetIn(rows', u) = SetIn(rows, u)
    BY <2>3, <2>4, <2>5
  <2> QED BY <2>6 DEF t, r, v
<1>14. Calls'
  <2>1. call' \in [Callers -> {Idle} \cup CallState]
    BY <1>5, <1>8
  <2>2. \A t \in DOMAIN problemTypeToReason' : problemTypeToReason'[t] \in Reasons
    BY <1>2, <1>12, Zenon DEF ProblemInv, Calls
  <2> QED BY <2>1, <2>2, Zenon DEF ProblemInv, Calls, SetReason, ProblemTags
<1>15. MutexHeld'
  BY <1>10, CallersAssumption DEF MutexHeld, SetReason
<1>16. OnRecord'
  BY <1>10, <1>12, <1>13, Zenon DEF ProblemInv, OnRecord
<1>17. AskedIsTold'
  <2>1. asked' = asked
    BY DEF SetReason
  <2>2. ASSUME NEW t \in DOMAIN asked
        PROVE  SetIn(rows', t) = (IF asked[t][2] = 1 THEN {asked[t][1]} ELSE {})
    <3>1. CASE t = old.type
      BY <1>4, <1>13, <3>1
    <3>2. CASE t # old.type
      BY <1>11, <1>13, <3>2 DEF ProblemInv, AskedIsTold
    <3> QED BY <3>1, <3>2
  <2> QED BY <1>10, <2>1, <2>2 DEF AskedIsTold
<1> QED BY <1>14, <1>15, <1>16, <1>17 DEF ProblemInv

-----------------------------------------------------------------------------
(* Arithmetic of the sums and of the differences *)

LEMMA Division ==
    ASSUME NEW M \in Nat \ {0}, NEW x \in Int
    PROVE  x = M * (x \div M) + (x % M) /\ x \div M \in Int /\ x % M \in 0 .. M - 1
OBVIOUS

LEMMA RemainderUnique ==
    ASSUME NEW M \in Nat \ {0}, NEW p \in Int, NEW q \in Int, NEW r \in 0 .. M - 1,
           NEW s \in 0 .. M - 1, M * p + r = M * q + s
    PROVE  r = s
<1>1. M * (p - q) = s - r
  OBVIOUS
<1> DEFINE k == p - q
<1>2. k \in Int
  OBVIOUS
<1> HIDE DEF k
<1>3. M * k = s - r
  BY <1>1 DEF k
<1>4. k >= 1 => M * k >= M
  BY <1>2
<1>5. k <= -1 => M * k <= -M
  BY <1>2
<1>6. k = 0
  BY <1>2, <1>3, <1>4, <1>5
<1> QED BY <1>3, <1>6

\* The sum stays the remainder of the counter when its increase is added.
LEMMA IncreaseAdded ==
    ASSUME NEW M \in Nat \ {0}, NEW a \in Int, NEW u \in Int
    PROVE  ((a % M) + (u - a)) % M = u % M
<1> DEFINE x == (a % M) + (u - a)
           k == a \div M
           p == x \div M
           q == u \div M
<1>1. a = M * k + (a % M) /\ k \in Int /\ a % M \in Int
  BY Division
<1>2. x \in Int /\ u = x + M * k
  <2> HIDE DEF k
  <2> QED BY <1>1
<1> HIDE DEF x
<1>3. x = M * p + (x % M) /\ p \in Int /\ x % M \in 0 .. M - 1
  BY <1>2, Division
<1>4. u = M * q + (u % M) /\ q \in Int /\ u % M \in 0 .. M - 1
  BY Division
<1> HIDE DEF k, p, q
<1>5. M * (p + k) = M * p + M * k /\ p + k \in Int /\ M * p \in Int /\ M * k \in Int /\ M * q \in Int
  BY <1>1, <1>3, <1>4
<1>6. M * (p + k) + (x % M) = M * q + (u % M)
  <2> DEFINE xm == x % M
             um == u % M
             mp == M * p
             mk == M * k
             mq == M * q
             ms == M * (p + k)
  <2>1. xm \in Int /\ um \in Int /\ mp \in Int /\ mk \in Int /\ mq \in Int /\ ms = mp + mk
    BY <1>3, <1>4, <1>5
  <2>2. x = mp + xm /\ u = mq + um /\ u = x + mk
    BY <1>2, <1>3, <1>4
  <2> HIDE DEF xm, um, mp, mk, mq, ms
  <2>3. ms + xm = mq + um
    BY <2>1, <2>2, <1>2
  <2> QED BY <2>3 DEF ms, xm, mq, um
<1>7. x % M = u % M
  BY <1>3, <1>4, <1>5, <1>6, RemainderUnique, Zenon
<1> QED BY <1>7 DEF x

\* Go's conversion undoes the wrap of an unsigned difference of counters.
LEMMA SignedDifference ==
    ASSUME NEW a \in Counters, NEW b \in Counters
    PROVE  Signed(Minus(a, b)) = a - b
<1> DEFINE W == 2 * HalfWord
           x == a - b
           p == x \div W
           m == x % W
<1>1. a \in Nat /\ b \in Nat /\ HalfWord \in Nat \ {0} /\ a < HalfWord /\ b < HalfWord
  BY StatsAssumption DEF Counters
<1>2. W \in Nat \ {0} /\ x \in Int
  BY <1>1
<1>3. x = W * p + m /\ p \in Int /\ m \in 0 .. W - 1
  <2> HIDE DEF W, x
  <2> QED BY <1>2, Division
<1> HIDE DEF p, m
<1>4. CASE x >= 0
  <2>1. x \in 0 .. W - 1 /\ W * p + m = W * 0 + x
    BY <1>1, <1>3, <1>4
  <2>2. m = x
    <3> HIDE DEF W, x
    <3> QED BY <1>2, <1>3, <2>1, RemainderUnique
  <2> QED BY <1>1, <1>4, <2>2 DEF Signed, Minus, m
<1>5. CASE x < 0
  <2>1. x + W \in 0 .. W - 1 /\ W * p + m = W * (-1) + (x + W)
    BY <1>1, <1>3, <1>5
  <2>2. m = x + W
    <3> DEFINE y == x + W
    <3>1. y \in 0 .. W - 1 /\ W * p + m = W * (-1) + y /\ -1 \in Int
      BY <2>1
    <3> HIDE DEF W, x, y
    <3>2. m = y
      BY <1>2, <1>3, <3>1, RemainderUnique
    <3> QED BY <3>2 DEF y
  <2>3. m >= HalfWord /\ m - W = x
    BY <1>1, <1>5, <2>2
  <2> QED BY <2>3 DEF Signed, Minus, m
<1> QED BY <1>2, <1>4, <1>5

-----------------------------------------------------------------------------
(* Rows that a measurement goes to *)

\* A measurement shares its row with no other.
Alone(id, ms, m) == m \in ms /\ \A k \in ms : Row(id, k[1]) = Row(id, m[1]) => k = m

Holds(f, q, v) == q \in DOMAIN f /\ f[q] = v

\* Then it is added to the row.
LEMMA RecordedAt ==
    ASSUME NEW data, NEW id, View[id].aggregation = "Sum", NEW ms, NEW m,
           Alone(id, ms, m), DOMAIN m[1] \subseteq tagMap
    PROVE  Holds(RecordAll(data, id, ms), Row(id, m[1]),
                 (ToldIn(data, Row(id, m[1])) + m[2]) % SumModulus)
<1> DEFINE accepted == {k \in ms : DOMAIN k[1] \subseteq tagMap}
           touched == {Row(id, k[1]) : k \in accepted}
           value == [r \in touched |-> (CHOOSE k \in accepted : Row(id, k[1]) = r)[2]]
           sum == [r \in DOMAIN value |->
                      ((IF r \in DOMAIN data THEN data[r] ELSE 0) + value[r]) % SumModulus]
           new == RecordAll(data, id, ms)
           q == Row(id, m[1])
<1>1. m \in accepted /\ \A k \in accepted : Row(id, k[1]) = q => k = m
  BY Zenon DEF Alone
<1>2. new = Over(sum, data)
  BY Zenon DEF RecordAll
<1> HIDE DEF accepted, q, new
<1>3. q \in touched
  BY <1>1 DEF q
<1>4. (CHOOSE k \in accepted : Row(id, k[1]) = q) = m
  <2>1. Row(id, m[1]) = q
    BY DEF q
  <2> QED BY <1>1, <2>1
<1>5. q \in DOMAIN value /\ value[q] = m[2] /\ DOMAIN value = touched
  BY <1>3, <1>4, Zenon
<1> HIDE DEF value, touched
<1>6. q \in DOMAIN sum /\ sum[q] = (ToldIn(data, q) + m[2]) % SumModulus
  BY <1>5 DEF ToldIn
<1> HIDE DEF sum
<1>7. q \in DOMAIN new /\ new[q] = sum[q]
  BY <1>2, <1>6 DEF Over
<1> QED BY <1>6, <1>7, Zenon DEF q, new, Holds

Keeps(data, new, q) == (q \in DOMAIN new <=> q \in DOMAIN data) /\ (q \in DOMAIN data => new[q] = data[q])

\* A row that no measurement goes to stays.
LEMMA RecordedElse ==
    ASSUME NEW data, NEW id, NEW ms, NEW q, \A k \in ms : Row(id, k[1]) # q
    PROVE  Keeps(data, RecordAll(data, id, ms), q)
<1> DEFINE accepted == {k \in ms : DOMAIN k[1] \subseteq tagMap}
           touched == {Row(id, k[1]) : k \in accepted}
           new == RecordAll(data, id, ms)
<1>1. q \notin touched
  OBVIOUS
<1>2. /\ DOMAIN new = touched \cup DOMAIN data
      /\ \A r \in DOMAIN new : r \notin touched => new[r] = data[r]
  BY Zenon DEF RecordAll, Over
<1> HIDE DEF touched, new
<1>3. Keeps(data, new, q)
  BY <1>1, <1>2 DEF Keeps
<1> QED BY <1>3 DEF new

LEMMA NotedAt ==
    ASSUME NEW known, NEW id, Shown(id), NEW ms, NEW m, Alone(id, ms, m)
    PROVE  Holds(Noted(known, id, ms), Row(id, m[1]), m[2])
<1> DEFINE touched == {Row(id, k[1]) : k \in ms}
           value == [r \in touched |-> (CHOOSE k \in ms : Row(id, k[1]) = r)[2]]
           new == Noted(known, id, ms)
           q == Row(id, m[1])
<1>1. m \in ms /\ \A k \in ms : Row(id, k[1]) = q => k = m
  BY DEF Alone
<1>2. new = Over(value, known)
  BY Zenon DEF Noted
<1> HIDE DEF q, new
<1>3. q \in touched
  BY <1>1 DEF q
<1>4. (CHOOSE k \in ms : Row(id, k[1]) = q) = m
  <2>1. Row(id, m[1]) = q
    BY DEF q
  <2> QED BY <1>1, <2>1
<1>5. q \in DOMAIN value /\ value[q] = m[2]
  BY <1>3, <1>4, Zenon
<1> HIDE DEF value, touched
<1>6. q \in DOMAIN new /\ new[q] = m[2]
  BY <1>2, <1>5, Zenon DEF Over
<1> QED BY <1>6, Zenon DEF q, new, Holds

LEMMA NotedElse ==
    ASSUME NEW known, NEW id, NEW ms, NEW q, Shown(id) => \A k \in ms : Row(id, k[1]) # q
    PROVE  Keeps(known, Noted(known, id, ms), q)
<1> DEFINE touched == {Row(id, k[1]) : k \in ms}
           new == Noted(known, id, ms)
<1>1. CASE ~Shown(id)
  BY <1>1, Zenon DEF Noted, Keeps
<1>2. CASE Shown(id)
  <2>1. q \notin touched
    BY <1>2
  <2>2. /\ DOMAIN new = touched \cup DOMAIN known
        /\ \A r \in DOMAIN new : r \notin touched => new[r] = known[r]
    BY <1>2, Zenon DEF Noted, Over
  <2> HIDE DEF touched, new
  <2>3. Keeps(known, new, q)
    BY <2>1, <2>2 DEF Keeps
  <2> QED BY <2>3 DEF new
<1> QED BY <1>1, <1>2

LEMMA NotedElsewhere ==
    ASSUME NEW known, NEW id, NEW other, other # id, NEW ms
    PROVE  Same(known, Noted(known, other, ms), id)
<1>1. \A labels : Row(other, labels)[1] = other
  BY DEF Row
<1>2. \A r : r[1] = id => \A k \in ms : Row(other, k[1]) # r
  BY <1>1
<1> DEFINE new == Noted(known, other, ms)
<1>3. ASSUME NEW r, r[1] = id
      PROVE  Keeps(known, new, r)
  <2>1. Shown(other) => \A k \in ms : Row(other, k[1]) # r
    BY <1>2, <1>3
  <2> QED BY <2>1, NotedElse
<1> HIDE DEF new
<1>4. Same(known, new, id)
  BY <1>3 DEF Same, Keeps
<1> QED BY <1>4 DEF new

-----------------------------------------------------------------------------
(* Collectors and the metrics they leave alone *)

\* A collector leaves the rows of other metrics, and what is known of them.
LEMMA CPUElsewhere ==
    ASSUME CollectCPU, NEW id,
           id \notin {"cpu_load", "cpu_usage_time", "system_total", "system_procs", "system_cpu_stat"}
    PROVE  Same(rows, rows', id) /\ Same(counters, counters', id)
<1> PICK load, usage, stat :
        /\ rows' = recordSystemStats(recordUsage(recordLoad(rows, load), usage), stat)
        /\ counters' =
             Noted(Noted(Noted(counters, "cpu_usage_time", UsageTimes(usage)),
                         "system_total", {<<Empty, s.total>> : s \in stat}),
                   "system_cpu_stat", CPUTimes(stat))
  BY Zenon DEF CollectCPU
<1> DEFINE a == recordLoad(rows, load)
           b == recordUsage(a, usage)
           c == RecordIf(b, "system_total", {<<Empty, s.total>> : s \in stat})
           d == RecordIf(c, "system_procs", {<<Empty, s.procs>> : s \in stat})
           e == RecordIf(d, "system_cpu_stat", CPUTimes(stat))
           k == Noted(counters, "cpu_usage_time", UsageTimes(usage))
           l == Noted(k, "system_total", {<<Empty, s.total>> : s \in stat})
           m == Noted(l, "system_cpu_stat", CPUTimes(stat))
<1>1. rows' = e /\ counters' = m
  BY Zenon DEF recordSystemStats
<1>2. Same(rows, a, id)
  BY RecordIfElsewhere, Zenon DEF recordLoad
<1>3. Same(a, b, id)
  <2> HIDE DEF a
  <2> QED BY RecordIfElsewhere, Zenon DEF recordUsage
<1>4. Same(b, c, id)
  <2> HIDE DEF b
  <2> QED BY RecordIfElsewhere, Zenon
<1>5. Same(c, d, id)
  <2> HIDE DEF c
  <2> QED BY RecordIfElsewhere, Zenon
<1>6. Same(d, e, id)
  <2> HIDE DEF d
  <2> QED BY RecordIfElsewhere, Zenon
<1>7. Same(counters, k, id)
  BY NotedElsewhere, Zenon
<1>8. Same(k, l, id)
  <2> HIDE DEF k
  <2> QED BY NotedElsewhere, Zenon
<1>9. Same(l, m, id)
  <2> HIDE DEF l
  <2> QED BY NotedElsewhere, Zenon
<1> HIDE DEF a, b, c, d, e, k, l, m
<1>10. Same(rows, e, id)
  BY <1>2, <1>3, <1>4, <1>5, <1>6, Zenon DEF Same
<1>11. Same(counters, m, id)
  BY <1>7, <1>8, <1>9, Zenon DEF Same
<1> QED BY <1>1, <1>10, <1>11, Zenon

LEMMA SpaceElsewhere ==
    ASSUME NEW data, NEW partitions, NEW usage, NEW id, id \notin {"disk_bytes_used", "disk_percent_used"}
    PROVE  Same(data, RecordSpace(data, partitions, usage), id)
<1> DEFINE firsts == FirstPartitions(partitions)
           Label(i, s) == [device_name |-> partitions[i][1],
                           mount_option |-> partitions[i][2], state |-> s]
           Used(i) == {<<Label(i, "used"), u>> : u \in usage[i]}
           Free(i) == {<<Label(i, "free"), MaxGauge - u>> : u \in usage[i]}
           both == UNION {Used(i) \cup Free(i) : i \in firsts}
           used == UNION {Used(i) : i \in firsts}
           bytes == RecordIf(data, "disk_bytes_used", both)
           percent == RecordIf(bytes, "disk_percent_used", used)
<1>1. RecordSpace(data, partitions, usage) = IF Shown("disk_bytes_used") THEN percent ELSE data
  BY Zenon DEF RecordSpace
<1> HIDE DEF both, used
<1>2. Same(data, bytes, id)
  BY RecordIfElsewhere
<1>3. Same(bytes, percent, id)
  <2> HIDE DEF bytes
  <2> QED BY RecordIfElsewhere
<1>4. Same(data, data, id)
  BY DEF Same
<1> HIDE DEF bytes, percent
<1>5. Same(data, percent, id)
  BY <1>2, <1>3, SameTransitive
<1> QED BY <1>1, <1>4, <1>5

LEMMA HostElsewhere ==
    ASSUME CollectHost, NEW id, id # "host_uptime"
    PROVE  Same(rows, rows', id) /\ Same(counters, counters', id)
<1>1. Same(rows, rows', id)
  BY RecordIfElsewhere, Zenon DEF CollectHost
<1>2. counters' = counters
  BY Zenon DEF CollectHost, history
<1> QED BY <1>1, <1>2 DEF Same

LEMMA MemoryElsewhere ==
    ASSUME CollectMemory, NEW id,
           id \notin {"memory_bytes_used", "memory_percent_used", "memory_other"}
    PROVE  Same(rows, rows', id) /\ Same(counters, counters', id)
<1>1. ASSUME NEW m PROVE Same(rows, recordMemory(rows, m), id)
  <2> DEFINE complete == Has({"total"} \cup MemoryStates)
             used == IF complete THEN {<<[state |-> "used"], 1024 * Signed(UsedMemory(m))>>} ELSE {}
             percent == IF complete /\ m["total"] > 0
                        THEN {<<[state |-> "used"], <<UsedMemory(m), m["total"]>> >>} ELSE {}
             a == RecordIf(rows, "memory_bytes_used", InState(MemoryStates, m) \cup used)
             b == RecordIf(a, "memory_percent_used", percent)
             c == RecordIf(b, "memory_other", InState({"other"}, m))
  <2>1. recordMemory(rows, m) = c
    BY DEF recordMemory
  <2> HIDE DEF used, percent
  <2>2. Same(rows, a, id)
    BY RecordIfElsewhere
  <2>3. Same(a, b, id)
    <3> HIDE DEF a
    <3> QED BY RecordIfElsewhere
  <2>4. Same(b, c, id)
    <3> HIDE DEF b
    <3> QED BY RecordIfElsewhere
  <2> HIDE DEF a, b, c
  <2>5. Same(rows, c, id)
    BY <2>2, <2>3, <2>4, Zenon DEF Same
  <2> QED BY <2>1, <2>5
<1>2. rows' = rows \/ \E m : rows' = recordMemory(rows, m)
  BY DEF CollectMemory
<1>3. Same(rows, rows, id) /\ Same(counters, counters, id)
  BY DEF Same
<1>4. counters' = counters
  BY DEF CollectMemory
<1> QED BY <1>1, <1>2, <1>3, <1>4

LEMMA OSFeatureElsewhere ==
    ASSUME CollectOSFeature, NEW id, id # "os_feature"
    PROVE  Same(rows, rows', id) /\ Same(counters, counters', id)
<1> DEFINE told == recordFeaturesFromCmdline(rows, CmdlineArgs(config.cmdline, withinQuotes))
<1>1. Same(rows, told, id)
  BY RecordAllElsewhere DEF recordFeaturesFromCmdline
<1>2. \A modules : Same(told, recordFeaturesFromModules(told, modules), id)
  <2> HIDE DEF told
  <2> QED BY RecordAllElsewhere DEF recordFeaturesFromModules
<1>3. \/ rows' = rows \/ rows' = told
      \/ \E modules : rows' = recordFeaturesFromModules(told, modules)
  BY DEF CollectOSFeature
<1>4. Same(rows, rows, id) /\ Same(counters, counters, id)
  BY DEF Same
<1> HIDE DEF told
<1>5. counters' = counters
  BY DEF CollectOSFeature, history
<1> QED BY <1>1, <1>2, <1>3, <1>4, <1>5, SameTransitive

LEMMA NetElsewhere ==
    ASSUME CollectNet, NEW id, id \notin {"net_rx", "net_tx"}
    PROVE  Same(rows, rows', id) /\ Same(counters, counters', id)
<1>1. CASE UNCHANGED <<rows, counters>>
  BY <1>1 DEF Same
<1>2. ASSUME NEW rx, NEW tx,
             rows' = RecordIf(RecordIf(rows, "net_rx", NetRecords(rx)), "net_tx", NetRecords(tx)),
             counters' = Noted(Noted(counters, "net_rx", NetRecords(rx)), "net_tx", NetRecords(tx))
      PROVE  Same(rows, rows', id) /\ Same(counters, counters', id)
  <2> DEFINE a == RecordIf(rows, "net_rx", NetRecords(rx))
             k == Noted(counters, "net_rx", NetRecords(rx))
  <2>1. Same(rows, a, id) /\ Same(counters, k, id)
    BY RecordIfElsewhere, NotedElsewhere
  <2>2. rows' = RecordIf(a, "net_tx", NetRecords(tx)) /\ counters' = Noted(k, "net_tx", NetRecords(tx))
    BY <1>2
  <2> HIDE DEF a, k
  <2>3. Same(a, rows', id)
    BY <2>2, RecordIfElsewhere
  <2>4. Same(k, counters', id)
    BY <2>2, NotedElsewhere
  <2> QED BY <2>1, <2>3, <2>4, Zenon DEF Same
<1> QED BY <1>1, <1>2, Zenon DEF CollectNet

-----------------------------------------------------------------------------
(* The collectors of increases *)

LEMMA AddsSame ==
    ASSUME NEW data, NEW new, NEW known, NEW kn, NEW shown, NEW q, NEW last,
           Same(data, new, q[1]), Same(known, kn, q[1]), Adds(data, known, shown, q, last)
    PROVE  Adds(new, kn, shown, q, last)
BY DEF Adds, Same, ToldIn

\* The rows of the increases: the metric, and one row for each state or device.
LEMMA IncreaseRows ==
    ASSUME NEW d, NEW e
    PROVE  /\ CPURow(d)[1] = "cpu_usage_time" /\ (CPURow(d) = CPURow(e) => d = e)
           /\ TimeRow(d)[1] = "disk_io_time" /\ (TimeRow(d) = TimeRow(e) => d = e)
           /\ WeightedRow(d)[1] = "disk_weighted_io" /\ (WeightedRow(d) = WeightedRow(e) => d = e)
           /\ OpsRow(d)[1] = "disk_ops" /\ (OpsRow(d) = OpsRow(e) => d = e)
<1> DEFINE S(x) == [l \in {"state"} |-> [state |-> x][l]]
           D(x) == [l \in {"device_name"} |-> [device_name |-> x][l]]
           o(x) == Over([direction |-> "read"], [device_name |-> x])
           O(x) == [l \in {"device_name", "direction"} |-> o(x)[l]]
<1>1. \A x : S(x)["state"] = x /\ D(x)["device_name"] = x
  OBVIOUS
<1>2. \A x : DOMAIN o(x) = {"device_name", "direction"} /\ o(x)["device_name"] = x
  BY DEF Over
<1>3. \A x : O(x)["device_name"] = x
  <2> HIDE DEF o
  <2> QED BY <1>2
<1>4. \A x : DOMAIN [state |-> x] = {"state"} /\ DOMAIN [device_name |-> x] = {"device_name"}
  OBVIOUS
<1>5. /\ View["cpu_usage_time"].tags = {"state"} /\ View["disk_io_time"].tags = {"device_name"}
      /\ View["disk_weighted_io"].tags = {"device_name"}
      /\ View["disk_ops"].tags = {"device_name", "direction"}
  BY ViewFacts DEF SumView
<1>6. \A x : CPURow(x) = <<"cpu_usage_time", S(x)>>
  <2> TAKE x
  <2>1. View["cpu_usage_time"].tags \cap DOMAIN [state |-> x] = {"state"}
    BY <1>4, <1>5
  <2> QED BY <2>1 DEF CPURow, Row, Restrict
<1>7. \A x : TimeRow(x) = <<"disk_io_time", D(x)>> /\ WeightedRow(x) = <<"disk_weighted_io", D(x)>>
  <2> TAKE x
  <2>1. /\ View["disk_io_time"].tags \cap DOMAIN [device_name |-> x] = {"device_name"}
        /\ View["disk_weighted_io"].tags \cap DOMAIN [device_name |-> x] = {"device_name"}
    BY <1>4, <1>5
  <2> QED BY <2>1 DEF TimeRow, WeightedRow, Row, Restrict
<1>8. \A x : OpsRow(x) = <<"disk_ops", O(x)>>
  <2> TAKE x
  <2>1. View["disk_ops"].tags \cap DOMAIN o(x) = {"device_name", "direction"}
    BY <1>2, <1>5
  <2> QED BY <2>1, Zenon DEF OpsRow, Row, Restrict
<1> HIDE DEF S, D, O
<1> QED BY <1>1, <1>3, <1>6, <1>7, <1>8

\* A row that nothing is measured for keeps telling what was read last.
LEMMA KeptElse ==
    ASSUME NEW id, NEW data, NEW known, NEW ms, NEW us, NEW q, NEW last,
           \A k \in ms : Row(id, k[1]) # q, \A k \in us : Row(id, k[1]) # q,
           Adds(data, known, Shown(id), q, last)
    PROVE  Adds(RecordIf(data, id, ms), Noted(known, id, us), Shown(id), q, last)
<1> DEFINE new == RecordIf(data, id, ms)
           kn == Noted(known, id, us)
           all == RecordAll(data, id, ms)
<1>1. Keeps(data, all, q)
  BY RecordedElse, Zenon
<1>2. Keeps(data, new, q)
  <2>1. new = all \/ new = data
    BY Zenon DEF RecordIf
  <2> HIDE DEF all, new
  <2> QED BY <1>1, <2>1, Zenon DEF Keeps
<1>3. Shown(id) => \A k \in us : Row(id, k[1]) # q
  OBVIOUS
<1>4. Keeps(known, kn, q)
  BY <1>3, NotedElse, Zenon
<1> HIDE DEF new, kn
<1>5. Adds(new, kn, Shown(id), q, last)
  BY <1>2, <1>4 DEF Adds, ToldIn, Keeps
<1> QED BY <1>5, Zenon DEF new, kn

\* A row that the increase since the last reading is added to tells the new one.
LEMMA KeptAt ==
    ASSUME NEW id, View[id].aggregation = "Sum", Shown(id), NEW data, NEW known, NEW kn,
           NEW ms, NEW m, NEW last \in Int, NEW v \in Int,
           Alone(id, ms, m), DOMAIN m[1] \subseteq tagMap, m[2] = v - last,
           Holds(kn, Row(id, m[1]), v), Adds(data, known, Shown(id), Row(id, m[1]), last)
    PROVE  Adds(RecordIf(data, id, ms), kn, Shown(id), Row(id, m[1]), v)
<1> DEFINE q == Row(id, m[1])
           new == RecordIf(data, id, ms)
<1>1. q \in DOMAIN new /\ new[q] = (ToldIn(data, q) + m[2]) % SumModulus
  BY RecordedAt, Zenon DEF RecordIf, Holds
<1>2. q \in DOMAIN kn /\ kn[q] = v
  BY Zenon DEF Holds
<1>3. ToldIn(data, q) = last % SumModulus
  BY Zenon DEF Adds
<1>4. ((last % SumModulus) + (v - last)) % SumModulus = v % SumModulus
  BY IncreaseAdded, SumModulusAssumption, Zenon
<1>5. m[2] = v - last
  BY Zenon
<1> HIDE DEF q, new
<1>6. ToldIn(new, q) = v % SumModulus
  BY <1>1, <1>3, <1>4, <1>5, Zenon DEF ToldIn
<1>7. Adds(new, kn, Shown(id), q, v)
  BY <1>1, <1>2, <1>6, Zenon DEF Adds
<1> QED BY <1>7, Zenon DEF q, new

\* Labels that the tags know, and that lead to different rows.
Tagged(id, D, L) == Shown(id) => \A x \in D : DOMAIN L[x] \subseteq tagMap
Distinct(id, All, L) == \A x, y \in All : Row(id, L[x]) = Row(id, L[y]) => x = y

\* Measurements V of the things in D with labels L; V is by how much each went up to U.
Of(ms, D, L, V) == ms = {<<L[x], V[x]>> : x \in D}
Increased(D, U, V, d, last, now) ==
    IF d \in D THEN now = U[d] /\ V[d] = now - last ELSE now = last

LEMMA IncreasesKept ==
    ASSUME NEW id, View[id].aggregation = "Sum", NEW data, NEW known, NEW ms, NEW us,
           NEW All, NEW D \in SUBSET All, NEW L, NEW V, NEW U, NEW d \in All,
           NEW last \in Int, NEW now \in Int,
           Of(ms, D, L, V), Of(us, D, L, U), Increased(D, U, V, d, last, now),
           Tagged(id, D, L), Distinct(id, All, L),
           Adds(data, known, Shown(id), Row(id, L[d]), last)
    PROVE  Adds(RecordIf(data, id, ms), Noted(known, id, us), Shown(id), Row(id, L[d]), now)
<1> DEFINE q == Row(id, L[d])
<1> USE DEF Of
<1>1. \A k \in ms : \E x \in D : k = <<L[x], V[x]>> /\ k[1] = L[x]
  <2> TAKE k \in ms
  <2>1. PICK x \in D : k = <<L[x], V[x]>>
    BY Zenon
  <2>2. k[1] = L[x]
    BY <2>1, Zenon
  <2> QED BY <2>1, <2>2, Zenon
<1>2. \A k \in us : \E x \in D : k = <<L[x], U[x]>> /\ k[1] = L[x]
  <2> TAKE k \in us
  <2>1. PICK x \in D : k = <<L[x], U[x]>>
    BY Zenon
  <2>2. k[1] = L[x]
    BY <2>1, Zenon
  <2> QED BY <2>1, <2>2, Zenon
<1> USE DEF Increased
<1>3. CASE d \in D /\ ~Shown(id)
  BY <1>3, Zenon DEF Adds, RecordIf, Noted
<1>4. CASE d \notin D
  <2>1. \A x \in D : Row(id, L[x]) # q
    BY <1>4, Zenon DEF Distinct
  <2> HIDE DEF q
  <2>2. \A k \in ms : Row(id, k[1]) # q
    BY <1>1, <2>1, Zenon
  <2>3. \A k \in us : Row(id, k[1]) # q
    BY <1>2, <2>1, Zenon
  <2>4. Adds(data, known, Shown(id), q, last)
    BY Zenon DEF q
  <2>5. Adds(RecordIf(data, id, ms), Noted(known, id, us), Shown(id), q, last)
    BY <2>2, <2>3, <2>4, KeptElse, Zenon
  <2> QED BY <1>4, <2>5, Zenon DEF q
<1>5. CASE Shown(id) /\ d \in D
  <2> DEFINE m == <<L[d], V[d]>>
             u == <<L[d], U[d]>>
  <2>1. m \in ms /\ m[1] = L[d] /\ m[2] = V[d] /\ u \in us /\ u[1] = L[d] /\ u[2] = U[d]
    BY <1>5, Zenon
  <2>2. \A x \in D : Row(id, L[x]) = Row(id, L[d]) => x = d
    BY <1>5, Zenon DEF Distinct
  <2>3. Alone(id, ms, m)
    BY <1>1, <2>1, <2>2, Zenon DEF Alone
  <2>4. Alone(id, us, u)
    BY <1>2, <2>1, <2>2, Zenon DEF Alone
  <2>5. DOMAIN m[1] \subseteq tagMap /\ m[1] = u[1] /\ u[2] \in Int /\ m[2] = u[2] - last
    BY <1>5, <2>1, Zenon DEF Tagged
  <2>6. Adds(data, known, Shown(id), Row(id, m[1]), last)
    BY <2>1, Zenon
  <2> DEFINE kn == Noted(known, id, us)
  <2> HIDE DEF m, u
  <2>7. Holds(kn, Row(id, m[1]), u[2])
    <3>1. Holds(kn, Row(id, u[1]), u[2])
      BY <1>5, <2>4, NotedAt, Zenon
    <3> HIDE DEF kn
    <3> QED BY <2>5, <3>1, Zenon
  <2> HIDE DEF kn
  <2>8. Adds(RecordIf(data, id, ms), kn, Shown(id), Row(id, m[1]), u[2])
    BY <1>5, <2>3, <2>5, <2>6, <2>7, KeptAt, Zenon
  <2> QED BY <1>5, <2>1, <2>8, Zenon DEF kn
<1> QED BY <1>3, <1>4, <1>5, Zenon

\* What is noted goes to the rows of what was measured.
LEMMA NotedRows ==
    ASSUME NEW known, NEW id, NEW us, NEW r \in DOMAIN Noted(known, id, us)
    PROVE  r \in DOMAIN known \/ \E k \in us : r = Row(id, k[1])
<1> SUFFICES ASSUME \A k \in us : Row(id, k[1]) # r PROVE r \in DOMAIN known
  BY Zenon
<1>1. Shown(id) => \A k \in us : Row(id, k[1]) # r
  OBVIOUS
<1>2. Keeps(known, Noted(known, id, us), r)
  BY <1>1, NotedElse
<1> QED BY <1>2, Zenon DEF Keeps

LEMMA SumStutter ==
    ASSUME SumInv, UNCHANGED <<config, lastUsageTime, lastIO>>, Created',
           \A id \in IncreaseMetrics : Same(rows, rows', id) /\ Same(counters, counters', id)
    PROVE  SumInv'
<1> DEFINE Kept(q, id, last) ==
        Adds(rows, counters, Shown(id), q, last) => Adds(rows', counters', Shown(id), q, last)
<1>1. \A id \in IncreaseMetrics : \A q, last : q[1] = id => Kept(q, id, last)
  BY AddsSame, Zenon
<1>2. \A id : Shown(id)' = Shown(id)
  BY DEF Shown
<1>3. \A d : LastIO(d)' = LastIO(d)
  BY DEF LastIO
<1>4. LastTypes'
  BY DEF SumInv, LastTypes
<1>5. LastTold'
  <2>1. ASSUME NEW s \in CPUStates
        PROVE  Adds(rows', counters', Shown("cpu_usage_time"), CPURow(s), lastUsageTime[s])
    BY <1>1, IncreaseRows, Zenon DEF SumInv, LastTold, IncreaseMetrics
  <2>2. ASSUME NEW d \in Devices
        PROVE  /\ Adds(rows', counters', Shown("disk_io_time"), TimeRow(d), LastIO(d).time)
               /\ Adds(rows', counters', Shown("disk_weighted_io"), WeightedRow(d), LastIO(d).weighted)
               /\ Adds(rows', counters', Shown("disk_ops"), OpsRow(d), LastIO(d).ops)
    BY <1>1, IncreaseRows, Zenon DEF SumInv, LastTold, IncreaseMetrics
  <2> QED BY <1>2, <1>3, <2>1, <2>2, Zenon DEF LastTold
<1>6. KnownRows'
  <2>1. \A r \in DOMAIN counters' : r[1] \in IncreaseMetrics => r \in DOMAIN counters
    BY Zenon DEF Same
  <2> QED BY <2>1, Zenon DEF SumInv, KnownRows, IncreaseMetrics
<1> QED BY <1>4, <1>5, <1>6 DEF SumInv

LEMMA CPUStep ==
    ASSUME SumInv, CollectCPU
    PROVE  SumInv'
<1> DEFINE id == "cpu_usage_time"
<1>1. PICK load \in Readings({"cpu_load"}, Gauges),
           usage \in Readings({"cpu_usage_time"}, [CPUStates -> Counters]),
           stat \in Readings({"system_procs", "system_total", "system_cpu_stat"},
                             [procs : Gauges, total : Counters, cpu : [CPUStates -> Counters]]) :
        /\ rows' = recordSystemStats(recordUsage(recordLoad(rows, load), usage), stat)
        /\ lastUsageTime' = IF usage = {} THEN lastUsageTime ELSE CHOOSE u \in usage : TRUE
        /\ counters' =
             Noted(Noted(Noted(counters, "cpu_usage_time", UsageTimes(usage)),
                         "system_total", {<<Empty, s.total>> : s \in stat}),
                   "system_cpu_stat", CPUTimes(stat))
  BY Zenon DEF CollectCPU
<1> DEFINE a == recordLoad(rows, load)
           ms == {<<t[1], t[2] - lastUsageTime[t[1].state]>> : t \in UsageTimes(usage)}
           us == UsageTimes(usage)
           b == RecordIf(a, id, ms)
           c == RecordIf(b, "system_total", {<<Empty, s.total>> : s \in stat})
           e == RecordIf(c, "system_procs", {<<Empty, s.procs>> : s \in stat})
           f == RecordIf(e, "system_cpu_stat", CPUTimes(stat))
           k == Noted(counters, id, us)
           l == Noted(k, "system_total", {<<Empty, s.total>> : s \in stat})
           m == Noted(l, "system_cpu_stat", CPUTimes(stat))
<1>2. rows' = f /\ counters' = m
  BY <1>1 DEF recordSystemStats, recordUsage
<1>3. Same(rows, a, id)
  BY RecordIfElsewhere DEF recordLoad
<1>4. Same(b, rows', id)
  <2>1. Same(b, c, id)
    <3> HIDE DEF b
    <3> QED BY RecordIfElsewhere
  <2>2. Same(c, e, id)
    <3> HIDE DEF c
    <3> QED BY RecordIfElsewhere
  <2>3. Same(e, f, id)
    <3> HIDE DEF e
    <3> QED BY RecordIfElsewhere
  <2> HIDE DEF b, c, e, f
  <2> QED BY <1>2, <2>1, <2>2, <2>3 DEF Same
<1>5. Same(k, counters', id)
  <2>1. Same(k, l, id)
    <3> HIDE DEF k
    <3> QED BY NotedElsewhere
  <2>2. Same(l, m, id)
    <3> HIDE DEF l
    <3> QED BY NotedElsewhere
  <2> HIDE DEF k, l, m
  <2> QED BY <1>2, <2>1, <2>2 DEF Same
<1>6. \A o \in IncreaseMetrics \ {id} : Same(rows, rows', o) /\ Same(counters, counters', o)
  BY CPUElsewhere DEF IncreaseMetrics
<1>7. config' = config /\ lastIO' = lastIO /\ tagMap' = tagMap /\ monitor' = monitor
      /\ monitor = "collecting"
  BY DEF CollectCPU, Turn
<1>8. lastUsageTime \in [CPUStates -> Counters] /\ \A x \in Counters : x \in Int
  BY DEF SumInv, LastTypes, Counters
<1>9. \A s \in CPUStates : Adds(a, counters, Shown(id), CPURow(s), lastUsageTime[s])
  <2>1. Same(counters, counters, id)
    BY DEF Same
  <2> HIDE DEF a
  <2>2. \A s \in CPUStates : Adds(rows, counters, Shown(id), CPURow(s), lastUsageTime[s]) /\ CPURow(s)[1] = id
    BY IncreaseRows, Zenon DEF SumInv, LastTold
  <2> QED BY <1>3, <2>1, <2>2, AddsSame
<1> DEFINE L == [s \in CPUStates |-> [state |-> s]]
<1>10. \A s \in CPUStates : Row(id, L[s]) = CPURow(s)
  BY DEF CPURow
<1>11. /\ lastUsageTime' \in [CPUStates -> Counters]
       /\ \A s \in CPUStates : Adds(b, k, Shown(id), CPURow(s), lastUsageTime'[s])
       /\ \A r \in DOMAIN k : r \in DOMAIN counters \/ \E s \in CPUStates : r = CPURow(s)
  <2>1. CASE usage = {}
    <3>1. us = {}
      BY <2>1 DEF UsageTimes
    <3>2. ms = {}
      <4> HIDE DEF us
      <4> QED BY <3>1 DEF us
    <3>3. lastUsageTime' = lastUsageTime
      BY <1>1, <2>1
    <3> HIDE DEF us, ms, a
    <3>4. \A s \in CPUStates : Adds(b, k, Shown(id), CPURow(s), lastUsageTime[s])
      <4> TAKE s \in CPUStates
      <4>1. Adds(a, counters, Shown(id), CPURow(s), lastUsageTime[s])
        BY <1>9
      <4>2. /\ \A x \in ms : Row(id, x[1]) # CPURow(s)
            /\ \A x \in us : Row(id, x[1]) # CPURow(s)
        BY <3>1, <3>2
      <4> QED BY <4>1, <4>2, KeptElse
    <3>5. \A r \in DOMAIN k : r \in DOMAIN counters
      BY <3>1 DEF Noted, Over
    <3> HIDE DEF b, k
    <3> QED BY <1>8, <3>3, <3>4, <3>5
  <2>2. CASE usage # {}
    <3>1. PICK u \in [CPUStates -> Counters] : usage = {u}
      BY <1>1, <2>2, Zenon DEF Readings, Maybe
    <3>2. lastUsageTime' = u
      BY <1>1, <3>1
    <3> DEFINE V == [s \in CPUStates |-> u[s] - lastUsageTime[s]]
    <3>3. us = {<<L[s], u[s]>> : s \in CPUStates}
      <4>1. \A s \in CPUStates : L[s] = [state |-> s]
        OBVIOUS
      <4>2. us = {<<[state |-> s], u[s]>> : s \in CPUStates}
        BY <3>1 DEF UsageTimes
      <4> HIDE DEF L, us
      <4> QED BY <4>1, <4>2, Zenon
    <3>4. ms = {<<L[s], V[s]>> : s \in CPUStates}
      <4> DEFINE g(t) == <<t[1], t[2] - lastUsageTime[t[1].state]>>
      <4>1. \A s \in CPUStates : g(<<L[s], u[s]>>) = <<L[s], V[s]>>
        OBVIOUS
      <4>2. ms = {g(t) : t \in us}
        OBVIOUS
      <4> HIDE DEF g, L, V, us, ms
      <4> QED BY <3>3, <4>1, <4>2, Zenon
    <3>5. View[id].aggregation = "Sum" /\ View[id].tags = {"state"}
      BY ViewFacts DEF SumView
    <3>6. Tagged(id, CPUStates, L)
      BY <1>7, <3>5 DEF SumInv, Created, Shown, Tagged
    <3>7. Distinct(id, CPUStates, L)
      <4>1. \A s, t : CPURow(s) = CPURow(t) => s = t
        BY IncreaseRows
      <4> HIDE DEF L
      <4> QED BY <1>10, <4>1 DEF Distinct
    <3>8. \A s \in CPUStates : u[s] \in Int /\ V[s] = u[s] - lastUsageTime[s] /\ lastUsageTime[s] \in Int
      BY <1>8
    <3> HIDE DEF L, V, us, ms, a
    <3>9. ASSUME NEW s \in CPUStates
          PROVE  Adds(b, k, Shown(id), CPURow(s), u[s])
      <4>1. Adds(a, counters, Shown(id), Row(id, L[s]), lastUsageTime[s])
        BY <1>9, <1>10
      <4> DEFINE last == lastUsageTime[s]
                 now == u[s]
      <4>2. last \in Int /\ now \in Int /\ Increased(CPUStates, u, V, s, last, now)
            /\ CPUStates \in SUBSET CPUStates
        BY <3>8 DEF Increased
      <4>3. Adds(a, counters, Shown(id), Row(id, L[s]), last)
        BY <4>1
      <4>4. Of(ms, CPUStates, L, V) /\ Of(us, CPUStates, L, u)
        BY <3>3, <3>4 DEF Of
      <4> HIDE DEF last, now
      <4>5. Adds(b, k, Shown(id), Row(id, L[s]), now)
        BY <3>5, <3>6, <3>7, <4>2, <4>3, <4>4, IncreasesKept, Zenon
      <4> HIDE DEF b, k
      <4> QED BY <1>10, <4>5 DEF now
    <3>10. \A r \in DOMAIN k : r \in DOMAIN counters \/ \E s \in CPUStates : r = Row(id, L[s])
      <4>1. \A r \in DOMAIN k : r \in DOMAIN counters \/ \E x \in us : r = Row(id, x[1])
        BY NotedRows
      <4>2. \A x \in us : \E s \in CPUStates : x = <<L[s], u[s]>>
        BY <3>3
      <4> HIDE DEF k
      <4> QED BY <4>1, <4>2
    <3> HIDE DEF b, k
    <3> QED BY <1>10, <3>2, <3>9, <3>10
  <2> QED BY <2>1, <2>2, Zenon
<1> HIDE DEF a, b, k, L, ms, us
<1>12. \A s \in CPUStates : Adds(rows', counters', Shown(id), CPURow(s), lastUsageTime'[s])
  <2> TAKE s \in CPUStates
  <2> DEFINE q == CPURow(s)
             last == lastUsageTime'[s]
  <2>1. q[1] = id /\ Adds(b, k, Shown(id), q, last)
    BY <1>11, IncreaseRows, Zenon
  <2> HIDE DEF q, last
  <2>2. Adds(rows', counters', Shown(id), q, last)
    BY <1>4, <1>5, <2>1, AddsSame
  <2> QED BY <2>2 DEF q, last
<1>13. \A o : Shown(o)' = Shown(o)
  BY <1>7 DEF Shown
<1>14. \A d : LastIO(d)' = LastIO(d)
  BY <1>7 DEF LastIO
<1>15. ASSUME NEW d \in Devices
       PROVE  /\ Adds(rows', counters', Shown("disk_io_time"), TimeRow(d), LastIO(d).time)
              /\ Adds(rows', counters', Shown("disk_weighted_io"), WeightedRow(d), LastIO(d).weighted)
              /\ Adds(rows', counters', Shown("disk_ops"), OpsRow(d), LastIO(d).ops)
  BY <1>6, IncreaseRows, AddsSame, Zenon DEF SumInv, LastTold, IncreaseMetrics
<1>16. LastTold'
  BY <1>12, <1>13, <1>14, <1>15 DEF LastTold
<1>17. KnownRows'
  <2>1. \A r \in DOMAIN counters' : r[1] \in IncreaseMetrics \ {id} => r \in DOMAIN counters
    BY <1>6 DEF Same
  <2>2. \A r \in DOMAIN counters' : r[1] = id => r \in DOMAIN counters \/ \E s \in CPUStates : r = CPURow(s)
    BY <1>5, <1>11 DEF Same
  <2> QED BY <2>1, <2>2 DEF SumInv, KnownRows, IncreaseMetrics
<1>18. LastTypes' /\ Created'
  BY <1>7, <1>11 DEF SumInv, LastTypes, Created
<1> QED BY <1>16, <1>17, <1>18 DEF SumInv

\* What gopsutil answers is about known devices only.
LEMMA DiskReads ==
    ASSUME config \in Configs, NEW lsblkOK \in BOOLEAN, NEW partitions \in config.mounts,
           NEW io \in IOReadings(ListedDevices(partitions, lsblkOK))
    PROVE  DOMAIN io \subseteq Devices /\ \A d \in DOMAIN io : io[d] \in IOs
<1>1. PICK present \in SUBSET ListedDevices(partitions, lsblkOK) : io \in [present -> IOStat]
  BY DEF IOReadings
<1>2. ListedDevices(partitions, lsblkOK) \subseteq Devices
  <2>1. partitions \in Seq(Devices \X {"rw", "ro"})
    BY ConfigsAssumption, Zenon DEF ConfigType
  <2>2. \A p \in Range(partitions) : p[1] \in Devices
    BY <2>1 DEF Range
  <2> QED BY <2>2, StatsAssumption, Zenon DEF ListedDevices
<1>3. \A x \in IOStat : x \in IOs
  <2>1. 0 \in Counters
    BY StatsAssumption DEF Counters
  <2> QED BY <2>1 DEF IOStat, IOs
<1> QED BY <1>1, <1>2, <1>3

LEMMA CountersAreIntegers == \A x \in Counters : x \in Int
BY StatsAssumption DEF Counters

\* One metric of the disk collector.
LEMMA DeviceIncreases ==
    ASSUME NEW id, View[id].aggregation = "Sum", NEW data, NEW known, NEW ms, NEW us,
           NEW io, DOMAIN io \subseteq Devices, NEW L, NEW field, NEW d \in Devices,
           \A e \in DOMAIN io : io[e][field] \in Counters, \A e \in Devices : LastIO(e)[field] \in Counters,
           Of(ms, DOMAIN io, L, [e \in DOMAIN io |-> Signed(Minus(io[e][field], LastIO(e)[field]))]),
           Of(us, DOMAIN io, L, [e \in DOMAIN io |-> io[e][field]]),
           Tagged(id, DOMAIN io, L), Distinct(id, Devices, L),
           Adds(data, known, Shown(id), Row(id, L[d]), LastIO(d)[field])
    PROVE  Adds(RecordIf(data, id, ms), Noted(known, id, us), Shown(id), Row(id, L[d]),
                IF d \in DOMAIN io THEN io[d][field] ELSE LastIO(d)[field])
<1> DEFINE D == DOMAIN io
           U == [e \in D |-> io[e][field]]
           V == [e \in D |-> Signed(Minus(io[e][field], LastIO(e)[field]))]
           last == LastIO(d)[field]
           now == IF d \in D THEN io[d][field] ELSE last
<1>1. \A x \in Counters : x \in Int
  BY CountersAreIntegers, Zenon
<1>2. last \in Counters /\ now \in Counters
  BY Zenon
<1>3. last \in Int /\ now \in Int
  <2> HIDE DEF last, now
  <2> QED BY <1>1, <1>2, Zenon
<1>4. Increased(D, U, V, d, last, now)
  <2>1. CASE d \notin D
    BY <2>1, Zenon DEF Increased
  <2>2. CASE d \in D
    <3>1. now = U[d] /\ V[d] = Signed(Minus(now, last))
      BY <2>2, Zenon
    <3>2. Signed(Minus(now, last)) = now - last
      <4> HIDE DEF now, last
      <4> QED BY <1>2, SignedDifference, Zenon
    <3> HIDE DEF D, U, V, now, last
    <3> QED BY <2>2, <3>1, <3>2, Zenon DEF Increased
  <2> QED BY <2>1, <2>2, Zenon
<1>5. /\ Of(ms, D, L, V) /\ Of(us, D, L, U) /\ Tagged(id, D, L) /\ D \in SUBSET Devices
      /\ Adds(data, known, Shown(id), Row(id, L[d]), last)
  BY Zenon
<1> HIDE DEF D, U, V, last, now
<1>6. Adds(RecordIf(data, id, ms), Noted(known, id, us), Shown(id), Row(id, L[d]), now)
  BY <1>3, <1>4, <1>5, IncreasesKept, Zenon
<1> QED BY <1>6, Zenon DEF now, last, D

\* The measurements of one field, as labels and values.
LEMMA IncreasesOf ==
    ASSUME NEW io, NEW field
    PROVE  LET D == DOMAIN io
               L == [d \in Devices |-> [device_name |-> d]]
               O == [d \in Devices |-> Over([direction |-> "read"], [device_name |-> d])]
               V == [e \in D |-> Signed(Minus(io[e][field], LastIO(e)[field]))]
               U == [e \in D |-> io[e][field]]
               us == {<<[device_name |-> d], io[d][field]>> : d \in D}
           IN  D \subseteq Devices =>
                   /\ Of(Increases(io, field), D, L, V) /\ Of(us, D, L, U)
                   /\ Of(Read(Increases(io, field)), D, O, V) /\ Of(Read(us), D, O, U)
<1> DEFINE D == DOMAIN io
           L == [d \in Devices |-> [device_name |-> d]]
           O == [d \in Devices |-> Over([direction |-> "read"], [device_name |-> d])]
           V == [e \in D |-> Signed(Minus(io[e][field], LastIO(e)[field]))]
           U == [e \in D |-> io[e][field]]
           us == {<<[device_name |-> d], io[d][field]>> : d \in D}
           ms == Increases(io, field)
<1> SUFFICES ASSUME D \subseteq Devices
             PROVE  Of(ms, D, L, V) /\ Of(us, D, L, U) /\ Of(Read(ms), D, O, V) /\ Of(Read(us), D, O, U)
  BY Zenon
<1>1. \A d \in D : L[d] = [device_name |-> d] /\ O[d] = Over([direction |-> "read"], L[d])
  BY Zenon
<1>2. \A d \in D : V[d] = Signed(Minus(io[d][field], LastIO(d)[field])) /\ U[d] = io[d][field]
  BY Zenon
<1>3. ms = {<<[device_name |-> d], Signed(Minus(io[d][field], LastIO(d)[field]))>> : d \in D}
  BY Zenon DEF Increases
<1> HIDE DEF L, O, V, U, ms, D
<1>4. Of(ms, D, L, V)
  <2> DEFINE f(d) == <<[device_name |-> d], Signed(Minus(io[d][field], LastIO(d)[field]))>>
             h(d) == <<L[d], V[d]>>
  <2>1. \A d \in D : f(d) = h(d)
    BY <1>1, <1>2, Zenon
  <2>2. ms = {f(d) : d \in D}
    BY <1>3, Zenon
  <2> HIDE DEF f, h
  <2>3. ms = {h(d) : d \in D}
    BY <2>1, <2>2
  <2> QED BY <2>3, Zenon DEF h, Of
<1>5. Of(us, D, L, U)
  <2>1. us = {<<[device_name |-> d], io[d][field]>> : d \in D}
    BY Zenon
  <2> HIDE DEF us
  <2> DEFINE f(d) == <<[device_name |-> d], io[d][field]>>
             h(d) == <<L[d], U[d]>>
  <2>2. us = {f(d) : d \in D} /\ \A d \in D : f(d) = h(d)
    BY <1>1, <1>2, <2>1, Zenon
  <2> HIDE DEF f, h
  <2>3. us = {h(d) : d \in D}
    BY <2>2
  <2> QED BY <2>3, Zenon DEF h, Of
<1>6. ASSUME NEW X, NEW S, Of(S, D, L, X) PROVE Of(Read(S), D, O, X)
  <2> DEFINE g(m) == <<Over([direction |-> "read"], m[1]), m[2]>>
  <2>1. Read(S) = {g(m) : m \in S}
    BY Zenon DEF Read
  <2>2. \A d \in D : g(<<L[d], X[d]>>) = <<O[d], X[d]>>
    BY <1>1, Zenon
  <2> DEFINE f(d) == <<L[d], X[d]>>
             h(d) == <<O[d], X[d]>>
  <2>3. S = {f(d) : d \in D} /\ \A d \in D : g(f(d)) = h(d)
    BY <1>6, <2>2, Zenon DEF Of
  <2> HIDE DEF f, g, h
  <2>4. Read(S) = {h(d) : d \in D}
    BY <2>1, <2>3
  <2> QED BY <2>4, Zenon DEF h, Of
<1> HIDE DEF us
<1>7. Of(Read(ms), D, O, V)
  BY <1>4, <1>6, Zenon
<1>8. Of(Read(us), D, O, U)
  BY <1>5, <1>6, Zenon
<1> QED BY <1>4, <1>5, <1>7, <1>8, Zenon

\* What a successful collect of the disks did.
DiskRead(io, partitions, usage) ==
    LET Read1(field) == {<<[device_name |-> d], io[d][field]>> : d \in DOMAIN io}
    IN  /\ DOMAIN io \subseteq Devices /\ \A d \in DOMAIN io : io[d] \in IOs
        /\ rows' = RecordSpace(recordIOCounters(rows, io), partitions, usage)
        /\ lastIO' = Over(io, lastIO)
        /\ counters' = Noted(Noted(Noted(counters, "disk_io_time", Read1("time")),
                                   "disk_weighted_io", Read1("weighted")),
                             "disk_ops", Read(Read1("ops")))

LEMMA DiskOutcome ==
    ASSUME config \in Configs, CollectDisk
    PROVE  \/ UNCHANGED <<rows, lastIO, counters, ownAge, lastSample, sampleAge>>
           \/ \E io, partitions, usage :
                 /\ DiskRead(io, partitions, usage) /\ ownAge' = Over([d \in DOMAIN io |-> 0], ownAge)
                 /\ lastSample' = DOMAIN io /\ sampleAge' = 0
<1>1. CASE SampledAt(TRUE) /\ UNCHANGED <<rows, lastIO, counters, ownAge, lastSample, mountOptions>>
  BY <1>1, Zenon DEF SampledAt
<1>2. ASSUME NEW lsblkOK \in BOOLEAN, NEW partitions \in config.mounts,
             NEW io \in IOReadings(ListedDevices(partitions, lsblkOK)), NEW usage,
             rows' = RecordSpace(recordIOCounters(rows, io), partitions, usage),
             lastIO' = Over(io, lastIO), SampledAt(FALSE),
             counters' = Noted(Noted(Noted(counters, "disk_io_time",
                                           {<<[device_name |-> d], io[d]["time"]>> : d \in DOMAIN io}),
                                     "disk_weighted_io",
                                     {<<[device_name |-> d], io[d]["weighted"]>> : d \in DOMAIN io}),
                               "disk_ops",
                               Read({<<[device_name |-> d], io[d]["ops"]>> : d \in DOMAIN io})),
             ownAge' = Over([d \in DOMAIN io |-> 0], ownAge), lastSample' = DOMAIN io
      PROVE  DiskRead(io, partitions, usage) /\ sampleAge' = 0
  <2>1. DOMAIN io \subseteq Devices /\ \A d \in DOMAIN io : io[d] \in IOs
    BY DiskReads, Zenon
  <2> QED BY <1>2, <2>1, Zenon DEF DiskRead, SampledAt
<1> QED BY <1>1, <1>2, Zenon DEF CollectDisk

LEMMA DiskElsewhere ==
    ASSUME NEW io, NEW partitions, NEW usage, DiskRead(io, partitions, usage)
    PROVE  \E a, b, c, e, k, l :
             /\ a = RecordIf(rows, "disk_io_time", Increases(io, "time"))
             /\ b = RecordIf(a, "disk_weighted_io", Increases(io, "weighted"))
             /\ e = RecordIf(c, "disk_ops", Read(Increases(io, "ops")))
             /\ k = Noted(counters, "disk_io_time", {<<[device_name |-> d], io[d].time>> : d \in DOMAIN io})
             /\ l = Noted(k, "disk_weighted_io", {<<[device_name |-> d], io[d].weighted>> : d \in DOMAIN io})
             /\ counters' = Noted(l, "disk_ops", Read({<<[device_name |-> d], io[d].ops>> : d \in DOMAIN io}))
             /\ \A id : id # "disk_io_time" => Same(rows, a, id) /\ Same(counters, k, id)
             /\ \A id : id # "disk_weighted_io" => Same(a, b, id) /\ Same(k, l, id)
             /\ \A id : id # "disk_avg_queue_len" => Same(b, c, id)
             /\ \A id : id # "disk_ops" => Same(c, e, id) /\ Same(l, counters', id)
             /\ \A id : id \notin {"disk_bytes_used", "disk_percent_used"} => Same(e, rows', id)
<1> DEFINE R(field) == {<<[device_name |-> d], io[d][field]>> : d \in DOMAIN io}
           qs == {<<[device_name |-> d], QueueLength(d, io)>> : d \in DOMAIN io \cap DOMAIN lastIO}
           a == RecordIf(rows, "disk_io_time", Increases(io, "time"))
           b == RecordIf(a, "disk_weighted_io", Increases(io, "weighted"))
           c == RecordIf(b, "disk_avg_queue_len", qs)
           e == RecordIf(c, "disk_ops", Read(Increases(io, "ops")))
           k == Noted(counters, "disk_io_time", R("time"))
           l == Noted(k, "disk_weighted_io", R("weighted"))
           m == Noted(l, "disk_ops", Read(R("ops")))
<1>1. rows' = RecordSpace(e, partitions, usage) /\ counters' = m
  BY Zenon DEF DiskRead, recordIOCounters
<1> HIDE DEF R, qs
<1>2. \A id : id # "disk_io_time" => Same(rows, a, id) /\ Same(counters, k, id)
  BY RecordIfElsewhere, NotedElsewhere, Zenon
<1>3. \A id : id # "disk_weighted_io" => Same(a, b, id) /\ Same(k, l, id)
  <2> HIDE DEF a, k
  <2> QED BY RecordIfElsewhere, NotedElsewhere, Zenon
<1>4. \A id : id # "disk_avg_queue_len" => Same(b, c, id)
  <2> HIDE DEF b
  <2> QED BY RecordIfElsewhere, Zenon
<1>5. \A id : id # "disk_ops" => Same(c, e, id) /\ Same(l, m, id)
  <2> HIDE DEF c, l
  <2> QED BY RecordIfElsewhere, NotedElsewhere, Zenon
<1>6. \A id : id \notin {"disk_bytes_used", "disk_percent_used"} => Same(e, rows', id)
  <2> HIDE DEF e
  <2> QED BY <1>1, SpaceElsewhere, ZenonT(30)
<1> WITNESS a, b, c, e, k, l
<1>7. /\ k = Noted(counters, "disk_io_time", {<<[device_name |-> d], io[d].time>> : d \in DOMAIN io})
      /\ l = Noted(k, "disk_weighted_io", {<<[device_name |-> d], io[d].weighted>> : d \in DOMAIN io})
      /\ counters' = Noted(l, "disk_ops", Read({<<[device_name |-> d], io[d].ops>> : d \in DOMAIN io}))
  BY <1>1, Zenon DEF R
<1>8. /\ a = RecordIf(rows, "disk_io_time", Increases(io, "time"))
      /\ b = RecordIf(a, "disk_weighted_io", Increases(io, "weighted"))
      /\ e = RecordIf(c, "disk_ops", Read(Increases(io, "ops")))
  BY Zenon
<1> HIDE DEF a, b, c, e, k, l, m
<1> QED BY <1>1, <1>2, <1>3, <1>4, <1>5, <1>6, <1>7, <1>8, Zenon

LEMMA DiskRowsElsewhere ==
    ASSUME NEW io, NEW partitions, NEW usage, DiskRead(io, partitions, usage), NEW id,
           id \notin {"disk_io_time", "disk_weighted_io", "disk_avg_queue_len", "disk_ops",
                     "disk_bytes_used", "disk_percent_used"}
    PROVE  Same(rows, rows', id)
<1> DEFINE qs == {<<[device_name |-> d], QueueLength(d, io)>> : d \in DOMAIN io \cap DOMAIN lastIO}
           a == RecordIf(rows, "disk_io_time", Increases(io, "time"))
           b == RecordIf(a, "disk_weighted_io", Increases(io, "weighted"))
           c == RecordIf(b, "disk_avg_queue_len", qs)
           e == RecordIf(c, "disk_ops", Read(Increases(io, "ops")))
<1>0. /\ id # "disk_io_time" /\ id # "disk_weighted_io" /\ id # "disk_avg_queue_len"
      /\ id # "disk_ops" /\ id \notin {"disk_bytes_used", "disk_percent_used"}
  OBVIOUS
<1>1. rows' = RecordSpace(e, partitions, usage)
  BY Zenon DEF DiskRead, recordIOCounters
<1> HIDE DEF qs
<1>2. Same(rows, a, id)
  BY <1>0, RecordIfElsewhere, Zenon
<1> HIDE DEF a
<1>3. Same(a, b, id)
  BY <1>0, RecordIfElsewhere, Zenon
<1> HIDE DEF b
<1>4. Same(b, c, id)
  BY <1>0, RecordIfElsewhere, Zenon
<1> HIDE DEF c
<1>5. Same(c, e, id)
  BY <1>0, RecordIfElsewhere, Zenon
<1> HIDE DEF e
<1>6. Same(e, rows', id)
  BY <1>0, <1>1, SpaceElsewhere, Zenon
<1> QED BY <1>2, <1>3, <1>4, <1>5, <1>6, Zenon DEF Same

\* A field of the I/O counters: by how much it went up, its value, and its row before and after.
Deltas(io, field) == [e \in DOMAIN io |-> Signed(Minus(io[e][field], LastIO(e)[field]))]
Values(io, field) == [e \in DOMAIN io |-> io[e][field]]
Bounded(io, field) ==
    /\ \A e \in DOMAIN io : io[e][field] \in Counters
    /\ \A e \in Devices : LastIO(e)[field] \in Counters
Before(id, L, field) ==
    \A d \in Devices : Adds(rows, counters, Shown(id), Row(id, L[d]), LastIO(d)[field])
After(id, L, io, field) ==
    /\ \A d \in Devices : Adds(rows', counters', Shown(id), Row(id, L[d]),
                               IF d \in DOMAIN io THEN io[d][field] ELSE LastIO(d)[field])
    /\ \A r \in DOMAIN counters' :
           r[1] = id => r \in DOMAIN counters \/ \E d \in Devices : r = Row(id, L[d])

\* A metric of the disk collector: its row tells what was read, its history too.
LEMMA DeviceMetric ==
    ASSUME NEW id \in {"disk_io_time", "disk_weighted_io", "disk_ops"}, NEW field, NEW L,
           NEW data, NEW known, NEW ms, NEW us, NEW io, DOMAIN io \subseteq Devices, Bounded(io, field),
           Of(ms, DOMAIN io, L, Deltas(io, field)), Of(us, DOMAIN io, L, Values(io, field)),
           Tagged(id, DOMAIN io, L), Distinct(id, Devices, L),
           Same(rows, data, id), Same(RecordIf(data, id, ms), rows', id),
           Same(counters, known, id), Same(Noted(known, id, us), counters', id),
           Before(id, L, field)
    PROVE  After(id, L, io, field)
<1>1. \A labels : Row(id, labels)[1] = id
  BY Zenon DEF Row
<1>2. View[id].aggregation = "Sum"
  BY IncreaseViews, Zenon
<1> DEFINE new == RecordIf(data, id, ms)
           kn == Noted(known, id, us)
<1>3. ASSUME NEW d \in Devices
      PROVE  Adds(rows', counters', Shown(id), Row(id, L[d]),
                  IF d \in DOMAIN io THEN io[d][field] ELSE LastIO(d)[field])
  <2> DEFINE q == Row(id, L[d])
             now == IF d \in DOMAIN io THEN io[d][field] ELSE LastIO(d)[field]
             last == LastIO(d)[field]
  <2>1. q[1] = id /\ Adds(rows, counters, Shown(id), q, last)
    BY <1>1, Zenon DEF Before
  <2>2. Adds(data, known, Shown(id), q, last)
    <3> HIDE DEF q, last
    <3> QED BY <2>1, AddsSame, Zenon
  <2>3. Adds(new, kn, Shown(id), q, now)
    BY <1>2, <2>2, DeviceIncreases, Zenon DEF Bounded, Deltas, Values
  <2> HIDE DEF q, now, new, kn
  <2>4. Same(new, rows', id) /\ Same(kn, counters', id)
    BY DEF new, kn
  <2>5. Adds(rows', counters', Shown(id), q, now)
    BY <2>1, <2>3, <2>4, AddsSame, Zenon
  <2> QED BY <2>5, Zenon DEF q, now
<1>4. ASSUME NEW r \in DOMAIN counters', r[1] = id
      PROVE  r \in DOMAIN counters \/ \E d \in Devices : r = Row(id, L[d])
  <2>1. r \in DOMAIN kn
    <3>1. Same(kn, counters', id)
      OBVIOUS
    <3> HIDE DEF kn
    <3> QED BY <1>4, <3>1, Zenon DEF Same
  <2>2. r \in DOMAIN known \/ \E k \in us : r = Row(id, k[1])
    <3>1. r \in DOMAIN Noted(known, id, us)
      BY <2>1, Zenon
    <3>2. \A rw \in DOMAIN Noted(known, id, us) :
             rw \in DOMAIN known \/ \E k \in us : rw = Row(id, k[1])
      BY NotedRows
    <3> QED BY <3>1, <3>2, Zenon
  <2>3. CASE r \in DOMAIN known
    BY <1>4, <2>3, Zenon DEF Same
  <2>4. ASSUME NEW k \in us, r = Row(id, k[1])
        PROVE  \E d \in Devices : r = Row(id, L[d])
    <3> DEFINE U == [e \in DOMAIN io |-> io[e][field]]
    <3>1. us = {<<L[d], U[d]>> : d \in DOMAIN io}
      BY Zenon DEF Of, Values
    <3> HIDE DEF U
    <3>2. PICK d \in DOMAIN io : k = <<L[d], U[d]>>
      BY <2>4, <3>1, Zenon
    <3>3. k[1] = L[d]
      BY <3>2, Zenon
    <3> QED BY <2>4, <3>2, <3>3, Zenon
  <2> QED BY <2>2, <2>3, <2>4, Zenon
<1> QED BY <1>3, <1>4, Zenon DEF After

\* The collect of the disks moves the sums of the three counters with what it remembers.
LEMMA DiskStep ==
    ASSUME SumInv, config \in Configs, monitor = "collecting", NEW io, NEW partitions, NEW usage, DiskRead(io, partitions, usage),
           UNCHANGED <<config, monitor, tagMap, lastUsageTime>>
    PROVE  SumInv'
<1>1. PICK a, b, c, e, k, l :
         /\ a = RecordIf(rows, "disk_io_time", Increases(io, "time"))
         /\ b = RecordIf(a, "disk_weighted_io", Increases(io, "weighted"))
         /\ e = RecordIf(c, "disk_ops", Read(Increases(io, "ops")))
         /\ k = Noted(counters, "disk_io_time", {<<[device_name |-> d], io[d].time>> : d \in DOMAIN io})
         /\ l = Noted(k, "disk_weighted_io", {<<[device_name |-> d], io[d].weighted>> : d \in DOMAIN io})
         /\ counters' = Noted(l, "disk_ops", Read({<<[device_name |-> d], io[d].ops>> : d \in DOMAIN io}))
         /\ \A id : id # "disk_io_time" => Same(rows, a, id) /\ Same(counters, k, id)
         /\ \A id : id # "disk_weighted_io" => Same(a, b, id) /\ Same(k, l, id)
         /\ \A id : id # "disk_avg_queue_len" => Same(b, c, id)
         /\ \A id : id # "disk_ops" => Same(c, e, id) /\ Same(l, counters', id)
         /\ \A id : id \notin {"disk_bytes_used", "disk_percent_used"} => Same(e, rows', id)
  BY DiskElsewhere, Zenon
<1>2. DOMAIN io \subseteq Devices /\ \A d \in DOMAIN io : io[d] \in IOs
  BY Zenon DEF DiskRead
<1>3. \A d \in Devices : LastIO(d) \in IOs
  <2>1. NoIO \in IOs
    BY StatsAssumption DEF NoIO, IOs, Counters
  <2> QED BY <2>1 DEF LastIO, SumInv, LastTypes
<1>4. \A x \in IOs : x["time"] \in Counters /\ x["weighted"] \in Counters /\ x["ops"] \in Counters
  BY DEF IOs
<1> DEFINE D == DOMAIN io
           L == [d \in Devices |-> [device_name |-> d]]
           O == [d \in Devices |-> Over([direction |-> "read"], [device_name |-> d])]
           us(f) == {<<[device_name |-> d], io[d][f]>> : d \in D}
<1>5. \A f : /\ Of(Increases(io, f), D, L, Deltas(io, f)) /\ Of(us(f), D, L, Values(io, f))
             /\ Of(Read(Increases(io, f)), D, O, Deltas(io, f)) /\ Of(Read(us(f)), D, O, Values(io, f))
  BY <1>2, IncreasesOf, Zenon DEF Deltas, Values
<1>6. /\ View["disk_io_time"].tags = {"device_name"} /\ View["disk_weighted_io"].tags = {"device_name"}
      /\ View["disk_ops"].tags = {"device_name", "direction"}
  BY IncreaseViews, Zenon
<1>7. \A d \in Devices : /\ Row("disk_io_time", L[d]) = TimeRow(d)
                         /\ Row("disk_weighted_io", L[d]) = WeightedRow(d)
                         /\ Row("disk_ops", O[d]) = OpsRow(d)
  BY Zenon DEF TimeRow, WeightedRow, OpsRow
<1>8. \A d \in Devices : DOMAIN L[d] = {"device_name"} /\ DOMAIN O[d] = {"device_name", "direction"}
  BY Zenon DEF Over
<1> HIDE DEF L, O
<1>9. /\ Tagged("disk_io_time", D, L) /\ Tagged("disk_weighted_io", D, L) /\ Tagged("disk_ops", D, O)
  <2>1. \A id : Shown(id) => View[id].tags \subseteq tagMap
    BY DEF SumInv, Created, Shown
  <2> QED BY <1>2, <1>6, <1>8, <2>1, Zenon DEF Tagged
<1>10. /\ Distinct("disk_io_time", Devices, L) /\ Distinct("disk_weighted_io", Devices, L)
       /\ Distinct("disk_ops", Devices, O)
  <2>1. \A x, y : /\ TimeRow(x) = TimeRow(y) => x = y
                  /\ WeightedRow(x) = WeightedRow(y) => x = y
                  /\ OpsRow(x) = OpsRow(y) => x = y
    BY IncreaseRows
  <2>2. ASSUME NEW x \in Devices, NEW y \in Devices
        PROVE  /\ Row("disk_io_time", L[x]) = Row("disk_io_time", L[y]) => x = y
               /\ Row("disk_weighted_io", L[x]) = Row("disk_weighted_io", L[y]) => x = y
               /\ Row("disk_ops", O[x]) = Row("disk_ops", O[y]) => x = y
    <3>1. /\ Row("disk_io_time", L[x]) = TimeRow(x) /\ Row("disk_io_time", L[y]) = TimeRow(y)
          /\ Row("disk_weighted_io", L[x]) = WeightedRow(x)
          /\ Row("disk_weighted_io", L[y]) = WeightedRow(y)
          /\ Row("disk_ops", O[x]) = OpsRow(x) /\ Row("disk_ops", O[y]) = OpsRow(y)
      BY <1>7, Zenon
    <3> QED BY <2>1, <3>1, Zenon
  <2> QED BY <2>2, Zenon DEF Distinct
<1> DEFINE Next1(d, f) == IF d \in D THEN io[d][f] ELSE LastIO(d)[f]
<1>11. \A d \in Devices : /\ LastIO(d)'["time"] = Next1(d, "time")
                          /\ LastIO(d)'["weighted"] = Next1(d, "weighted")
                          /\ LastIO(d)'["ops"] = Next1(d, "ops")
  BY Zenon DEF LastIO, DiskRead, Over
<1>12. /\ \A d \in Devices : Adds(rows', counters', Shown("disk_io_time"), TimeRow(d), Next1(d, "time"))
       /\ \A r \in DOMAIN counters' :
              r[1] = "disk_io_time" => r \in DOMAIN counters \/ \E d \in Devices : r = TimeRow(d)
  <2> DEFINE id == "disk_io_time"
             ms == Increases(io, "time")
             ns == us("time")
  <2>1. Same(rows, rows, id) /\ Same(a, rows', id) /\ Same(counters, counters, id) /\ Same(k, counters', id)
    <3>1. Same(rows, rows, id) /\ Same(counters, counters, id) /\ Same(counters', counters', id)
      BY Zenon DEF Same
    <3>2. /\ id # "disk_io_time" => Same(rows, a, id) /\ Same(counters, k, id)
          /\ id # "disk_weighted_io" => Same(a, b, id) /\ Same(k, l, id)
          /\ Same(b, c, id) /\ Same(e, rows', id)
          /\ id # "disk_ops" => Same(c, e, id) /\ Same(l, counters', id)
      BY <1>1, Zenon
    <3> QED BY <3>1, <3>2, Zenon DEF Same
  <2>2. a = RecordIf(rows, id, ms) /\ k = Noted(counters, id, ns)
    BY <1>1, Zenon
  <2>3. Of(ms, D, L, Deltas(io, "time")) /\ Of(ns, D, L, Values(io, "time"))
    BY <1>5, Zenon
  <2>4. Bounded(io, "time")
    BY <1>2, <1>3, <1>4, Zenon DEF Bounded
  <2>5. Before(id, L, "time")
    BY <1>7, Zenon DEF SumInv, LastTold, Before
  <2> HIDE DEF ms, ns
  <2>6. After(id, L, io, "time")
    <3>1. Same(RecordIf(rows, id, ms), rows', id) /\ Same(Noted(counters, id, ns), counters', id)
      BY <2>1, <2>2
    <3> QED BY <1>2, <1>9, <1>10, <2>1, <2>3, <2>4, <2>5, <3>1, DeviceMetric, Zenon
  <2> QED BY <1>7, <2>6, Zenon DEF After
<1>13. /\ \A d \in Devices : Adds(rows', counters', Shown("disk_weighted_io"), WeightedRow(d), Next1(d, "weighted"))
       /\ \A r \in DOMAIN counters' :
              r[1] = "disk_weighted_io" => r \in DOMAIN counters \/ \E d \in Devices : r = WeightedRow(d)
  <2> DEFINE id == "disk_weighted_io"
             ms == Increases(io, "weighted")
             ns == us("weighted")
  <2>1. Same(rows, a, id) /\ Same(b, rows', id) /\ Same(counters, k, id) /\ Same(l, counters', id)
    <3>1. Same(rows, rows, id) /\ Same(counters, counters, id) /\ Same(counters', counters', id)
      BY Zenon DEF Same
    <3>2. /\ id # "disk_io_time" => Same(rows, a, id) /\ Same(counters, k, id)
          /\ id # "disk_weighted_io" => Same(a, b, id) /\ Same(k, l, id)
          /\ Same(b, c, id) /\ Same(e, rows', id)
          /\ id # "disk_ops" => Same(c, e, id) /\ Same(l, counters', id)
      BY <1>1, Zenon
    <3> QED BY <3>1, <3>2, Zenon DEF Same
  <2>2. b = RecordIf(a, id, ms) /\ l = Noted(k, id, ns)
    BY <1>1, Zenon
  <2>3. Of(ms, D, L, Deltas(io, "weighted")) /\ Of(ns, D, L, Values(io, "weighted"))
    BY <1>5, Zenon
  <2>4. Bounded(io, "weighted")
    BY <1>2, <1>3, <1>4, Zenon DEF Bounded
  <2>5. Before(id, L, "weighted")
    BY <1>7, Zenon DEF SumInv, LastTold, Before
  <2> HIDE DEF ms, ns
  <2>6. After(id, L, io, "weighted")
    <3>1. Same(RecordIf(a, id, ms), rows', id) /\ Same(Noted(k, id, ns), counters', id)
      BY <2>1, <2>2
    <3> QED BY <1>2, <1>9, <1>10, <2>1, <2>3, <2>4, <2>5, <3>1, DeviceMetric, Zenon
  <2> QED BY <1>7, <2>6, Zenon DEF After
<1>14. /\ \A d \in Devices : Adds(rows', counters', Shown("disk_ops"), OpsRow(d), Next1(d, "ops"))
       /\ \A r \in DOMAIN counters' :
              r[1] = "disk_ops" => r \in DOMAIN counters \/ \E d \in Devices : r = OpsRow(d)
  <2> DEFINE id == "disk_ops"
             ms == Read(Increases(io, "ops"))
             ns == Read(us("ops"))
  <2>1. Same(rows, c, id) /\ Same(e, rows', id) /\ Same(counters, l, id) /\ Same(counters', counters', id)
    <3>1. Same(rows, rows, id) /\ Same(counters, counters, id) /\ Same(counters', counters', id)
      BY Zenon DEF Same
    <3>2. /\ id # "disk_io_time" => Same(rows, a, id) /\ Same(counters, k, id)
          /\ id # "disk_weighted_io" => Same(a, b, id) /\ Same(k, l, id)
          /\ Same(b, c, id) /\ Same(e, rows', id)
          /\ id # "disk_ops" => Same(c, e, id) /\ Same(l, counters', id)
      BY <1>1, Zenon
    <3> QED BY <3>1, <3>2, Zenon DEF Same
  <2>2. e = RecordIf(c, id, ms) /\ counters' = Noted(l, id, ns)
    BY <1>1, Zenon
  <2>3. Of(ms, D, O, Deltas(io, "ops")) /\ Of(ns, D, O, Values(io, "ops"))
    BY <1>5, Zenon
  <2>4. Bounded(io, "ops")
    BY <1>2, <1>3, <1>4, Zenon DEF Bounded
  <2>5. Before(id, O, "ops")
    BY <1>7, Zenon DEF SumInv, LastTold, Before
  <2> HIDE DEF ms, ns
  <2>6. After(id, O, io, "ops")
    <3>1. Same(RecordIf(c, id, ms), rows', id) /\ Same(Noted(l, id, ns), counters', id)
      BY <2>1, <2>2
    <3> QED BY <1>2, <1>9, <1>10, <2>1, <2>3, <2>4, <2>5, <3>1, DeviceMetric, Zenon
  <2> QED BY <1>7, <2>6, Zenon DEF After
<1>15. Same(rows, rows', "cpu_usage_time") /\ Same(counters, counters', "cpu_usage_time")
  <2> DEFINE id == "cpu_usage_time"
  <2>1. /\ Same(rows, a, id) /\ Same(a, b, id) /\ Same(b, c, id) /\ Same(c, e, id) /\ Same(e, rows', id)
        /\ Same(counters, k, id) /\ Same(k, l, id) /\ Same(l, counters', id)
    BY <1>1, Zenon
  <2> QED BY <2>1, ZenonT(30) DEF Same
<1>16. \A s \in CPUStates : Adds(rows', counters', Shown("cpu_usage_time"), CPURow(s), lastUsageTime[s])
  <2> TAKE s \in CPUStates
  <2>1. CPURow(s)[1] = "cpu_usage_time"
    BY IncreaseRows, Zenon
  <2>2. Adds(rows, counters, Shown("cpu_usage_time"), CPURow(s), lastUsageTime[s])
    BY Zenon DEF SumInv, LastTold
  <2>3. Same(rows, rows', CPURow(s)[1]) /\ Same(counters, counters', CPURow(s)[1])
    BY <1>15, <2>1, Zenon
  <2> QED BY <2>2, <2>3, AddsSame, Zenon
<1> HIDE DEF Next1
<1>17. \A id : Shown(id)' = Shown(id)
  BY DEF Shown
<1>18. LastTold'
  <2>1. \A d \in Devices : /\ LastIO(d)'.time = Next1(d, "time")
                           /\ LastIO(d)'.weighted = Next1(d, "weighted")
                           /\ LastIO(d)'.ops = Next1(d, "ops")
    BY <1>11, Zenon
  <2> QED BY <1>12, <1>13, <1>14, <1>16, <1>17, <2>1, Zenon DEF LastTold
<1>19. KnownRows'
  <2>1. \A r \in DOMAIN counters' : r[1] = "cpu_usage_time" => r \in DOMAIN counters
    BY <1>15, Zenon DEF Same
  <2> QED BY <1>12, <1>13, <1>14, <2>1, Zenon DEF SumInv, KnownRows
<1>20. LastTypes' /\ Created'
  <2>1. LastTypes'
    <3>1. DOMAIN lastIO' = DOMAIN io \cup DOMAIN lastIO
          /\ \A d \in DOMAIN lastIO' : lastIO'[d] = IF d \in DOMAIN io THEN io[d] ELSE lastIO[d]
      BY Zenon DEF DiskRead, Over
    <3> QED BY <1>2, <3>1, Zenon DEF SumInv, LastTypes
  <2> QED BY <2>1, Zenon DEF SumInv, Created
<1> QED BY <1>18, <1>19, <1>20 DEF SumInv

-----------------------------------------------------------------------------
(* Every step keeps the invariant *)

\* Every device is as old as the sample or older, and those of the last sample are as old.
LEMMA AgesStep ==
    ASSUME Ages, config \in Configs, Next
    PROVE  Ages'
<1> DEFINE ages == <<lastIO, ownAge, lastSample, sampleAge>>
<1>1. CASE CollectDisk
  <2>1. CASE UNCHANGED <<rows, lastIO, counters, ownAge, lastSample, sampleAge>>
    BY <2>1 DEF Ages
  <2>2. ASSUME NEW io, lastIO' = Over(io, lastIO), ownAge' = Over([d \in DOMAIN io |-> 0], ownAge),
               lastSample' = DOMAIN io, sampleAge' = 0
        PROVE  Ages'
    <3>1. DOMAIN ownAge = DOMAIN lastIO /\ \A d \in DOMAIN lastIO : ownAge[d] \in Nat
      BY DEF Ages
    <3>2. /\ DOMAIN lastIO' = DOMAIN io \cup DOMAIN lastIO
          /\ ownAge' = [d \in DOMAIN lastIO' |-> IF d \in DOMAIN io THEN 0 ELSE ownAge[d]]
      BY <2>2, <3>1, Zenon DEF Over
    <3>3. \A d \in DOMAIN lastIO' : ownAge'[d] \in Nat /\ (d \in DOMAIN io => ownAge'[d] = 0)
      BY <3>1, <3>2
    <3>4. ownAge' \in [DOMAIN lastIO' -> Nat]
      BY <3>2, <3>3
    <3> QED BY <2>2, <3>3, <3>4 DEF Ages
  <2>3. ASSUME NEW io, NEW partitions, NEW usage, DiskRead(io, partitions, usage)
        PROVE  lastIO' = Over(io, lastIO)
    BY <2>3, Zenon DEF DiskRead
  <2> QED BY <1>1, <2>1, <2>2, <2>3, DiskOutcome, Zenon
<1>2. CASE Tick
  <2>1. /\ UNCHANGED <<lastIO, lastSample>> /\ sampleAge' = Older(sampleAge)
        /\ ownAge' = [d \in DOMAIN ownAge |-> Older(ownAge[d])]
    BY <1>2, Zenon DEF Tick
  <2>2. \A a, b \in Nat : /\ Older(a) \in Nat /\ (a <= b => Older(a) <= Older(b))
    BY StatsAssumption DEF Older
  <2>3. /\ sampleAge \in Nat /\ DOMAIN ownAge = DOMAIN lastIO
        /\ \A d \in DOMAIN lastIO :
              ownAge[d] \in Nat /\ sampleAge <= ownAge[d] /\ (d \in lastSample => sampleAge = ownAge[d])
    BY DEF Ages
  <2>4. \A d \in DOMAIN lastIO : ownAge'[d] = Older(ownAge[d]) /\ ownAge'[d] \in Nat
    BY <2>1, <2>2, <2>3
  <2>5. ownAge' \in [DOMAIN lastIO' -> Nat]
    BY <2>1, <2>3, <2>4
  <2> QED BY <2>1, <2>2, <2>3, <2>4, <2>5 DEF Ages
<1>3. CASE UNCHANGED ages
  BY <1>3 DEF Ages
<1>4. StatsNext => CollectDisk \/ Tick \/ UNCHANGED ages
  BY Zenon DEF StatsNext, Loop, Collect, NewSystemStatsMonitorOrDie, StartCollecting, RoundDone, LoopStopped, Stop,
         CollectCPU, CollectHost, CollectMemory, CollectOSFeature, CollectNet, collectorVars, history
<1>5. UNCHANGED statsVars => UNCHANGED ages
  BY DEF statsVars, collectorVars, history
<1> HIDE DEF ages
<1> QED BY <1>1, <1>2, <1>3, <1>4, <1>5, Zenon DEF Next

\* The steps of the system stats monitor other than those of its collectors.
Idling == UNCHANGED <<rows, counters, lastUsageTime, lastIO>>

LEMMA StatsSteps ==
    ASSUME StatsNext
    PROVE  /\ config' = config
           /\ \/ monitor \notin {"new", "dead"} /\ tagMap' = tagMap
              \/ monitor' = "dead" /\ tagMap' = tagMap
              \/ monitor' = "created" /\ NewMetrics(config.named)
           /\ Collect \/ Idling
BY Zenon DEF StatsNext, Loop, Collect, NewSystemStatsMonitorOrDie, StartCollecting, RoundDone, LoopStopped, Stop,
       Tick, Turn, Dies, CollectCPU, CollectDisk, CollectHost, CollectMemory, CollectOSFeature, CollectNet,
       collectorVars, history, Idling

LEMMA CreatedStep ==
    ASSUME Created, StatsNext
    PROVE  Created' /\ config' = config /\ tagMap \subseteq tagMap'
<1>1. CASE monitor' = "created" /\ NewMetrics(config.named)
  <2>1. \A id \in config.named : View[id].tags \subseteq UNION {View[i].tags : i \in config.named}
    OBVIOUS
  <2> QED BY <1>1, <2>1, StatsSteps, Zenon DEF Created, NewMetrics
<1> QED BY <1>1, StatsSteps DEF Created

LEMMA StatsStep ==
    ASSUME ProblemInv, SumInv, StatsNext, UNCHANGED problemVars
    PROVE  ProblemInv' /\ SumInv'
<1>1. config \in Configs
  BY DEF ProblemInv, Calls
<1>2. Created' /\ config' = config /\ tagMap \subseteq tagMap'
  BY CreatedStep DEF SumInv
<1>3. ASSUME Same(rows, rows', Problem) PROVE ProblemInv'
  BY <1>2, <1>3, ProblemStutter
<1>4. ASSUME \A id \in IncreaseMetrics : Same(rows, rows', id) /\ Same(counters, counters', id),
             UNCHANGED <<lastUsageTime, lastIO>>
      PROVE  SumInv'
  BY <1>2, <1>4, SumStutter
<1>5. CASE CollectCPU
  <2>1. Same(rows, rows', Problem)
    BY <1>5, CPUElsewhere DEF Problem
  <2> QED BY <1>3, <1>5, <2>1, CPUStep
<1>6. CASE CollectDisk
  <2>1. CASE UNCHANGED <<rows, lastIO, counters>>
    <3>1. lastUsageTime' = lastUsageTime
      BY <1>6, Zenon DEF CollectDisk
    <3>2. \A id : Same(rows, rows', id) /\ Same(counters, counters', id)
      BY <2>1 DEF Same
    <3> QED BY <1>3, <1>4, <2>1, <3>1, <3>2
  <2>2. ASSUME NEW io, NEW partitions, NEW usage, DiskRead(io, partitions, usage)
        PROVE  ProblemInv' /\ SumInv'
    <3>1. monitor = "collecting" /\ UNCHANGED <<config, monitor, tagMap, lastUsageTime>>
      BY <1>6, Zenon DEF CollectDisk, Turn
    <3>2. SumInv'
      BY <1>1, <2>2, <3>1, DiskStep
    <3>3. Same(rows, rows', Problem)
      BY <2>2, DiskRowsElsewhere DEF Problem
    <3> QED BY <1>3, <3>2, <3>3
  <2> QED BY <1>1, <1>6, <2>1, <2>2, DiskOutcome, Zenon
<1>7. CASE CollectHost \/ CollectMemory \/ CollectOSFeature \/ CollectNet
  <2>1. \A id \in IncreaseMetrics \cup {Problem} : Same(rows, rows', id) /\ Same(counters, counters', id)
    <3> TAKE id \in IncreaseMetrics \cup {Problem}
    <3>1. id \notin {"host_uptime", "memory_bytes_used", "memory_percent_used", "memory_other",
                     "os_feature", "net_rx", "net_tx"}
      BY DEF IncreaseMetrics, Problem
    <3> QED BY <1>7, <3>1, HostElsewhere, MemoryElsewhere, OSFeatureElsewhere, NetElsewhere
  <2>2. UNCHANGED <<lastUsageTime, lastIO>>
    BY <1>7, Zenon DEF CollectHost, CollectMemory, CollectOSFeature, CollectNet, collectorVars
  <2> QED BY <1>3, <1>4, <2>1, <2>2
<1>8. CASE Idling
  <2>1. \A id : Same(rows, rows', id) /\ Same(counters, counters', id)
    BY <1>8, Zenon DEF Idling, Same
  <2> QED BY <1>3, <1>4, <1>8, <2>1 DEF Idling
<1> QED BY <1>5, <1>6, <1>7, <1>8, StatsSteps DEF Collect

LEMMA ProblemStep ==
    ASSUME ProblemInv, SumInv, ProblemNext(config.reporting), UNCHANGED statsVars
    PROVE  ProblemInv' /\ SumInv'
<1>1. UNCHANGED <<config, monitor, lastUsageTime, lastIO, counters>>
  BY DEF statsVars, collectorVars, history
<1>2. PICK c \in Callers :
        \/ \E r \in Reasons, n \in 0 .. 1 : IncrementProblemCounter(c, r, n)
        \/ \E t \in ProblemTypes, r \in Reasons, v \in 0 .. 1 : SetProblemGauge(c, t, r, v)
        \/ Lock(c) \/ ClearLastReason(c) \/ SetReason(c)
  <2>1. config.reporting \subseteq Callers
    BY ReportingAssumption, Zenon DEF ProblemInv, Calls
  <2> QED BY <2>1, Zenon DEF ProblemNext
<1>3. ProblemInv'
  BY <1>1, <1>2, IncrementStep, SetProblemGaugeStep, LockStep, ClearLastReasonStep, SetReasonStep
<1>4. tagMap' = tagMap
  BY <1>2, Zenon DEF IncrementProblemCounter, SetProblemGauge, Lock, ClearLastReason, SetReason
<1>5. \/ rows' = rows
      \/ \E ms : rows' = RecordAll(rows, "problem_counter", ms)
      \/ \E ms : rows' = RecordAll(rows, "problem_gauge", ms)
  BY <1>2, Zenon DEF IncrementProblemCounter, SetProblemGauge, Lock, ClearLastReason, SetReason, Gauge, Record
<1>6. \A id \in IncreaseMetrics : Same(rows, rows', id) /\ Same(counters, counters', id)
  <2> TAKE id \in IncreaseMetrics
  <2>1. id # "problem_counter" /\ id # "problem_gauge"
    BY DEF IncreaseMetrics
  <2>2. Same(rows, rows', id)
    <3>1. CASE rows' = rows
      BY <3>1 DEF Same
    <3> QED BY <1>5, <2>1, <3>1, RecordAllElsewhere
  <2>3. Same(counters, counters', id)
    BY <1>1 DEF Same
  <2> QED BY <2>2, <2>3
<1>7. Created'
  BY <1>1, <1>4 DEF SumInv, Created
<1> QED BY <1>1, <1>3, <1>6, <1>7, SumStutter

LEMMA InitInv == Init => IInv
<1> SUFFICES ASSUME Init PROVE IInv
  OBVIOUS
<1> USE DEF Init, StatsInit, ProblemInit, Empty
<1>1. Ages
  BY DEF Ages
<1>2. \A t : SetIn(rows, t) = {}
  BY DEF SetIn
<1>3. \A c \in Callers : call[c] = Idle /\ call[c].at = "idle"
  BY DEF Idle
<1>4. ProblemInv
  <2>1. Calls
    BY DEF Calls
  <2>2. MutexHeld
    BY <1>3, CallersAssumption DEF MutexHeld
  <2>3. OnRecord
    BY <1>2, <1>3, Zenon DEF OnRecord
  <2>4. AskedIsTold
    BY <1>3, Zenon DEF AskedIsTold
  <2> QED BY <2>1, <2>2, <2>3, <2>4 DEF ProblemInv
<1>5. 0 \in Counters /\ 0 % SumModulus = 0
  BY StatsAssumption, SumModulusAssumption DEF Counters
<1>6. \A q, shown : Adds(rows, counters, shown, q, 0)
  BY <1>5 DEF Adds, ToldIn
<1>7. LastTold
  BY <1>6, Zenon DEF LastTold, LastIO, NoIO
<1>8. LastTypes /\ Created /\ KnownRows
  BY <1>5, Zenon DEF LastTypes, Created, KnownRows
<1> QED BY <1>1, <1>4, <1>7, <1>8 DEF IInv, SumInv

\* What the collectors and the callers of the problem metrics manager remember agrees with
\* the rows they recorded, in every reachable state.
THEOREM Invariance == Spec => []IInv
<1>1. IInv /\ Next => IInv'
  <2> SUFFICES ASSUME IInv, Next PROVE IInv'
    OBVIOUS
  <2>1. Ages'
    BY AgesStep DEF IInv, ProblemInv, Calls
  <2>2. ProblemInv' /\ SumInv'
    BY StatsStep, ProblemStep DEF IInv, Next
  <2> QED BY <2>1, <2>2 DEF IInv
<1>2. IInv /\ UNCHANGED vars => IInv'
  <2> SUFFICES ASSUME IInv, UNCHANGED vars PROVE IInv'
    OBVIOUS
  <2>1. \A id : Same(rows, rows', id) /\ Same(counters, counters', id)
    BY DEF vars, statsVars, history, Same
  <2>2. Ages' /\ Created'
    BY Zenon DEF IInv, Ages, SumInv, Created, vars, statsVars, collectorVars, history
  <2>3. ProblemInv'
    BY <2>1, ProblemStutter DEF IInv, vars, statsVars
  <2>4. SumInv'
    BY <2>1, <2>2, SumStutter DEF IInv, vars, statsVars, collectorVars
  <2> QED BY <2>2, <2>3, <2>4 DEF IInv
<1> QED BY InitInv, <1>1, <1>2, PTL DEF Spec

\* recordIOCounters, for any set of devices, reads that fail and devices that come and go:
\* an average queue length is divided by the time since the device was last measured, or, for
\* a device that missed the last sample, by a shorter one, for one time is kept for all.
THEOREM AverageIntervalAlways == Spec => []AverageInterval
<1>1. IInv => AverageInterval
  BY DEF IInv, Ages, AverageInterval
<1> QED BY <1>1, Invariance, PTL

\* recordUsage and recordIOCounters, for any states, devices and counters below half the
\* range of the unsigned integers: the exported sum is the kernel's counter as last read.
THEOREM IncreasesAddUpAlways == Spec => []IncreasesAddUp
<1>1. IInv => IncreasesAddUp
  <2> SUFFICES ASSUME IInv, NEW r \in DOMAIN counters, r[1] \in IncreaseMetrics
               PROVE  rows[r] = counters[r] % SumModulus
    BY DEF IncreasesAddUp
  <2>1. \E id, last : Adds(rows, counters, Shown(id), r, last)
    <3>1. CASE r[1] = "cpu_usage_time"
      <4>1. PICK s \in CPUStates : r = CPURow(s)
        BY <3>1, Zenon DEF IInv, SumInv, KnownRows
      <4> QED BY <4>1, Zenon DEF IInv, SumInv, LastTold
    <3>2. CASE r[1] = "disk_io_time"
      <4>1. PICK d \in Devices : r = TimeRow(d)
        BY <3>2, Zenon DEF IInv, SumInv, KnownRows
      <4> QED BY <4>1, Zenon DEF IInv, SumInv, LastTold
    <3>3. CASE r[1] = "disk_weighted_io"
      <4>1. PICK d \in Devices : r = WeightedRow(d)
        BY <3>3, Zenon DEF IInv, SumInv, KnownRows
      <4> QED BY <4>1, Zenon DEF IInv, SumInv, LastTold
    <3>4. CASE r[1] = "disk_ops"
      <4>1. PICK d \in Devices : r = OpsRow(d)
        BY <3>4, Zenon DEF IInv, SumInv, KnownRows
      <4> QED BY <4>1, Zenon DEF IInv, SumInv, LastTold
    <3> QED BY <3>1, <3>2, <3>3, <3>4, Zenon DEF IncreaseMetrics
  <2> QED BY <2>1 DEF Adds, ToldIn
<1> QED BY <1>1, Invariance, PTL

\* SetProblemGauge, for any number of monitors, problem types and reasons: a scrape at any
\* moment sees at most one reason of a type, and between calls the one last asked for.
THEOREM LastReasonOnlyAlways == Spec => []LastReasonOnly
<1>1. IInv => LastReasonOnly
  <2> SUFFICES ASSUME IInv PROVE LastReasonOnly
    OBVIOUS
  <2>1. \A t : ReasonsSet(t) = SetIn(rows, t)
    BY DEF ReasonsSet, SetIn, GaugeRow, Problem
  <2>2. ASSUME NEW t \in ProblemTypes
        PROVE  Cardinality(ReasonsSet(t)) <= 1
    <3> DEFINE S == ReasonsSet(t)
    <3>1. \E x : S \subseteq {x}
      BY <2>1, Zenon DEF IInv, ProblemInv, OnRecord
    <3> HIDE DEF S
    <3>2. S = {} \/ \E x : S = {x}
      BY <3>1
    <3>3. Cardinality(S) = 0 \/ Cardinality(S) = 1
      BY <3>2, FS_EmptySet, FS_Singleton
    <3>4. Cardinality(S) <= 1
      BY <3>3
    <3> QED BY <3>4 DEF S
  <2>3. ASSUME mutex = NoCaller, NEW t \in DOMAIN asked
        PROVE  ReasonsSet(t) = (IF asked[t][2] = 1 THEN {asked[t][1]} ELSE {})
    <3>1. ~InProgress(t)
      BY <2>3, CallersAssumption DEF IInv, ProblemInv, MutexHeld, InProgress
    <3> QED BY <2>1, <3>1, Zenon DEF IInv, ProblemInv, AskedIsTold
  <2> QED BY <2>2, <2>3, Zenon DEF LastReasonOnly
<1> QED BY <1>1, Invariance, PTL
=============================================================================
