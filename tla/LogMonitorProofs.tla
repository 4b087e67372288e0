-------------------------- MODULE LogMonitorProofs ---------------------------
(***************************************************************************)
(* Proofs about the log monitor: what it reports, counts and exports of    *)
(* the lines it receives, for any rules, entries, sizes and channel        *)
(* capacities.                                                             *)
(***************************************************************************)
EXTENDS LogStateProofs, LogBufferProofs

-----------------------------------------------------------------------------
(* The invariant of the monitor *)

\* What the monitor relies on: the watcher sends logs.
LogTypes == received \in Seq(PushedLog) /\ logCh \in Seq(PushedLog)

\* The ring holds the lines received.
Buffered == RingHolds(buffer, received)

\* The lines before the last one are told of, and the rules before the one at work.
Reported ==
    LET n == Len(received)
    IN  /\ monitor.at \in {"new", "failed", "initialize"} => Sent = <<>> /\ received = <<>>
        /\ monitor.at \notin {"new", "failed", "initialize"} => Sent # <<>>
        /\ monitor.at \in {"receive", "stopping", "done"} => Told(Sent) = Expected(received)[n]
        /\ monitor.at \in {"match"} \cup Working =>
              Told(Sent) = Expected(received)[n - 1] \o Matches(received)[monitor.rule - 1]
        /\ monitor.at \in Working =>
              monitor.matched = CoveredLines(received, Rules[monitor.rule].pattern)

MonitorInv ==
    /\ MonitorTypes /\ Settled /\ Buffered /\ Reported
    /\ settings.reporting => CountedEvents /\ GaugesTell

-----------------------------------------------------------------------------
(* Steps of the monitor *)

\* The lines that a match covers are logs.
LEMMA CoveredLogs ==
    ASSUME NEW lines \in Seq(PushedLog), NEW expr \in Seq(Alternative)
    PROVE  /\ CoveredLines(lines, expr) \in Seq(AnyLog)
           /\ CoveredLines(lines, expr) # <<>> => CoveredLines(lines, expr)[1].time \in Nat
<1> DEFINE w == Window(lines)
           starts == Starts([alternatives |-> expr], concatLogs(w))
           first == Max({Owner(w, Min(starts)), BufferSize - Len(lines) + 1})
           covered == CoveredLines(lines, expr)
<1>1. w \in Seq(AnyLog) /\ Len(w) = BufferSize /\ Len(lines) \in Nat
  BY WindowFacts
<1>2. BufferSize \in Nat /\ BufferSize >= 1
  BY BufferSizeAssumption
<1>3. covered = IF starts = {} THEN <<>> ELSE SubSeq(w, first, BufferSize)
  BY DEF CoveredLines
<1> HIDE DEF w
<1>4. covered \in Seq(AnyLog)
  <2>1. CASE starts = {}
    BY <1>3, <2>1, EmptySeq
  <2>2. CASE starts # {}
    <3>1. starts \in SUBSET Nat
      <4>1. concatLogs(w) \in Seq(Letter)
        <5>1. Texts(w) \in [0 .. Len(w) -> Seq(Letter)]
          BY <1>1, TextsFacts, Zenon
        <5>2. Len(w) \in 0 .. Len(w)
          BY <1>1, <1>2
        <5> QED BY <5>1, <5>2 DEF concatLogs
      <4>2. Len(concatLogs(w)) \in Nat
        BY <4>1, LenProperties
      <4> QED BY <4>2 DEF Starts
    <3> DEFINE m == Min(starts)
    <3>2. m \in Nat
      <4> HIDE DEF starts
      <4> QED BY <2>2, <3>1, MinOfNumbers, Zenon
    <3> HIDE DEF m
    <3> DEFINE o == Owner(w, m)
    <3>3. o \in 1 .. BufferSize
      BY <1>1, <1>2, <3>2, OwnerFacts, Zenon
    <3> HIDE DEF o
    <3>4. first = Max({o, BufferSize - Len(lines) + 1})
      BY DEF o, m
    <3>5. first \in Int /\ first >= 1
      <4>1. o \in Int /\ BufferSize - Len(lines) + 1 \in Int
        BY <1>1, <1>2, <3>3
      <4>2. first = IF o >= BufferSize - Len(lines) + 1 THEN o ELSE BufferSize - Len(lines) + 1
        BY <3>4, <4>1, MaxOfTwo
      <4> QED BY <1>2, <3>3, <4>1, <4>2
    <3> HIDE DEF first
    <3>6. SubSeq(w, first, BufferSize) \in Seq(AnyLog)
      <4>1. \A i \in first .. BufferSize : w[i] \in AnyLog
        BY <1>1, <1>2, <3>5, ElementOfSeq
      <4> QED BY <1>1, <1>2, <3>5, <4>1, SubSeqProperties
    <3> QED BY <1>3, <2>2, <3>6
  <2> QED BY <2>1, <2>2
<1> HIDE DEF covered
<1>5. covered # <<>> => covered[1].time \in Nat
  <2> SUFFICES ASSUME covered # <<>> PROVE covered[1].time \in Nat
    OBVIOUS
  <2>1. 1 \in 1 .. Len(covered)
    BY <1>4, EmptySeq, LenProperties
  <2>2. covered[1] \in AnyLog
    BY <1>4, <2>1, ElementOfSeq
  <2> QED BY <2>2 DEF AnyLog
<1> QED BY <1>4, <1>5 DEF covered

-----------------------------------------------------------------------------
(* Conditions *)

LEMMA FirstIsWithin == FirstWithin
<1> SUFFICES ASSUME NEW cs \in Seq(Condition), NEW type
             PROVE  /\ First(cs, type) = 0 \/ First(cs, type) \in 1 .. Len(cs)
                    /\ First(cs, type) # 0 => cs[First(cs, type)].type = type
  BY Zenon DEF FirstWithin
<1> DEFINE is == {i \in DOMAIN cs : cs[i].type = type}
<1>1. DOMAIN cs = 1 .. Len(cs) /\ Len(cs) \in Nat
  BY LenProperties
<1>2. CASE is = {}
  BY <1>2 DEF First
<1>3. CASE is # {}
  <2>1. is \in SUBSET Nat
    BY <1>1
  <2>2. First(cs, type) = Min(is)
    BY <1>3 DEF First
  <2>3. Min(is) \in is
    <3> HIDE DEF is
    <3> QED BY <1>3, <2>1, MinOfNumbers
  <2> QED BY <1>1, <2>2, <2>3
<1> QED BY <1>2, <1>3

\* The match of a rule.
LEMMA MatchRuleMatches ==
    ASSUME LogTypes, Buffered, NEW r \in 1 .. Len(Rules)
    PROVE  Match(buffer, Patterns[r]) = CoveredLines(received, Rules[r].pattern)
<1>1. received \in Seq(PushedLog) /\ RingHolds(buffer, received)
  BY DEF LogTypes, Buffered
<1>2. Rules[r].pattern \in Seq(Alternative) /\ Patterns[r] = CompilePattern(Rules[r].pattern)
  BY RuleFacts DEF Patterns
<1> QED BY <1>1, <1>2, MatchIsCovered

LEMMA MonitorTypesStep ==
    ASSUME LogTypes, Buffered, MonitorTypes, [Next]_vars
    PROVE  MonitorTypes'
<1> USE DEF Working
<1>e. <<>> \in Seq(AnyLog) /\ Len(Rules) \in Nat
  BY EmptySeq, RuleFacts
<1>t. monitor \in MonitorState /\ monitor.at \in Places /\ monitor.rule \in Nat /\ monitor.matched \in Seq(AnyLog)
  BY DEF MonitorTypes, MonitorState
<1>p. /\ exported \in Seq(MonitorState) /\ output \in Seq(MonitorState) /\ conditions \in Seq(Condition)
      /\ counted \in [Reasons -> Nat] /\ gauge \in [RuledTypes -> Reasons \cup {"none"}]
  BY DEF MonitorTypes
<1>q. "initialize" \in Places /\ "failed" \in Places /\ "receive" \in Places /\ "initial" \in Places
      /\ "match" \in Places /\ "stamp" \in Places /\ "status" \in Places /\ "reason" \in Places
      /\ "send" \in Places /\ "done" \in Places /\ "stopping" \in Places
  BY DEF Places
<1>1. CASE Start
  <2>1. monitor' \in MonitorState /\ monitor'.at \in {"initialize", "failed"}
    <3>1. CASE monitor' = At("initialize", 0, <<>>)
      BY <1>e, <3>1 DEF At, MonitorState, Places
    <3>2. CASE monitor' = At("failed", 0, <<>>)
      BY <1>e, <3>2 DEF At, MonitorState, Places
    <3> QED BY <1>1, <3>1, <3>2 DEF Start
  <2> QED BY <1>1, <1>p, <2>1 DEF Start, MonitorTypes, metrics, exporter
<1>2. CASE Stop \/ UNCHANGED monitorVars
  <2>1. UNCHANGED <<conditions, monitor, output, received, exported, counted, gauge>>
    BY <1>2 DEF Stop, monitorVars, metrics, exporter
  <2> QED BY <2>1 DEF MonitorTypes, ConditionOf
<1>3. CASE InitializeStatus
  <2>1. monitor' \in MonitorState /\ monitor'.at = "receive"
    BY <1>3, <1>e DEF InitializeStatus, At, MonitorState, Places
  <2>2. output' \in Seq(MonitorState)
    <3>1. At("initial", 0, <<>>) \in MonitorState
      BY <1>e DEF At, MonitorState, Places
    <3> QED BY <1>3, <1>p, <3>1, AppendProperties DEF InitializeStatus
  <2>3. conditions' \in Seq(Condition)
    <3> DEFINE D == [type : STRING, reason : STRING]
               n == Len(DefaultConditions)
               c(i) == [type |-> DefaultConditions[i].type, status |-> FALSE,
                        reason |-> DefaultConditions[i].reason, transition |-> 0]
    <3>1. DefaultConditions \in Seq(D)
      BY RulesAssumption
    <3>2. n \in Nat /\ DOMAIN DefaultConditions = 1 .. n
      BY <3>1, LenProperties
    <3>3. ASSUME NEW i \in 1 .. n PROVE c(i) \in Condition
      <4>1. DefaultConditions[i] \in D
        BY <3>1, ElementOfSeq, Zenon
      <4> QED BY <4>1 DEF Condition
    <3>4. conditions' = [i \in 1 .. n |-> c(i)]
      BY <1>3, <3>2 DEF InitializeStatus
    <3> HIDE DEF c, n
    <3>5. conditions' \in [1 .. n -> Condition]
      BY <3>3, <3>4
    <3> QED BY <3>2, <3>5, SeqDef
  <2> QED BY <1>3, <1>p, <2>1, <2>2, <2>3, SMTT(30) DEF InitializeStatus, MonitorTypes, metrics, exporter
<1>4. CASE Receive
  <2>1. monitor' \in MonitorState /\ monitor'.at = "match" /\ monitor'.rule = 1
    BY <1>4, <1>e DEF Receive, At, MonitorState, Places
  <2>2. received' # <<>>
    <3>1. Head(logCh) \in PushedLog
      BY <1>4, HeadTailProperties DEF Receive, LogTypes
    <3>2. Len(received') = Len(received) + 1 /\ Len(received) \in Nat
      BY <1>4, <3>1, AppendProperties, LenProperties DEF Receive, LogTypes
    <3> QED BY <3>2
  <2>3. 1 \in 1 .. Len(Rules) + 1
    BY <1>e
  <2> QED BY <1>4, <1>p, <2>1, <2>2, <2>3, SMTT(30) DEF Receive, MonitorTypes, metrics, exporter
<1>5. CASE MatchRule
  <2> DEFINE r == monitor.rule
             matched == Match(buffer, Patterns[r])
  <2>1. r \in 1 .. Len(Rules) + 1 /\ received # <<>>
    BY <1>5 DEF MatchRule, MonitorTypes
  <2>2. UNCHANGED <<conditions, output, exported, counted, gauge, received>>
    BY <1>5 DEF MatchRule, MonitorOnly, metrics, exporter
  <2>3. CASE r > Len(Rules)
    <3>1. monitor' = At("receive", 0, <<>>)
      BY <1>5, <2>3 DEF MatchRule
    <3>2. monitor' \in MonitorState /\ monitor'.at = "receive"
      BY <1>e, <3>1 DEF At, MonitorState, Places
    <3> QED BY <1>p, <2>2, <3>2 DEF MonitorTypes
  <2>4. CASE ~(r > Len(Rules))
    <3>1. r \in 1 .. Len(Rules) /\ r + 1 \in 1 .. Len(Rules) + 1 /\ r \in Nat /\ r + 1 \in Nat
      BY <1>e, <2>1, <2>4
    <3>2. matched \in Seq(AnyLog)
      <4>1. matched = CoveredLines(received, Rules[r].pattern)
        BY <3>1, MatchRuleMatches
      <4>2. Rules[r].pattern \in Seq(Alternative) /\ received \in Seq(PushedLog)
        BY <3>1, RuleFacts DEF LogTypes
      <4> QED BY <4>1, <4>2, CoveredLogs
    <3>3. monitor' = IF matched = <<>> THEN At("match", r + 1, <<>>) ELSE At("stamp", r, matched)
      BY <1>5, <2>4 DEF MatchRule
    <3> HIDE DEF matched, r
    <3>4. /\ monitor' \in MonitorState
          /\ \/ monitor'.at = "match" /\ monitor'.rule = r + 1
             \/ monitor'.at = "stamp" /\ monitor'.rule = r /\ monitor'.matched = matched /\ matched # <<>>
      <4>1. CASE matched = <<>>
        BY <1>e, <3>1, <3>3, <4>1 DEF At, MonitorState, Places
      <4>2. CASE matched # <<>>
        BY <3>1, <3>2, <3>3, <4>2 DEF At, MonitorState, Places
      <4> QED BY <4>1, <4>2
    <3> QED BY <1>p, <2>1, <2>2, <3>1, <3>4 DEF MonitorTypes
  <2> QED BY <2>3, <2>4
<1>6. CASE Stamp
  <2> DEFINE rule == Rules[monitor.rule]
             i == ConditionOf(rule)
             event == IF rule.perm THEN i # 0 /\ Changes(i, rule) ELSE TRUE
             at == IF rule.perm /\ i # 0 THEN "status" ELSE "send"
  <2>1. monitor.rule \in 1 .. Len(Rules) /\ monitor.matched # <<>> /\ received # <<>>
    BY <1>6 DEF Stamp, MonitorTypes
  <2>2. /\ UNCHANGED <<output, exported, gauge, received>>
        /\ monitor' = [monitor EXCEPT !.event = event, !.at = at]
        /\ (UNCHANGED counted \/ Counted(event))
    BY <1>6, WriteLeaves, Zenon DEF Stamp, MonitorOnly
  <2>3. at \in Places /\ at \in {"status", "send"} /\ (at = "status" => i # 0)
    BY <1>q
  <2>4. event \in BOOLEAN
    BY Zenon DEF Changes
  <2> HIDE DEF event, at
  <2>5. /\ monitor' \in MonitorState /\ monitor'.at = at
        /\ monitor'.rule = monitor.rule /\ monitor'.matched = monitor.matched
    BY <1>t, <2>2, <2>3, <2>4, MovesTo, Zenon
  <2>6. conditions' \in Seq(Condition) /\ First(conditions', rule.condition) = i
    <3>1. CASE UNCHANGED conditions
      BY <1>p, <3>1 DEF First, ConditionOf
    <3>2. CASE ~UNCHANGED conditions
      <4>1. OneSet(conditions, conditions', i)
        BY <1>6, <3>2, FirstIsWithin, StampSets
      <4> QED BY <4>1, ConditionStays, Zenon DEF OneSet
    <3> QED BY <3>1, <3>2
  <2>7. counted' \in [Reasons -> Nat]
    BY <1>6, <1>p, <2>2, CountedTypes DEF Stamp
  <2>8. ConditionOf(Rules[monitor.rule])' = First(conditions', Rules[monitor'.rule].condition)
    BY DEF ConditionOf, First
  <2>9. monitor'.at = "status" => ConditionOf(Rules[monitor.rule])' # 0
    BY <2>3, <2>5, <2>6, <2>8
  <2>10. monitor'.at \in {"status", "send"}
    BY <2>3, <2>5
  <2> QED BY <1>p, <2>1, <2>2, <2>5, <2>6, <2>7, <2>9, <2>10, SMTT(30) DEF MonitorTypes
<1>7. CASE SetStatus
  <2>1. monitor.rule \in 1 .. Len(Rules) /\ monitor.matched # <<>> /\ received # <<>>
        /\ ConditionOf(Rules[monitor.rule]) # 0
    BY <1>7 DEF SetStatus, MonitorTypes
  <2>2. /\ UNCHANGED <<output, exported, counted, gauge, received>>
        /\ monitor' = [monitor EXCEPT !.at = "reason"]
    BY <1>7, WriteLeaves DEF SetStatus, MonitorOnly, metrics
  <2>3. /\ monitor' \in MonitorState /\ monitor'.at = "reason"
        /\ monitor'.rule = monitor.rule /\ monitor'.matched = monitor.matched
    BY <1>t, <1>q, <2>2, MovesOnTo
  <2>4. /\ conditions' \in Seq(Condition)
        /\ First(conditions', Rules[monitor.rule].condition) = ConditionOf(Rules[monitor.rule])
    BY <1>7, FirstIsWithin, SetStatusSets, ConditionStays, Zenon DEF OneSet
  <2>5. ConditionOf(Rules[monitor.rule])' = First(conditions', Rules[monitor'.rule].condition)
    BY DEF ConditionOf, First
  <2>6. ConditionOf(Rules[monitor.rule])' # 0
    BY <2>1, <2>3, <2>4, <2>5
  <2> QED BY <1>p, <2>1, <2>2, <2>3, <2>4, <2>6 DEF MonitorTypes
<1>8. CASE SetReason
  <2>1. monitor.rule \in 1 .. Len(Rules) /\ monitor.matched # <<>> /\ received # <<>>
    BY <1>8 DEF SetReason, MonitorTypes
  <2>2. /\ UNCHANGED <<output, exported, received>>
        /\ monitor' = [monitor EXCEPT !.at = "send"] /\ Counted(monitor.event)
        /\ \/ UNCHANGED gauge
           \/ gauge' = [gauge EXCEPT ![Rules[monitor.rule].condition] = Rules[monitor.rule].reason]
    BY <1>8, WriteLeaves DEF SetReason, MonitorOnly, Gauged
  <2>3. /\ monitor' \in MonitorState /\ monitor'.at = "send"
        /\ monitor'.rule = monitor.rule /\ monitor'.matched = monitor.matched
    BY <1>t, <1>q, <2>2, MovesOnTo
  <2>4. conditions' \in Seq(Condition)
    BY <1>8, FirstIsWithin, SetReasonSets DEF OneSet
  <2>5. counted' \in [Reasons -> Nat]
    BY <1>8, <2>2, CountedTypes DEF SetReason
  <2>6. gauge' \in [RuledTypes -> Reasons \cup {"none"}]
    BY <1>p, <2>1, <2>2, RuleFacts, SMTT(30)
  <2> QED BY <2>1, <2>2, <2>3, <2>4, <2>5, <2>6, <1>p, SMTT(30) DEF MonitorTypes
<1>9. CASE SendStatus
  <2>1. monitor.rule \in 1 .. Len(Rules) /\ received # <<>>
    BY <1>9 DEF SendStatus, MonitorTypes
  <2>2. monitor.rule + 1 \in 1 .. Len(Rules) + 1 /\ monitor.rule + 1 \in Nat
    BY <1>e, <2>1
  <2>3. monitor' \in MonitorState /\ monitor'.at = "match" /\ monitor'.rule = monitor.rule + 1
    BY <1>9, <1>e, <2>2 DEF SendStatus, At, MonitorState, Places
  <2>4. output' \in Seq(MonitorState)
    BY <1>9, <1>p, <1>t, AppendProperties DEF SendStatus
  <2> QED BY <1>9, <1>p, <2>1, <2>2, <2>3, <2>4, SMTT(30) DEF SendStatus, MonitorOnly, MonitorTypes, metrics, exporter
<1>10. CASE LogsClosed \/ StopWatcher \/ WatcherStopped
  <2>1. /\ UNCHANGED <<conditions, output, received, exported, counted, gauge>>
        /\ monitor' = At("done", 0, <<>>) \/ monitor' = At("stopping", 0, <<>>)
    BY <1>10 DEF LogsClosed, StopWatcher, WatcherStopped, Finish, metrics, exporter
  <2>2. monitor' \in MonitorState /\ monitor'.at \in {"done", "stopping"}
    <3>1. CASE monitor' = At("done", 0, <<>>)
      BY <1>e, <3>1 DEF At, MonitorState, Places
    <3>2. CASE monitor' = At("stopping", 0, <<>>)
      BY <1>e, <3>2 DEF At, MonitorState, Places
    <3> QED BY <2>1, <3>1, <3>2
  <2> QED BY <1>p, <2>1, <2>2 DEF MonitorTypes
<1>11. CASE Export
  <2>1. Head(output) \in MonitorState /\ Tail(output) \in Seq(MonitorState)
    BY <1>11, <1>p, HeadTailProperties DEF Export
  <2>2. exported' \in Seq(MonitorState) /\ output' \in Seq(MonitorState)
    BY <1>11, <1>p, <2>1, AppendProperties DEF Export
  <2>3. UNCHANGED <<conditions, monitor, received, counted, gauge>>
    BY <1>11 DEF Export, MonitorOnly, metrics
  <2> QED BY <2>2, <2>3 DEF MonitorTypes, ConditionOf
<1>12. CASE ExportCondition
  <2>1. UNCHANGED <<conditions, monitor, output, received, exported, counted, gauge>>
    BY <1>12, CopyLeaves
  <2> QED BY <2>1 DEF MonitorTypes, ConditionOf
<1> QED BY <1>1, <1>2, <1>3, <1>4, <1>5, <1>6, <1>7, <1>8, <1>9, <1>10, <1>11, <1>12, MonitorSteps, SMTT(30)

-----------------------------------------------------------------------------
(* What the exporter reads, and what is counted *)

\* One status more.
LEMMA EventsAreCounted == EventsCount
<1> SUFFICES ASSUME NEW s \in Seq(MonitorState), NEW m \in MonitorState, NEW reason
             PROVE  /\ Cardinality(EventsFor(s, reason)) \in Nat
                    /\ Cardinality(EventsFor(Append(s, m), reason))
                         = Cardinality(EventsFor(s, reason))
                           + IF m.event /\ Rules[m.rule].reason = reason THEN 1 ELSE 0
  BY Zenon DEF EventsCount
<1> DEFINE n == Len(s)
           E == EventsFor(s, reason)
           more == Append(s, m)
           F == EventsFor(more, reason)
           Is(x) == x.event /\ Rules[x.rule].reason = reason
<1>1. n \in Nat /\ DOMAIN s = 1 .. n
  BY LenProperties
<1>2. /\ more \in Seq(MonitorState) /\ Len(more) = n + 1 /\ more[n + 1] = m
      /\ \A i \in 1 .. n : more[i] = s[i]
  BY AppendProperties
<1>3. DOMAIN more = 1 .. n + 1
  BY <1>2, LenProperties
<1>4. E = {i \in 1 .. n : Is(s[i])} /\ F = {i \in 1 .. n + 1 : Is(more[i])}
  BY <1>1, <1>3 DEF EventsFor
<1> HIDE DEF E, F, more, n, Is
<1>5. F = IF Is(m) THEN E \cup {n + 1} ELSE E
  <2>1. \A i \in 1 .. n + 1 : i \in 1 .. n \/ i = n + 1
    BY <1>1
  <2>2. n + 1 \in 1 .. n + 1 /\ \A i \in 1 .. n : i \in 1 .. n + 1
    BY <1>1
  <2> QED BY <1>2, <1>4, <2>1, <2>2
<1>6. n + 1 \notin E
  BY <1>1, <1>4
<1>7. IsFiniteSet(E)
  <2>1. IsFiniteSet(1 .. n)
    BY <1>1, FS_Interval
  <2> QED BY <1>4, <2>1, FS_Subset, Zenon
<1>8. Cardinality(E) \in Nat
  BY <1>7, FS_CardinalityType
<1>9. Cardinality(E \cup {n + 1}) = Cardinality(E) + 1
  BY <1>6, <1>7, FS_AddElement, Zenon
<1>10. Cardinality(F) = Cardinality(E) + IF Is(m) THEN 1 ELSE 0
  BY <1>5, <1>8, <1>9
<1> QED BY <1>8, <1>10 DEF E, F, more, Is

\* The ring goes on to hold the lines received.
LEMMA BufferedStep ==
    ASSUME LogTypes, Buffered, [Next]_vars
    PROVE  Buffered'
<1>t. received \in Seq(PushedLog) /\ RingHolds(buffer, received)
  BY DEF LogTypes, Buffered
<1>1. CASE Receive
  <2>1. Head(logCh) \in PushedLog
    BY <1>1, HeadTailProperties DEF Receive, LogTypes
  <2>2. RingHolds(Push(buffer, Head(logCh)), Append(received, Head(logCh)))
    BY <1>t, <2>1, PushHolds
  <2> QED BY <1>1, <2>2 DEF Receive, Buffered
<1>2. CASE MatchRule
  <2>1. buffer' = buffer \/ \E p : buffer' = AfterMatch(buffer, p)
    BY <1>2 DEF MatchRule
  <2>2. \A p : RingHolds(AfterMatch(buffer, p), received)
    BY <1>t, AfterMatchHolds
  <2> QED BY <1>2, <1>t, <2>1, <2>2, SMTT(30) DEF MatchRule, MonitorOnly, Buffered
<1>3. CASE \/ Start \/ Stop \/ InitializeStatus \/ Stamp \/ SetStatus \/ SetReason \/ SendStatus
           \/ LogsClosed \/ StopWatcher \/ WatcherStopped \/ Export \/ ExportCondition
           \/ UNCHANGED monitorVars
  <2>1. UNCHANGED <<buffer, received>>
    BY <1>3, CopyLeaves, Zenon DEF Start, Stop, InitializeStatus, Stamp, SetStatus, SetReason, SendStatus, LogsClosed,
                StopWatcher, WatcherStopped, Export, Finish, MonitorOnly, monitorVars
  <2> QED BY <2>1 DEF Buffered
<1> QED BY <1>1, <1>2, <1>3, MonitorSteps

-----------------------------------------------------------------------------
(* The statuses that lines call for *)

\* Matches is the recursive function it looks like.
LEMMA MatchesFacts ==
    ASSUME NEW lines \in Seq(PushedLog)
    PROVE  /\ Matches(lines) \in [0 .. Len(Rules) -> Seq(Telling)]
           /\ Matches(lines)[0] = <<>>
           /\ \A r \in 1 .. Len(Rules) :
                 Matches(lines)[r] =
                    IF CoveredLines(lines, Rules[r].pattern) = <<>> THEN Matches(lines)[r - 1]
                    ELSE Append(Matches(lines)[r - 1],
                                <<r, CoveredLines(lines, Rules[r].pattern)[1].time>>)
<1> DEFINE N == Len(Rules)
           S == Seq(Telling)
           covered(r) == CoveredLines(lines, Rules[r].pattern)
           More(r, t) == IF covered(r) = <<>> THEN t ELSE Append(t, <<r, covered(r)[1].time>>)
           G == [r \in 1 .. N |-> [t \in S |-> More(r, t)]]
           Def(f) == [r \in 0 .. N |-> IF r = 0 THEN <<>> ELSE More(r, f[r - 1])]
<1>0. Matches(lines) = CHOOSE g : g = Def(g)
  <2>1. Matches(lines) = CHOOSE g : g = [r \in 0 .. Len(Rules) |->
                            IF r = 0 THEN <<>>
                            ELSE IF CoveredLines(lines, Rules[r].pattern) = <<>> THEN g[r - 1]
                            ELSE Append(g[r - 1], <<r, CoveredLines(lines, Rules[r].pattern)[1].time>>)]
    BY DEF Matches
  <2> QED BY <2>1
<1>1. N \in Nat /\ <<>> \in S
  BY RuleFacts, EmptySeq
<1>2. ASSUME NEW r \in 1 .. N, covered(r) # <<>> PROVE <<r, covered(r)[1].time>> \in Telling
  <2>1. Rules[r].pattern \in Seq(Alternative) /\ r \in Nat
    BY <1>1, RuleFacts
  <2>2. covered(r)[1].time \in Nat
    BY <1>2, <2>1, CoveredLogs
  <2> HIDE DEF covered
  <2> QED BY <2>1, <2>2 DEF Telling
<1>3. \A r \in 1 .. N, t \in S : More(r, t) \in S
  <2> HIDE DEF covered
  <2> TAKE r \in 1 .. N, t \in S
  <2>1. covered(r) # <<>> => Append(t, <<r, covered(r)[1].time>>) \in S
    BY <1>2, AppendProperties
  <2> QED BY <2>1
<1>a. \A r, t : More(r, t) = IF CoveredLines(lines, Rules[r].pattern) = <<>> THEN t
                ELSE Append(t, <<r, CoveredLines(lines, Rules[r].pattern)[1].time>>)
  OBVIOUS
<1> HIDE DEF S, N, More
<1>4. G \in [1 .. N -> [S -> S]]
  BY <1>3
<1>5. PICK f \in [0 .. N -> S] : f[0] = <<>> /\ \A n \in 1 .. N : f[n] = G[n][f[n - 1]]
  <2> DEFINE e == <<>>
  <2>1. e \in S
    BY <1>1
  <2>0. N \in Nat
    BY <1>1
  <2> HIDE DEF e, G, Def
  <2>2. \E f \in [0 .. N -> S] : Follows(f, N, e, G)
    BY <2>0, <1>4, <2>1, Recursion
  <2> QED BY <2>2, Zenon DEF e, Follows
<1>6. ASSUME NEW n \in 1 .. N PROVE f[n] = More(n, f[n - 1])
  <2>1. f[n - 1] \in S
    BY <1>1
  <2> QED BY <1>5, <2>1, Zenon
<1>7. f = Def(f)
  <2>1. \A n \in 0 .. N : f[n] = Def(f)[n]
    BY <1>1, <1>5, <1>6
  <2>2. f = [n \in 0 .. N |-> f[n]]
    BY <1>1
  <2> QED BY <2>1, <2>2
<1>8. Matches(lines) = Def(Matches(lines))
  <2> HIDE DEF Def
  <2> QED BY <1>0, <1>7
<1> DEFINE g == Matches(lines)
<1> HIDE DEF g
<1>9. g = Def(g)
  BY <1>8, Zenon DEF g
<1>10. \A n \in 1 .. N : g[n] = More(n, g[n - 1])
  BY <1>1, <1>9
<1>11. g[0] = <<>>
  BY <1>1, <1>9
<1>12. \A n \in 0 .. N : g[n] \in S
  <2> DEFINE T == {n \in 0 .. N : g[n] \in S}
  <2>1. 0 \in T
    BY <1>1, <1>11
  <2>2. \A n \in 1 .. N : n - 1 \in T => n \in T
    BY <1>1, <1>3, <1>10
  <2> HIDE DEF T
  <2>3. 0 .. N \subseteq T
    BY <1>1, <2>1, <2>2, SetInduction, Zenon
  <2> QED BY <2>3 DEF T
<1>13. g \in [0 .. N -> S]
  <2>1. g = [n \in 0 .. N |-> g[n]]
    BY <1>9
  <2> QED BY <1>12, <2>1
<1> QED BY <1>a, <1>10, <1>11, <1>13, Zenon DEF g, S, N

\* A sequence that another one begins with.
Begins(s, t) == Len(s) <= Len(t) /\ \A i \in 1 .. Len(s) : s[i] = t[i]

\* The rules add to what is told, one after the other.
LEMMA MatchesGrow ==
    ASSUME NEW lines \in Seq(PushedLog), NEW r \in 0 .. Len(Rules)
    PROVE  Begins(Matches(lines)[r], Matches(lines)[Len(Rules)])
<1> DEFINE N == Len(Rules)
           m(k) == Matches(lines)[k]
           T == {k \in 0 .. N : \A j \in 0 .. k : Begins(m(j), m(k))}
<1>1. N \in Nat
  BY RuleFacts
<1>2. \A k \in 0 .. N : m(k) \in Seq(Telling)
  BY MatchesFacts
<1>3. \A k \in 0 .. N : Len(m(k)) \in Nat
  BY <1>2, LenProperties, SMTT(30)
<1>4. ASSUME NEW k \in 1 .. N PROVE Begins(m(k - 1), m(k))
  <2> DEFINE x == <<k, CoveredLines(lines, Rules[k].pattern)[1].time>>
  <2>1. k - 1 \in 0 .. N
    BY <1>1
  <2>2. m(k) = m(k - 1) \/ (m(k) = Append(m(k - 1), x) /\ CoveredLines(lines, Rules[k].pattern) # <<>>)
    BY MatchesFacts, Zenon
  <2>3. CASE m(k) = m(k - 1)
    <3>1. Len(m(k - 1)) \in Nat
      BY <1>3, <2>1
    <3> HIDE DEF m
    <3> QED BY <2>3, <3>1 DEF Begins
  <2>4. CASE m(k) = Append(m(k - 1), x) /\ CoveredLines(lines, Rules[k].pattern) # <<>>
    <3>1. x \in Telling
      <4>1. Rules[k].pattern \in Seq(Alternative) /\ k \in Nat
        BY <1>1, RuleFacts, SMTT(30)
      <4>2. CoveredLines(lines, Rules[k].pattern)[1].time \in Nat
        BY <2>4, <4>1, CoveredLogs
      <4> QED BY <4>1, <4>2 DEF Telling
    <3>2. m(k - 1) \in Seq(Telling) /\ Len(m(k - 1)) \in Nat
      BY <1>2, <1>3, <2>1, SMTT(30)
    <3> HIDE DEF m, x
    <3>3. /\ Len(m(k)) = Len(m(k - 1)) + 1
          /\ \A i \in 1 .. Len(m(k - 1)) : m(k)[i] = m(k - 1)[i]
      BY <2>4, <3>1, <3>2, AppendProperties
    <3> QED BY <3>2, <3>3 DEF Begins
  <2> QED BY <2>2, <2>3, <2>4
<1> HIDE DEF m
<1>5. 0 \in T
  <2>1. 0 \in 0 .. N /\ \A j \in 0 .. 0 : j = 0
    BY <1>1
  <2>2. Begins(m(0), m(0))
    BY <1>3, <2>1 DEF Begins
  <2> QED BY <2>1, <2>2
<1>6. ASSUME NEW k \in 1 .. N, k - 1 \in T PROVE k \in T
  <2>1. k \in 0 .. N /\ k - 1 \in 0 .. N /\ \A j \in 0 .. k : (j \in 0 .. k - 1 \/ j = k) /\ j \in 0 .. N
    BY <1>1
  <2>2. ASSUME NEW j \in 0 .. k PROVE Begins(m(j), m(k))
    <3>1. CASE j = k
      BY <1>3, <2>1, <3>1 DEF Begins
    <3>2. CASE j \in 0 .. k - 1
      <4>1. Begins(m(j), m(k - 1)) /\ Begins(m(k - 1), m(k))
        BY <1>4, <1>6, <3>2
      <4>2. Len(m(j)) \in Nat /\ Len(m(k - 1)) \in Nat /\ Len(m(k)) \in Nat
        BY <1>3, <2>1
      <4> QED BY <4>1, <4>2 DEF Begins
    <3> QED BY <2>1, <3>1, <3>2
  <2> QED BY <2>1, <2>2
<1> HIDE DEF T
<1>7. 0 .. N \subseteq T
  BY <1>1, <1>5, <1>6, SetInduction, Zenon
<1>8. N \in T
  BY <1>1, <1>7
<1> QED BY <1>8 DEF T, m

\* Expected is the recursive function it looks like.
LEMMA ExpectedFacts ==
    ASSUME NEW lines \in Seq(PushedLog)
    PROVE  /\ Expected(lines) \in [0 .. Len(lines) -> Seq(Telling)]
           /\ Expected(lines)[0] = <<>>
           /\ \A n \in 1 .. Len(lines) :
                 Expected(lines)[n] =
                    Expected(lines)[n - 1] \o Matches(SubSeq(lines, 1, n))[Len(Rules)]
<1> DEFINE N == Len(lines)
           S == Seq(Telling)
           M(n) == Matches(SubSeq(lines, 1, n))[Len(Rules)]
           More(n, t) == t \o M(n)
           G == [n \in 1 .. N |-> [t \in S |-> More(n, t)]]
           Def(f) == [n \in 0 .. N |-> IF n = 0 THEN <<>> ELSE More(n, f[n - 1])]
<1>0. Expected(lines) = CHOOSE g : g = Def(g)
  BY DEF Expected
<1>1. N \in Nat /\ <<>> \in S
  BY LenProperties, EmptySeq
<1>2. ASSUME NEW n \in 1 .. N PROVE M(n) \in S
  <2>1. SubSeq(lines, 1, n) \in Seq(PushedLog)
    <3>1. n \in 0 .. Len(lines)
      BY <1>1
    <3> QED BY <3>1, FirstLines
  <2>2. Len(Rules) \in 0 .. Len(Rules)
    BY RuleFacts
  <2> QED BY <2>1, <2>2, MatchesFacts, Zenon
<1>3. \A n \in 1 .. N, t \in S : More(n, t) \in S
  <2> HIDE DEF M
  <2> QED BY <1>2, ConcatProperties
<1>a. \A n, t : More(n, t) = t \o Matches(SubSeq(lines, 1, n))[Len(Rules)]
  BY SMTT(30)
<1> HIDE DEF S, N, More
<1>4. G \in [1 .. N -> [S -> S]]
  BY <1>3
<1>5. PICK f \in [0 .. N -> S] : f[0] = <<>> /\ \A n \in 1 .. N : f[n] = G[n][f[n - 1]]
  <2> DEFINE e == <<>>
  <2>1. e \in S
    BY <1>1
  <2>0. N \in Nat
    BY <1>1
  <2> HIDE DEF e, G, Def
  <2>2. \E f \in [0 .. N -> S] : Follows(f, N, e, G)
    BY <2>0, <1>4, <2>1, Recursion
  <2> QED BY <2>2, Zenon DEF e, Follows
<1>6. ASSUME NEW n \in 1 .. N PROVE f[n] = More(n, f[n - 1])
  <2>1. f[n - 1] \in S
    BY <1>1
  <2> QED BY <1>5, <2>1, Zenon
<1>7. f = Def(f)
  <2>1. \A n \in 0 .. N : f[n] = Def(f)[n]
    BY <1>1, <1>5, <1>6
  <2>2. f = [n \in 0 .. N |-> f[n]]
    BY <1>1
  <2> QED BY <2>1, <2>2
<1>8. Expected(lines) = Def(Expected(lines))
  <2> HIDE DEF Def
  <2> QED BY <1>0, <1>7
<1> DEFINE g == Expected(lines)
<1> HIDE DEF g
<1>9. g = Def(g)
  BY <1>8, Zenon DEF g
<1>10. \A n \in 1 .. N : g[n] = More(n, g[n - 1])
  BY <1>1, <1>9
<1>11. g[0] = <<>>
  BY <1>1, <1>9
<1>12. \A n \in 0 .. N : g[n] \in S
  <2> DEFINE T == {n \in 0 .. N : g[n] \in S}
  <2>1. 0 \in T
    BY <1>1, <1>11
  <2>2. \A n \in 1 .. N : n - 1 \in T => n \in T
    BY <1>1, <1>3, <1>10
  <2> HIDE DEF T
  <2>3. 0 .. N \subseteq T
    BY <1>1, <2>1, <2>2, SetInduction, Zenon
  <2> QED BY <2>3 DEF T
<1>13. g \in [0 .. N -> S]
  <2>1. g = [n \in 0 .. N |-> g[n]]
    BY <1>9
  <2> QED BY <1>12, <2>1
<1> QED BY <1>a, <1>10, <1>11, <1>13, Zenon DEF g, S, N

\* What earlier lines call for does not change.
LEMMA ExpectedStable ==
    ASSUME NEW lines \in Seq(PushedLog), NEW log \in PushedLog
    PROVE  Expected(Append(lines, log))[Len(lines)] = Expected(lines)[Len(lines)]
<1> DEFINE N == Len(lines)
           more == Append(lines, log)
           e(n) == Expected(lines)[n]
           f(n) == Expected(more)[n]
           M(n) == Matches(SubSeq(lines, 1, n))[Len(Rules)]
           T == {n \in 0 .. N : f(n) = e(n)}
<1>1. N \in Nat
  BY LenProperties
<1>2. more \in Seq(PushedLog) /\ Len(more) = N + 1
  BY AppendProperties
<1>3. ASSUME NEW n \in 1 .. N PROVE f(n) = f(n - 1) \o M(n) /\ e(n) = e(n - 1) \o M(n)
  <2>1. n \in 1 .. Len(more) /\ n \in 0 .. N
    BY <1>1, <1>2
  <2>2. SubSeq(more, 1, n) = SubSeq(lines, 1, n)
    BY <2>1, FirstLines
  <2>3. f(n) = f(n - 1) \o Matches(SubSeq(more, 1, n))[Len(Rules)]
    BY <1>2, <2>1, ExpectedFacts, Zenon
  <2>4. e(n) = e(n - 1) \o M(n)
    BY ExpectedFacts, Zenon
  <2> QED BY <2>2, <2>3, <2>4, Zenon
<1>4. f(0) = <<>> /\ e(0) = <<>>
  BY <1>2, ExpectedFacts, Zenon
<1> HIDE DEF e, f, M
<1>5. 0 \in T
  BY <1>1, <1>4
<1>6. ASSUME NEW n \in 1 .. N, n - 1 \in T PROVE n \in T
  <2>1. n \in 0 .. N /\ f(n - 1) = e(n - 1)
    BY <1>1, <1>6
  <2>2. f(n) = e(n)
    BY <1>3, <2>1, Zenon
  <2> QED BY <2>1, <2>2
<1> HIDE DEF T
<1>7. 0 .. N \subseteq T
  BY <1>1, <1>5, <1>6, SetInduction, Zenon
<1>8. N \in T
  BY <1>1, <1>7
<1> QED BY <1>8 DEF T, e, f

\* All that lines call for: what the lines before the last one do, and what it adds.
LEMMA ExpectedLast ==
    ASSUME NEW lines \in Seq(PushedLog), lines # <<>>
    PROVE  /\ Len(lines) \in Nat /\ Len(lines) >= 1
           /\ Expected(lines)[Len(lines) - 1] \in Seq(Telling)
           /\ Expected(lines)[Len(lines)] =
                 Expected(lines)[Len(lines) - 1] \o Matches(lines)[Len(Rules)]
<1> DEFINE N == Len(lines)
<1>1. N \in Nat /\ N >= 1 /\ N \in 1 .. N /\ N - 1 \in 0 .. N /\ N \in 0 .. N
  <2>1. N \in Nat /\ N # 0
    BY LenProperties, EmptySeq
  <2> QED BY <2>1
<1>2. SubSeq(lines, 1, N) = lines
  BY <1>1, FirstLines
<1>3. Expected(lines)[N] = Expected(lines)[N - 1] \o Matches(SubSeq(lines, 1, N))[Len(Rules)]
  BY <1>1, ExpectedFacts, Zenon
<1>4. Expected(lines)[N - 1] \in Seq(Telling)
  BY <1>1, ExpectedFacts, Zenon
<1> QED BY <1>1, <1>2, <1>3, <1>4, Zenon

\* What the monitor reports goes on to follow the lines.
LEMMA ReportedStep ==
    ASSUME LogTypes, LogTypes', MonitorTypes, MonitorTypes', Buffered, Reported, [Next]_vars
    PROVE  Reported'
<1> USE DEF Working
<1> DEFINE n == Len(received)
           Starting == {"new", "failed", "initialize"}
           Idle == {"receive", "stopping", "done"}
           Busy == {"match", "stamp", "status", "reason", "send"}
<1>t. /\ monitor \in MonitorState /\ exported \in Seq(MonitorState) /\ output \in Seq(MonitorState)
      /\ received \in Seq(PushedLog) /\ received' \in Seq(PushedLog) /\ Len(Rules) \in Nat
  BY RuleFacts DEF MonitorTypes, LogTypes
<1>s. Sent \in Seq(MonitorState)
  BY <1>t, SentStep DEF Sent
<1>r. /\ monitor.at \in Starting => Sent = <<>> /\ received = <<>>
      /\ monitor.at \notin Starting => Sent # <<>>
      /\ monitor.at \in Idle => Told(Sent) = Expected(received)[n]
      /\ monitor.at \in Busy => Told(Sent) = Expected(received)[n - 1] \o Matches(received)[monitor.rule - 1]
      /\ monitor.at \in Busy /\ monitor.at # "match" =>
            monitor.matched = CoveredLines(received, Rules[monitor.rule].pattern)
  BY Zenon DEF Reported
<1>k. ASSUME UNCHANGED <<received, Sent>>, monitor.at \in Starting \/ monitor'.at \notin Starting,
             monitor.at \notin Starting \/ monitor'.at \in Starting,
             monitor'.at \in Idle => monitor.at \in Idle,
             monitor'.at \in Busy => /\ monitor.at \in Busy /\ monitor'.rule = monitor.rule
                                     /\ monitor'.at # "match" => /\ monitor.at # "match"
                                                                 /\ monitor'.matched = monitor.matched
      PROVE  Reported'
  <2>1. Told(Sent)' = Told(Sent)
    BY <1>k DEF Told
  <2>2. CASE monitor'.at \notin Busy
    BY <1>r, <1>k, <2>1, <2>2, Zenon DEF Reported
  <2>3. CASE monitor'.at \in Busy
    BY <1>r, <1>k, <2>1, <2>3, Zenon DEF Reported
  <2> QED BY <2>2, <2>3, SMTT(30)
<1>e. UNCHANGED <<exported, output>> => UNCHANGED Sent
  BY DEF Sent
<1>1. CASE Start
  <2>1. UNCHANGED <<received, Sent>> /\ monitor.at = "new"
    BY <1>1, <1>e DEF Start, exporter
  <2>2. monitor'.at \in {"initialize", "failed"}
    BY <1>1 DEF Start, At
  <2> QED BY <1>k, <2>1, <2>2
<1>2. CASE Stop \/ UNCHANGED monitorVars \/ Export \/ ExportCondition
  <2>1. UNCHANGED <<monitor, received>>
    BY <1>2, CopyLeaves DEF Stop, monitorVars, Export, MonitorOnly
  <2>2. UNCHANGED Sent
    <3>1. CASE Export
      BY <1>t, <3>1, SentStep, SMTT(30) DEF Export, Sent
    <3>2. CASE Stop \/ UNCHANGED monitorVars \/ ExportCondition
      BY <3>2, <1>e, CopyLeaves, SMTT(30) DEF Stop, monitorVars, exporter
    <3> QED BY <1>2, <3>1, <3>2
  <2> QED BY <1>k, <2>1, <2>2, SMTT(30)
<1>3. CASE InitializeStatus
  <2> DEFINE m == At("initial", 0, <<>>)
  <2>1. m \in MonitorState
    BY EmptySeq DEF At, MonitorState, Places
  <2>2. UNCHANGED <<exported, received>> /\ output' = Append(output, m) /\ monitor.at = "initialize"
    BY <1>3 DEF InitializeStatus, exporter
  <2>3. monitor'.at = "receive"
    BY <1>3, SMTT(30) DEF InitializeStatus, At
  <2> HIDE DEF m
  <2>4. Sent' = Append(Sent, m) /\ Sent = <<>> /\ received = <<>>
    BY <1>t, <1>r, <2>1, <2>2, SentStep DEF Sent
  <2>5. Told(Sent') = <<>> /\ Sent' # <<>>
    <3>1. Told(Append(Sent, m)) = <<>>
      BY <1>s, <2>4, ToldFacts, Zenon
    <3>2. Append(Sent, m) # <<>>
      BY <1>s, <2>4
    <3> QED BY <2>4, <3>1, <3>2
  <2>6. Expected(received')[Len(received')] = <<>>
    <3>1. Len(received) = 0
      BY <2>4
    <3> QED BY <1>t, <2>2, <3>1, ExpectedFacts, Zenon
  <2> QED BY <2>3, <2>5, <2>6, SMTT(30) DEF Reported
<1>4. CASE Receive
  <2> DEFINE log == Head(logCh)
  <2>1. log \in PushedLog
    BY <1>4, HeadTailProperties DEF Receive, LogTypes
  <2>2. received' = Append(received, log) /\ UNCHANGED <<exported, output>> /\ monitor.at = "receive"
    BY <1>4 DEF Receive, exporter
  <2>3. monitor'.at = "match" /\ monitor'.rule = 1
    BY <1>4 DEF Receive, At
  <2> HIDE DEF log
  <2>4. Len(received') = n + 1 /\ n \in Nat /\ Len(received') - 1 = n
    BY <1>t, <2>1, <2>2, AppendProperties, LenProperties, SMTT(30)
  <2>5. Expected(received')[n] = Expected(received)[n]
    BY <1>t, <2>1, <2>2, ExpectedStable, SMTT(30)
  <2>6. Matches(received')[0] = <<>>
    BY <1>t, MatchesFacts
  <2>7. Expected(received)[n] \o <<>> = Expected(received)[n]
    <3>1. Expected(received)[n] \in Seq(Telling)
      <4>1. n \in 0 .. Len(received)
        BY <2>4
      <4> QED BY <1>t, <4>1, ExpectedFacts, Zenon
    <3> QED BY <3>1, ConcatEmptySeq
  <2>8. UNCHANGED Sent /\ Sent # <<>> /\ Told(Sent) = Expected(received)[n]
    BY <1>e, <1>r, <2>2
  <2>9. Told(Sent') = Expected(received')[Len(received') - 1] \o Matches(received')[monitor'.rule - 1]
    <3>1. monitor'.rule - 1 = 0
      BY <2>3
    <3> QED BY <2>4, <2>5, <2>6, <2>7, <2>8, <3>1, Zenon
  <2> QED BY <2>3, <2>8, <2>9, Zenon DEF Reported
<1>5. CASE MatchRule
  <2> DEFINE r == monitor.rule
             matched == Match(buffer, Patterns[r])
  <2>1. r \in 1 .. Len(Rules) + 1 /\ received # <<>> /\ monitor.at = "match"
    BY <1>5 DEF MatchRule, MonitorTypes
  <2>2. UNCHANGED <<exported, output, received>>
    BY <1>5 DEF MatchRule, MonitorOnly, exporter
  <2>3. UNCHANGED Sent /\ Sent # <<>> /\ Told(Sent) = Expected(received)[n - 1] \o Matches(received)[r - 1]
    BY <1>e, <1>r, <2>1, <2>2, Zenon
  <2>4. CASE r > Len(Rules)
    <3>1. monitor' = At("receive", 0, <<>>)
      BY <1>5, <2>4 DEF MatchRule
    <3>2. monitor'.at = "receive"
      BY <3>1 DEF At
    <3>3. r - 1 = Len(Rules)
      BY <1>t, <2>1, <2>4
    <3>4. Told(Sent) = Expected(received)[n]
      BY <1>t, <2>1, <2>3, <3>3, ExpectedLast, Zenon
    <3> QED BY <2>2, <2>3, <3>2, <3>4, SMTT(30) DEF Reported
  <2>5. CASE ~(r > Len(Rules))
    <3>1. r \in 1 .. Len(Rules)
      BY <1>t, <2>1, <2>5
    <3>2. matched = CoveredLines(received, Rules[r].pattern)
      BY <3>1, MatchRuleMatches
    <3>3. monitor' = IF matched = <<>> THEN At("match", r + 1, <<>>) ELSE At("stamp", r, matched)
      BY <1>5, <2>5 DEF MatchRule
    <3> HIDE DEF matched, r
    <3>4. CASE matched = <<>>
      <4>1. monitor'.at = "match" /\ monitor'.rule = r + 1 /\ monitor'.rule - 1 = r
        BY <3>1, <3>3, <3>4 DEF At
      <4>2. Matches(received)[r] = Matches(received)[r - 1]
        BY <1>t, <3>1, <3>2, <3>4, MatchesFacts, Zenon
      <4> QED BY <2>2, <2>3, <4>1, <4>2, Zenon DEF Reported
    <3>5. CASE matched # <<>>
      <4>1. monitor'.at = "stamp" /\ monitor'.rule = r /\ monitor'.matched = matched
        BY <3>3, <3>5 DEF At
      <4> QED BY <2>2, <2>3, <3>2, <4>1, Zenon DEF Reported
    <3> QED BY <3>4, <3>5
  <2> QED BY <2>4, <2>5, SMTT(30)
<1>6. CASE Stamp \/ SetStatus \/ SetReason
  <2>1. UNCHANGED <<received, Sent>> /\ monitor.at \in {"stamp", "status", "reason"}
    BY <1>6, <1>e, WriteLeaves, Zenon DEF Stamp, SetStatus, SetReason, MonitorOnly
  <2>2. /\ monitor'.at \in {"status", "reason", "send"}
        /\ monitor'.rule = monitor.rule /\ monitor'.matched = monitor.matched
    BY <1>6, <1>t, Zenon DEF Stamp, SetStatus, SetReason, MonitorState
  <2> QED BY <1>k, <2>1, <2>2, Zenon
<1>7. CASE SendStatus
  <2> DEFINE r == monitor.rule
             x == <<r, monitor.matched[1].time>>
             before == Expected(received)[n - 1]
             m(k) == Matches(received)[k]
  <2>1. UNCHANGED <<exported, received>> /\ output' = Append(output, monitor) /\ monitor.at = "send"
    BY <1>7, SMTT(30) DEF SendStatus, MonitorOnly, exporter
  <2>2. r \in 1 .. Len(Rules) /\ received # <<>> /\ monitor.matched # <<>>
    BY <2>1, Zenon DEF MonitorTypes
  <2>3. /\ monitor.matched = CoveredLines(received, Rules[r].pattern)
        /\ Sent # <<>> /\ Told(Sent) = before \o m(r - 1)
    BY <1>r, <2>1, Zenon
  <2>4. x \in Telling
    <3>1. Rules[r].pattern \in Seq(Alternative) /\ r \in Nat
      BY <2>2, RuleFacts, SMTT(30)
    <3>2. monitor.matched[1].time \in Nat
      BY <1>t, <2>2, <2>3, <3>1, CoveredLogs, SMTT(30)
    <3> QED BY <3>1, <3>2, SMTT(30) DEF Telling
  <2>5. Sent' = Append(Sent, monitor)
    BY <1>t, <2>1, SentStep DEF Sent
  <2>6. before \in Seq(Telling) /\ m(r - 1) \in Seq(Telling)
    <3>1. r - 1 \in 0 .. Len(Rules)
      BY <2>2, <1>t
    <3> QED BY <1>t, <2>2, <3>1, ExpectedLast, MatchesFacts, Zenon
  <2>7. m(r) = Append(m(r - 1), x)
    BY <1>t, <2>2, <2>3, MatchesFacts, Zenon
  <2>8. monitor'.at = "match" /\ monitor'.rule = r + 1 /\ monitor'.rule - 1 = r
    BY <1>7, <1>t, <2>2 DEF SendStatus, At
  <2> HIDE DEF before, m
  <2>9. Told(Sent') = before \o m(r)
    <3>1. Told(Sent) \in Seq(Telling)
      BY <2>3, <2>6, ConcatProperties
    <3>2. Told(Append(Sent, monitor)) = Append(Told(Sent), x)
      BY <1>t, <1>s, <2>3, <2>4, <3>1, ToldFacts, Zenon
    <3> HIDE DEF x
    <3>3. before \o Append(m(r - 1), x) = Append(before \o m(r - 1), x)
      BY <2>4, <2>6, SentStep
    <3> QED BY <2>3, <2>5, <2>7, <3>2, <3>3, Zenon
  <2>10. Sent' # <<>>
    BY <1>s, <2>5, SMTT(30)
  <2> QED BY <2>1, <2>8, <2>9, <2>10, Zenon DEF Reported, before, m
<1>8. CASE LogsClosed \/ StopWatcher \/ WatcherStopped
  <2>1. UNCHANGED <<received, Sent>> /\ monitor.at \in {"receive", "stopping"}
    BY <1>8, <1>e, SMTT(30) DEF LogsClosed, StopWatcher, WatcherStopped, Finish, exporter
  <2>2. monitor'.at \in {"done", "stopping"}
    BY <1>8 DEF LogsClosed, StopWatcher, WatcherStopped, Finish, At
  <2> QED BY <1>k, <2>1, <2>2, SMTT(30)
<1> QED BY <1>1, <1>2, <1>3, <1>4, <1>5, <1>6, <1>7, <1>8, MonitorSteps, SMTT(30)
-----------------------------------------------------------------------------
(* The inductive invariant and what it implies *)

\* The inductive invariant: what the monitor holds, of lines that a watcher sends.
IInv == LogTypes /\ MonitorInv

\* It holds at the start,
LEMMA InitInv ==
    ASSUME Init
    PROVE  IInv
<1>1. LogTypes
  BY EmptySeq, Zenon DEF Init, WatcherInit, LogTypes
<1> USE DEF Init
<1>e. <<>> \in Seq(AnyLog) /\ <<>> \in Seq(MonitorState) /\ <<>> \in Seq(Condition)
  BY EmptySeq
<1>a. monitor \in MonitorState /\ monitor.at = "new"
  BY <1>e DEF At, MonitorState, Places
<1>3. MonitorTypes
  BY <1>e, <1>a DEF MonitorTypes, RuledTypes, Working
<1>4. Settled
  BY DEF Settled
<1>s. Sent = <<>>
  BY <1>e, ConcatEmptySeq, SMTT(30) DEF Sent
<1>5. CountedEvents
  <2>1. ASSUME NEW r \in Reasons PROVE Cardinality(EventsFor(Sent, r)) = 0
    <3>1. EventsFor(Sent, r) = {}
      BY <1>s DEF EventsFor
    <3> QED BY <3>1, FS_EmptySet
  <2> QED BY <1>a, <2>1, SMTT(30) DEF CountedEvents
<1>6. GaugesTell
  <2>1. Len(conditions) = 0
    OBVIOUS
  <2> QED BY <2>1 DEF GaugesTell, Tells
<1>7. Buffered
  BY NewHolds DEF Buffered
<1>8. Reported
  BY <1>a, <1>s, Zenon DEF Reported, Working
<1> QED BY <1>1, <1>3, <1>4, <1>5, <1>6, <1>7, <1>8, SMTT(30) DEF IInv, MonitorInv

\* and every step keeps it while the watcher keeps the types of what it sends.
LEMMA StepInv ==
    ASSUME IInv, LogTypes', [Next]_vars
    PROVE  MonitorInv'
<1> USE DEF IInv, MonitorInv
<1>1. MonitorTypes'
  BY MonitorTypesStep
<1>2. Settled' /\ (settings.reporting => CountedEvents')
  BY SettledStep, EventsAreCounted, CountedEventsStep
<1>3. settings.reporting => GaugesTell'
  BY <1>1, FirstIsWithin, GaugesTellStep
<1>6. settings' = settings
  BY SettingsFixed
<1>4. Buffered'
  BY BufferedStep
<1>5. Reported'
  BY <1>1, ReportedStep
<1> QED BY <1>1, <1>2, <1>3, <1>4, <1>5, <1>6, Zenon

\* What is told is the beginning of what is called for.
LEMMA BeginsIsSubSeq ==
    ASSUME NEW s \in Seq(Telling), NEW t \in Seq(Telling), Begins(s, t)
    PROVE  s = SubSeq(t, 1, Len(s)) /\ Len(s) <= Len(t)
<1>1. Len(s) \in 0 .. Len(t) /\ Len(s) \in Nat /\ Len(t) \in Nat
  BY LenProperties DEF Begins
<1> DEFINE u == SubSeq(t, 1, Len(s))
<1>2. u \in Seq(Telling) /\ Len(u) = Len(s) /\ \A i \in 1 .. Len(s) : u[i] = t[i]
  BY <1>1, FirstLines
<1> HIDE DEF u
<1>3. \A i \in 1 .. Len(s) : s[i] = u[i]
  BY <1>2 DEF Begins
<1>4. s = u
  BY <1>2, <1>3, SeqEqual
<1> QED BY <1>1, <1>4 DEF u

\* Two beginnings of which one begins the other, after the same statuses.
LEMMA BeginsJoined ==
    ASSUME NEW before \in Seq(Telling), NEW a \in Seq(Telling), NEW b \in Seq(Telling), Begins(a, b)
    PROVE  before \o a \in Seq(Telling) /\ Begins(before \o a, before \o b)
<1> DEFINE s == before \o a
           t == before \o b
<1>1. Len(before) \in Nat /\ Len(a) \in Nat /\ Len(b) \in Nat
  BY LenProperties
<1>2. /\ s \in Seq(Telling) /\ Len(s) = Len(before) + Len(a)
      /\ \A i \in 1 .. Len(before) + Len(a) : s[i] = IF i <= Len(before) THEN before[i] ELSE a[i - Len(before)]
  BY ConcatProperties
<1>3. /\ Len(t) = Len(before) + Len(b)
      /\ \A i \in 1 .. Len(before) + Len(b) : t[i] = IF i <= Len(before) THEN before[i] ELSE b[i - Len(before)]
  BY ConcatProperties
<1> HIDE DEF s, t
<1>4. Len(s) <= Len(t)
  BY <1>1, <1>2, <1>3, SMTT(30) DEF Begins
<1>5. ASSUME NEW i \in 1 .. Len(s) PROVE s[i] = t[i]
  <2>1. i \in 1 .. Len(before) + Len(a) /\ i \in 1 .. Len(before) + Len(b)
    BY <1>1, <1>2 DEF Begins
  <2>2. CASE i <= Len(before)
    BY <1>2, <1>3, <2>1, <2>2
  <2>3. CASE ~(i <= Len(before))
    <3>1. i - Len(before) \in 1 .. Len(a)
      BY <1>1, <2>1, <2>3
    <3> QED BY <1>2, <1>3, <2>1, <2>3, <3>1, Zenon DEF Begins
  <2> QED BY <2>2, <2>3, SMTT(30)
<1>6. Begins(s, t)
  BY <1>4, <1>5 DEF Begins
<1> QED BY <1>2, <1>6 DEF s, t

LEMMA InvStatusesFollowLines ==
    ASSUME IInv
    PROVE  StatusesFollowLines
<1> DEFINE n == Len(received)
           expected == Expected(received)[n]
           told == Told(Sent)
<1>1. received \in Seq(PushedLog) /\ n \in Nat
  BY LenProperties DEF IInv, LogTypes
<1>2. expected \in Seq(Telling)
  <2>1. n \in 0 .. Len(received)
    BY <1>1
  <2> QED BY <1>1, <2>1, ExpectedFacts, Zenon
<1>3. told \in Seq(Telling) /\ Begins(told, expected)
  <2>a. Len(expected) \in Nat
    BY <1>2, LenProperties
  <2>1. CASE monitor.at \in {"new", "failed", "initialize"}
    <3>1. Sent = <<>>
      BY <2>1 DEF IInv, MonitorInv, Reported
    <3>2. told = <<>>
      BY <3>1, EmptySeq, ToldFacts, Zenon
    <3> HIDE DEF expected, told
    <3>3. <<>> \in Seq(Telling) /\ Len(<<>>) = 0
      BY EmptySeq
    <3> QED BY <2>a, <3>2, <3>3, SMTT(30) DEF Begins
  <2>2. CASE monitor.at \in {"receive", "stopping", "done"}
    <3>1. told = expected
      BY <2>2 DEF IInv, MonitorInv, Reported
    <3> HIDE DEF expected, told
    <3> QED BY <1>2, <2>a, <3>1, SMTT(30) DEF Begins
  <2>3. CASE monitor.at \in {"match"} \cup Working
    <3> DEFINE before == Expected(received)[n - 1]
               a == Matches(received)[monitor.rule - 1]
               b == Matches(received)[Len(Rules)]
    <3>1. told = before \o a
      BY <2>3, Zenon DEF IInv, MonitorInv, Reported
    <3>2. monitor.rule - 1 \in 0 .. Len(Rules) /\ Len(Rules) \in 0 .. Len(Rules) /\ received # <<>>
      BY <2>3, RuleFacts DEF IInv, MonitorInv, MonitorTypes, Working
    <3>3. before \in Seq(Telling) /\ expected = before \o b
      BY <1>1, <3>2, ExpectedLast, Zenon
    <3>4. a \in Seq(Telling) /\ b \in Seq(Telling) /\ Begins(a, b)
      BY <1>1, <3>2, MatchesFacts, MatchesGrow, SMTT(30)
    <3> HIDE DEF before, a, b, told, expected
    <3> QED BY <3>1, <3>3, <3>4, BeginsJoined, Zenon
  <2> QED BY <2>1, <2>2, <2>3, SMTT(30) DEF IInv, MonitorInv, MonitorTypes, MonitorState, Places, Working
<1>4. monitor.at = "receive" => told = expected
  BY DEF IInv, MonitorInv, Reported
<1>5. told = SubSeq(expected, 1, Len(told)) /\ Len(told) <= Len(expected)
  <2> HIDE DEF told, expected
  <2> QED BY <1>2, <1>3, BeginsIsSubSeq, SMTT(30)
<1> QED BY <1>4, <1>5 DEF StatusesFollowLines

\* The counters and the gauges agree with the statuses whenever the loop waits for a line.
LEMMA InvCountsEvents ==
    ASSUME IInv
    PROVE  CountsEvents
<1> SUFFICES ASSUME settings.reporting, monitor.at = "receive"
             PROVE  /\ \A r \in Reasons : counted[r] = Cardinality(EventsFor(Sent, r))
                    /\ \A i \in DOMAIN conditions :
                          conditions[i].status /\ i = ConditionOf([condition |-> conditions[i].type])
                              => gauge[conditions[i].type] = conditions[i].reason
  BY DEF CountsEvents
<1>1. ASSUME NEW r \in Reasons PROVE counted[r] = Cardinality(EventsFor(Sent, r))
  <2>1. Cardinality(EventsFor(Sent, r)) \in Nat
    <3>1. Sent \in Seq(MonitorState) /\ monitor \in MonitorState
      BY SentStep, SMTT(30) DEF IInv, MonitorInv, MonitorTypes, Sent
    <3> QED BY <3>1, EventsAreCounted, SMTT(30) DEF EventsCount
  <2>2. counted[r] = Cardinality(EventsFor(Sent, r)) + 0
    BY DEF IInv, MonitorInv, CountedEvents
  <2> QED BY <2>1, <2>2, SMTT(30)
<1>2. ASSUME NEW i \in DOMAIN conditions, conditions[i].status,
             i = ConditionOf([condition |-> conditions[i].type])
      PROVE  gauge[conditions[i].type] = conditions[i].reason
  <2>1. i \in 1 .. Len(conditions) /\ i # 0
    BY LenProperties DEF IInv, MonitorInv, MonitorTypes
  <2>2. i = First(conditions, conditions[i].type)
    BY <1>2, Zenon DEF First, ConditionOf
  <2>3. Tells(conditions, gauge, 0)
    BY DEF IInv, MonitorInv, GaugesTell
  <2> QED BY <1>2, <2>1, <2>2, <2>3, SMTT(30) DEF Tells
<1> QED BY <1>1, <1>2, SMTT(30)

-----------------------------------------------------------------------------
(* The theorems *)

\* What the monitor and the channels hold is kept by every step.
THEOREM Invariance == Spec => []IInv
<1>1. Init => MonitorInv
  BY InitInv DEF IInv
<1>2. LogTypes /\ LogTypes' /\ MonitorInv /\ [Next]_vars => MonitorInv'
  BY StepInv DEF IInv
<1>3. WatcherHolds /\ Paced => LogTypes
  BY Zenon DEF WatcherHolds, WatcherTypes, LogTypes
<1>4. LogTypes /\ MonitorInv => IInv
  BY DEF IInv
<1> QED BY <1>1, <1>2, <1>3, <1>4, HoldsAlways, PTL DEF Spec

\* For any rules and conditions and any capacity of the status channel, of an exporter that
\* updates conditions: it copies them one by one while generateStatus may be writing, and
\* once every status is exported its copies are the conditions that generateStatus left.
THEOREM SettledExportAlways == Spec => []SettledExport
<1>1. IInv => SettledExport
  BY DEF IInv, MonitorInv, Settled, SettledExport
<1> QED BY <1>1, Invariance, PTL

\* For any rules, with metrics reporting on: the problem counter of a reason is the number of
\* statuses with an event for it, and the gauge of a condition tells its reason, whenever the
\* loop waits for a line.
THEOREM CountsEventsAlways == Spec => []CountsEvents
<1>1. IInv => CountsEvents
  BY InvCountsEvents
<1> QED BY <1>1, Invariance, PTL

\* For any rules, patterns, buffer size and lines: parseLog reports a status for every line
\* and rule that matches the joined lines, in order, none twice and none for lines that have
\* left the buffer, timed by the first line the match covers.
THEOREM StatusesFollowLinesAlways == Spec => []StatusesFollowLines
<1>1. IInv => StatusesFollowLines
  BY InvStatusesFollowLines
<1> QED BY <1>1, Invariance, PTL
=============================================================================
