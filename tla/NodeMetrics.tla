---------------------------- MODULE NodeMetrics ----------------------------
(***************************************************************************)
(* Everything of one process that records metrics: the system stats        *)
(* monitor and the problem metrics manager share the tags and the views of *)
(* pkg/util/metrics, which the exporters read at any time.                 *)
(***************************************************************************)
EXTENDS SystemStatsMonitor, ProblemMetrics

ASSUME ReportingAssumption == \A c \in Configs : c.reporting \subseteq Callers

vars == <<rows, tagMap, statsVars, problemVars>>

Init ==
    /\ StatsInit /\ ProblemInit
    /\ tagMap = ProblemTags
    /\ rows = Empty

Next ==
    /\ monitor # "dead"
    /\ \/ StatsNext /\ UNCHANGED problemVars
       \/ ProblemNext(config.reporting) /\ UNCHANGED statsVars

Spec == Init /\ [][Next]_vars
=============================================================================
