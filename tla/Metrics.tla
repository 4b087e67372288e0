------------------------------ MODULE Metrics ------------------------------
(***************************************************************************)
(* The metric wrappers of pkg/util/metrics over OpenCensus views.  A       *)
(* metric is created with an aggregation and the names of its tags; Record *)
(* hands a measurement with its labels to the view, which keeps one row    *)
(* per combination of the labels it knows.  Metrics that a collector       *)
(* treats alike are one metric here (the loads of 1, 5 and 15 minutes, for *)
(* instance).                                                              *)
(***************************************************************************)
EXTENDS Integers, Sequences, FiniteSets, Functions

CONSTANT SumModulus     \* bound: sums are kept modulo this number

ASSUME SumModulusAssumption == SumModulus \in Nat \ {0}

VARIABLES tagMap,       \* names of the tag keys created so far
          rows          \* the data of the views: a value for each row

\* f, and g where f says nothing.
Over(f, g) == [x \in DOMAIN f \cup DOMAIN g |-> IF x \in DOMAIN f THEN f[x] ELSE g[x]]

GaugeView(tags) == [aggregation |-> "LastValue", tags |-> tags]
SumView(tags) == [aggregation |-> "Sum", tags |-> tags]

\* The metrics that each constructor creates.
CPUViews ==
    [cpu_load |-> GaugeView({}),
     cpu_usage_time |-> SumView({"state"}),
     system_procs |-> GaugeView({}),
     system_total |-> SumView({}),
     system_cpu_stat |-> SumView({"cpu", "stage"})]
DiskViews ==
    [disk_io_time |-> SumView({"device_name"}),
     disk_weighted_io |-> SumView({"device_name"}),
     disk_avg_queue_len |-> GaugeView({"device_name"}),
     disk_ops |-> SumView({"device_name", "direction"}),
     disk_bytes_used |-> GaugeView({"device_name", "mount_option", "state"}),
     disk_percent_used |-> GaugeView({"device_name"})]
HostViews == [host_uptime |-> GaugeView({"kernel_version"})]
MemoryViews ==
    [memory_bytes_used |-> GaugeView({"state"}),
     memory_percent_used |-> GaugeView({"state"}),
     memory_other |-> GaugeView({"state"})]
OSFeatureViews == [os_feature |-> GaugeView({"feature", "value"})]
NetViews ==
    [net_rx |-> SumView({"interface_name"}),
     net_tx |-> SumView({"interface_name"})]
ProblemViews ==
    [problem_counter |-> SumView({"reason"}),
     problem_gauge |-> GaugeView({"type", "reason"})]

View == Over(CPUViews, Over(DiskViews, Over(HostViews, Over(MemoryViews,
            Over(OSFeatureViews, Over(NetViews, ProblemViews))))))

MetricIDs == DOMAIN View

\* The row a measurement with these labels is kept in.
Row(id, labels) == <<id, Restrict(labels, View[id].tags \cap DOMAIN labels)>>

\* The data of the views after Record of a set of measurements, pairs of labels
\* and a value, that go to different rows.  A measurement that refers to a tag
\* nobody created is refused.
RecordAll(data, id, measurements) ==
    LET accepted == {m \in measurements : DOMAIN m[1] \subseteq tagMap}
        value == [r \in {Row(id, m[1]) : m \in accepted} |->
                     (CHOOSE m \in accepted : Row(id, m[1]) = r)[2]]
        sum == [r \in DOMAIN value |->
                   ((IF r \in DOMAIN data THEN data[r] ELSE 0) + value[r]) % SumModulus]
    IN  Over(IF View[id].aggregation = "Sum" THEN sum ELSE value, data)

Record(data, id, labels, value) == RecordAll(data, id, {<<labels, value>>})

\* NewInt64Metric, NewFloat64Metric: creating metrics creates their tags.
NewMetrics(ids) == tagMap' = tagMap \cup UNION {View[id].tags : id \in ids}
=============================================================================
