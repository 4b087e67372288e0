--------------------------- MODULE MCNodeMetrics ---------------------------
(* Small instances of NodeMetrics: configurations that use one collector each. *)
EXTENDS NodeMetrics

T(k, v) == [key |-> k, value |-> v]
Q == T("quote", 0)
SP == T("space", 0)

Base == [metrics |-> {}, named |-> {}, invokeInterval |-> {}, lsblkTimeout |-> {},
         procPath |-> TRUE, root |-> TRUE, attached |-> TRUE, mounts |-> {<<>>},
         absent |-> {}, reporting |-> {}, cmdline |-> <<>>, knownModules |-> TRUE]
With(ids) == [Base EXCEPT !.metrics = ids, !.named = ids]

\* A quoted argument that mentions csm.enabled, and an unpaired quote.
Quoted == <<T("csm.enabled", 0), SP, T("dyndbg", 0), Q, T("file", 0), SP,
            T("csm.enabled", 1), Q, SP, T("loadpin.enabled", 1)>>
Unpaired == <<T("csm.enabled", 1), SP, T("dyndbg", 0), Q, SP, T("csm.enabled", 0)>>

ConfigList ==
    <<With({"cpu_usage_time", "cpu_load"}),
      With({"system_procs", "system_total"}), With({"system_cpu_stat"}),
      [With({"disk_weighted_io", "disk_avg_queue_len"}) EXCEPT !.mounts = {<<>>, <<<<"sdb", "rw">>>>}],
      [With(IOMetrics) EXCEPT !.root = FALSE, !.attached = FALSE, !.named = {"disk_io_time"}],
      [With({"disk_ops"}) EXCEPT !.attached = FALSE],
      [With({"disk_io_time"}) EXCEPT !.root = FALSE],
      [With({"disk_bytes_used", "disk_percent_used"})
         EXCEPT !.mounts = {<<<<"sdb", "rw">>, <<"sda", "rw">>, <<"sda", "ro">>>>,
                            <<<<"sda", "ro">>>>}],
      With({"memory_bytes_used", "memory_percent_used"}),
      [With(MetricsOf.memory) EXCEPT !.absent = {"slab"}],
      [With(MetricsOf.host \cup MetricsOf.osFeature) EXCEPT !.cmdline = Quoted],
      [With(MetricsOf.osFeature) EXCEPT !.cmdline = Unpaired, !.knownModules = FALSE],
      [With(MetricsOf.osFeature) EXCEPT !.named = {}],
      With(MetricsOf.net), [With(MetricsOf.net) EXCEPT !.named = {"net_rx"}], With({"net_rx"}),
      [Base EXCEPT !.invokeInterval = {0}],
      [Base EXCEPT !.invokeInterval = {2}, !.lsblkTimeout = {3}],
      [Base EXCEPT !.procPath = FALSE],
      [Base EXCEPT !.reporting = Callers]>>

MCConfigs == Range(ConfigList)

MCModules == <<[name |-> "ext4", tainted |-> FALSE, nvidia |-> FALSE],
               [name |-> "nvidia", tainted |-> TRUE, nvidia |-> TRUE],
               [name |-> "vendor", tainted |-> TRUE, nvidia |-> FALSE]>>
=============================================================================
