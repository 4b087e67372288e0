------------------------- MODULE SystemStatsMonitor -------------------------
(***************************************************************************)
(* The system stats monitor (pkg/systemstatsmonitor): one goroutine that   *)
(* runs its collectors in turn, once at the start and then at every tick,  *)
(* until it is stopped.  A collector reads the kernel's figures and        *)
(* records them; the figures are the inputs of its action, and a set that  *)
(* is empty when the read failed.  A read nobody records is not enumerated.*)
(***************************************************************************)
EXTENDS Metrics, FiniteSetsExt

CONSTANTS
    Configs,        \* configuration files: see ConfigType
    Devices,        \* block devices; the kernel's name is the label
    Roots,          \* those lsblk -d lists
    CPUStates,      \* states of /proc/stat's cpu lines
    Interfaces, Excluded,   \* network interfaces; those the regexp matches
    Modules,        \* the lines /proc/modules may have, in order: [name, tainted, nvidia]
    KnownModules,   \* names in known-modules.json
    MaxCounter,     \* bound: the kernel's counters
    MaxGauge,       \* bound: the kernel's gauges
    HalfWord,       \* 2^(w - 1) for unsigned integers of w bits
    MaxAge          \* bound: ticks between two samples that are told apart

ASSUME StatsAssumption ==
    /\ Roots \subseteq Devices /\ Excluded \subseteq Interfaces
    /\ MaxCounter \in Nat /\ HalfWord \in Nat /\ MaxCounter < HalfWord
    /\ MaxAge \in Nat \ {0}

VARIABLES
    config,         \* the configuration the monitor was given
    monitor,        \* where its goroutine is
    queue,          \* collectors still to run in this round
    stop,           \* the tomb's stop channel is closed
    lastUsageTime,  \* cpu collector
    lastIO,         \* disk collector: lastIOTime, lastWeightedIO, lastOps by device
    sampleAge,      \* ticks since dc.lastSampleTime
    withinQuotes,   \* package variable of cmdline_args.go
    counters,       \* history: the kernel's counter behind each row, as last read
    ownAge,         \* history: ticks since each device was last measured
    lastSample,     \* history: the devices of the last sample
    mountOptions,   \* history: the options each disk was recorded with
    memTotal        \* history: MemTotal as last read

collectorVars == <<lastUsageTime, lastIO, sampleAge, withinQuotes>>
history == <<counters, ownAge, lastSample, mountOptions, memTotal>>
statsVars == <<config, monitor, queue, stop, collectorVars, history>>

Counters == 0 .. MaxCounter
Gauges == 0 .. MaxGauge
Empty == [x \in {} |-> 0]

\* The result of a read: {} when it failed.
Maybe(S) == {{}} \cup {{x} : x \in S}

\* unsigned subtraction, and Go's conversion to a signed integer
Minus(a, b) == (a - b) % (2 * HalfWord)
Signed(x) == IF x >= HalfWord THEN x - 2 * HalfWord ELSE x

-----------------------------------------------------------------------------
(* Configuration *)

Collectors == <<"cpu", "disk", "host", "memory", "osFeature", "net">>

MetricsOf ==
    [cpu |-> DOMAIN CPUViews, disk |-> DOMAIN DiskViews, host |-> DOMAIN HostViews,
     memory |-> DOMAIN MemoryViews, osFeature |-> DOMAIN OSFeatureViews,
     net |-> DOMAIN NetViews]

\* metrics: those with an entry in the file; named: those with a display name.
\* An interval is {} when the file leaves it out and 0 when it does not parse,
\* which is refused like 0.  absent: fields that this kernel's /proc/meminfo lacks;
\* mounts: the partitions, with their mount options, that a round may find.
ConfigType(c) ==
    /\ c.metrics \subseteq MetricIDs /\ c.named \subseteq c.metrics
    /\ {c.root, c.attached, c.procPath, c.knownModules} \subseteq BOOLEAN
    /\ c.mounts \subseteq Seq(Devices \X {"rw", "ro"})
ASSUME ConfigsAssumption == \A c \in Configs : ConfigType(c)

\* ApplyConfiguration, with the default of an interval the file leaves out.
Interval(given, default) == IF given = {} THEN default ELSE Max(given)
Invoke(c) == Interval(c.invokeInterval, 12)
Lsblk(c) == Interval(c.lsblkTimeout, 1)

Validate(c) ==
    /\ Invoke(c) > 0
    /\ c.procPath
    /\ Lsblk(c) > 0 /\ Lsblk(c) <= Invoke(c)

Configured(c) == SelectSeq(Collectors, LAMBDA n : MetricsOf[n] \cap c.metrics # {})
Shown(id) == id \in config.named

\* The outcomes of a read that serves these metrics.
Readings(ids, S) == IF ids \cap config.named = {} THEN {{}} ELSE Maybe(S)

RecordIf(data, id, measurements) ==
    IF Shown(id) THEN RecordAll(data, id, measurements) ELSE data

\* What the kernel counted, for the rows that are to tell it.
Noted(known, id, values) ==
    IF Shown(id)
    THEN Over([r \in {Row(id, v[1]) : v \in values} |->
                  (CHOOSE v \in values : Row(id, v[1]) = r)[2]], known)
    ELSE known

\* It is the turn of a collector; the next one follows.
Turn(c) ==
    /\ monitor = "collecting" /\ queue # <<>> /\ Head(queue) = c
    /\ queue' = Tail(queue)
    /\ UNCHANGED <<config, stop, tagMap>>

-----------------------------------------------------------------------------
(* The CPU collector *)

recordLoad(data, load) == RecordIf(data, "cpu_load", {<<Empty, l>> : l \in load})

UsageTimes(usage) == UNION {{<<[state |-> s], u[s]>> : s \in CPUStates} : u \in usage}

\* Mutant of recordUsage: the counter is recorded instead of its increase.
RecordUsageTimes(data, usage) == RecordIf(data, "cpu_usage_time", UsageTimes(usage))

recordUsage(data, usage) ==
    RecordIf(data, "cpu_usage_time",
             {<<t[1], t[2] - lastUsageTime[t[1].state]>> : t \in UsageTimes(usage)})

CPUTimes(stat) ==
    UNION {{<<[cpu |-> "cpu0", stage |-> c], s.cpu[c]>> : c \in CPUStates} : s \in stat}

\* The totals since boot are recorded as they are, into metrics that add up.
recordSystemStats(data, stat) ==
    LET total == RecordIf(data, "system_total", {<<Empty, s.total>> : s \in stat})
        procs == RecordIf(total, "system_procs", {<<Empty, s.procs>> : s \in stat})
    IN  RecordIf(procs, "system_cpu_stat", CPUTimes(stat))

CollectCPU ==
    /\ Turn("cpu")
    /\ \E load \in Readings({"cpu_load"}, Gauges),
          usage \in Readings({"cpu_usage_time"}, [CPUStates -> Counters]),
          stat \in Readings({"system_procs", "system_total", "system_cpu_stat"},
                            [procs : Gauges, total : Counters, cpu : [CPUStates -> Counters]]) :
        /\ rows' = recordSystemStats(recordUsage(recordLoad(rows, load), usage), stat)
        /\ lastUsageTime' = IF usage = {} THEN lastUsageTime ELSE CHOOSE u \in usage : TRUE
        /\ counters' =
             Noted(Noted(Noted(counters, "cpu_usage_time", UsageTimes(usage)),
                         "system_total", {<<Empty, s.total>> : s \in stat}),
                   "system_cpu_stat", CPUTimes(stat))
    /\ UNCHANGED <<monitor, lastIO, sampleAge, withinQuotes, ownAge, lastSample, mountOptions,
                   memTotal>>

-----------------------------------------------------------------------------
(* The disk collector *)

IOMetrics == {"disk_io_time", "disk_weighted_io", "disk_avg_queue_len", "disk_ops"}

\* One device's line of /proc/diskstats: time, weighted time and operations,
\* which stand for the eight counters of operations by direction.
IOStat ==
    LET Values(ids) == IF ids \cap config.named = {} THEN {0} ELSE Counters
    IN  [time : Values({"disk_io_time"}), ops : Values({"disk_ops"}),
         weighted : Values({"disk_weighted_io", "disk_avg_queue_len"})]
NoIO == [time |-> 0, weighted |-> 0, ops |-> 0]
LastIO(d) == IF d \in DOMAIN lastIO THEN lastIO[d] ELSE NoIO

\* listRootBlockDevices returns one empty name when lsblk fails, and IOCounters
\* without a name returns every device.
ListedDevices(partitions, lsblkOK) ==
    LET attached == {p[1] : p \in Range(partitions)}
    IN  IF config.root \/ (config.attached /\ attached # {})
        THEN (IF config.root /\ lsblkOK THEN Roots ELSE {})
             \cup (IF config.attached THEN attached ELSE {})
        ELSE Devices

Increases(io, field) ==
    {<<[device_name |-> d], Signed(Minus(io[d][field], LastIO(d)[field]))>> : d \in DOMAIN io}
Read(measurements) == {<<Over([direction |-> "read"], m[1]), m[2]>> : m \in measurements}

\* The average queue length as numerator and denominator: what was added to the
\* weighted time, and the ticks since the last sample.
QueueLength(d, io) ==
    IF LastIO(d).weighted = io[d].weighted
    THEN <<0, 1>>
    ELSE <<Minus(io[d].weighted, LastIO(d).weighted), sampleAge>>

recordIOCounters(data, io) ==
    LET time == RecordIf(data, "disk_io_time", Increases(io, "time"))
        weighted == RecordIf(time, "disk_weighted_io", Increases(io, "weighted"))
        queued == RecordIf(weighted, "disk_avg_queue_len",
                           {<<[device_name |-> d], QueueLength(d, io)>>
                                : d \in DOMAIN io \cap DOMAIN lastIO})
    IN  RecordIf(queued, "disk_ops", Read(Increases(io, "ops")))

\* The first partition of each device.
FirstPartitions(partitions) ==
    {i \in DOMAIN partitions : \A j \in 1 .. i - 1 : partitions[j][1] # partitions[i][1]}

RecordSpace(data, partitions, usage) ==
    LET firsts == FirstPartitions(partitions)
        Label(i, s) == [device_name |-> partitions[i][1],
                        mount_option |-> partitions[i][2], state |-> s]
        Used(i) == {<<Label(i, "used"), u>> : u \in usage[i]}
        Free(i) == {<<Label(i, "free"), MaxGauge - u>> : u \in usage[i]}
        bytes == RecordIf(data, "disk_bytes_used", UNION {Used(i) \cup Free(i) : i \in firsts})
    IN  IF Shown("disk_bytes_used")
        THEN RecordIf(bytes, "disk_percent_used", UNION {Used(i) : i \in firsts})
        ELSE data

\* The options of the first partition of each disk, in this and in earlier rounds.
OptionsUsed(known, partitions) ==
    LET Of(d) == {i \in DOMAIN partitions : partitions[i][1] = d}
    IN  [d \in Devices |-> IF Of(d) = {} THEN known[d] ELSE known[d] \cup {partitions[Min(Of(d))][2]}]

\* lastSampleTime is set when the collect returns, unless it failed.
\* Mutant: also when it failed.
SampledAnyway(failed) == sampleAge' = 0
SampledAt(failed) == sampleAge' = IF failed THEN sampleAge ELSE 0

\* A listed device may be gone.
IOReadings(listed) == UNION {[present -> IOStat] : present \in SUBSET listed}

CollectDisk ==
    /\ Turn("disk")
    /\ \/ \* Partitions or IOCounters fails
          /\ SampledAt(TRUE)
          /\ UNCHANGED <<rows, lastIO, counters, ownAge, lastSample, mountOptions>>
       \/ \E lsblkOK \in BOOLEAN, partitions \in config.mounts :
             \E io \in IOReadings(ListedDevices(partitions, lsblkOK)),
                usage \in [DOMAIN partitions -> Readings({"disk_bytes_used"}, Gauges)] :
                /\ rows' = RecordSpace(recordIOCounters(rows, io), partitions, usage)
                /\ lastIO' = Over(io, lastIO)
                /\ SampledAt(FALSE)
                /\ LET Read1(field) == {<<[device_name |-> d], io[d][field]>> : d \in DOMAIN io}
                   IN  counters' = Noted(Noted(Noted(counters, "disk_io_time", Read1("time")),
                                               "disk_weighted_io", Read1("weighted")),
                                         "disk_ops", Read(Read1("ops")))
                /\ ownAge' = Over([d \in DOMAIN io |-> 0], ownAge)
                /\ lastSample' = DOMAIN io
                /\ mountOptions' = OptionsUsed(mountOptions, partitions)
    /\ UNCHANGED <<monitor, lastUsageTime, withinQuotes, memTotal>>

-----------------------------------------------------------------------------
(* The host collector *)

CollectHost ==
    /\ Turn("host")
    /\ \E uptime \in Readings({"host_uptime"}, Gauges) :
          rows' = RecordIf(rows, "host_uptime", {<<[kernel_version |-> "v"], u>> : u \in uptime})
    /\ UNCHANGED <<monitor, collectorVars, history>>

-----------------------------------------------------------------------------
(* The memory collector *)

MemoryStates == {"free", "buffered", "cached", "slab"}
Meminfo == [{"total", "other"} \cup MemoryStates -> Gauges]
Has(fields) == fields \cap config.absent = {}

UsedMemory(m) ==
    Minus(Minus(Minus(Minus(m["total"], m["free"]), m["buffered"]), m["cached"]), m["slab"])

InState(fields, m) == {<<[state |-> f], 1024 * m[f]>> : f \in {g \in fields : Has({g})}}

recordMemory(data, m) ==
    LET complete == Has({"total"} \cup MemoryStates)
        used == IF complete THEN {<<[state |-> "used"], 1024 * Signed(UsedMemory(m))>>} ELSE {}
        percent == IF complete /\ m["total"] > 0
                   THEN {<<[state |-> "used"], <<UsedMemory(m), m["total"]>> >>} ELSE {}
        bytes == RecordIf(data, "memory_bytes_used", InState(MemoryStates, m) \cup used)
    IN  RecordIf(RecordIf(bytes, "memory_percent_used", percent),
                 "memory_other", InState({"other"}, m))

CollectMemory ==
    /\ Turn("memory")
    /\ \E meminfo \in Readings(MetricsOf.memory, Meminfo) :
          IF meminfo = {}
          THEN UNCHANGED <<rows, memTotal>>
          ELSE LET m == CHOOSE m \in meminfo : TRUE
               IN  rows' = recordMemory(rows, m) /\ memTotal' = m["total"]
    /\ UNCHANGED <<monitor, collectorVars, counters, ownAge, lastSample, mountOptions>>

-----------------------------------------------------------------------------
(* The OS feature collector *)

\* The kernel's command line is a sequence of tokens [key, value]: "quote",
\* "space", and words key=value with the number ParseInt makes of the value.

\* withinQuotes after each token of the line.
QuotesAfter(line, quoted) ==
    LET after[i \in 0 .. Len(line)] ==
            IF i = 0 THEN quoted ELSE after[i - 1] # (line[i].key = "quote")
    IN  after

\* The tokens that splitAfterSpace says to split at.  Mutant: quotes do not matter.
SplitAtSpaces(line, quoted) == {i \in DOMAIN line : line[i].key = "space"}
splitAfterSpace(line, quoted) ==
    LET within == QuotesAfter(line, quoted)
    IN  {i \in DOMAIN line : line[i].key = "space" /\ ~within[i - 1]}

\* The tokens that begin an argument: a field that begins with a quote is none.
CmdlineArgs(line, quoted) ==
    LET splits == splitAfterSpace(line, quoted)
    IN  {i \in DOMAIN line \ splits : line[i].key # "quote" /\ (i = 1 \/ i - 1 \in splits)}

\* The value of an argument that may be given several times, 0 without it.
ValueOf(line, args, key) ==
    LET is == {i \in args : line[i].key = key}
    IN  IF is = {} THEN 0 ELSE line[Max(is)].value

Feature(f, v) == <<[feature |-> f], v>>

recordFeaturesFromCmdline(data, args) ==
    LET Arg(key) == ValueOf(config.cmdline, args, key)
    IN RecordAll(data, "os_feature",
        {Feature("KTD", Arg("csm.enabled")),
         Feature("UnifiedCgroupHierarchy", Arg("systemd.unified_cgroup_hierarchy")),
         Feature("KernelModuleIntegrity",
                 IF /\ Arg("module.sig_enforce") = 1
                    /\ Arg("loadpin.enabled") = 1 THEN 1 ELSE 0)})

\* Modules of module_stats.go: one for each line of /proc/modules, with its taints.
ModulesOf(loaded) == SelectSeq(Modules, LAMBDA m : m \in loaded)

\* knownModules is empty when the file cannot be read.
UnknownModules(modules) ==
    SelectSeq(modules, LAMBDA m : /\ ~m.nvidia /\ m.tainted
                                  /\ ~(config.knownModules /\ m.name \in KnownModules))

recordFeaturesFromModules(data, modules) ==
    LET unknown == UnknownModules(modules)
        names == [i \in DOMAIN unknown |-> unknown[i].name]
    IN  RecordAll(data, "os_feature",
            {IF unknown = <<>> THEN Feature("UnknownModules", 0)
             ELSE <<[feature |-> "UnknownModules", value |-> names], 1>>,
             Feature("GPUSupport", IF \E m \in Range(modules) : m.nvidia THEN 1 ELSE 0)})

\* klog.Fatalf, or a panic: the process ends.
Dies == monitor' = "dead"

CollectOSFeature ==
    /\ Turn("osFeature")
    /\ LET line == config.cmdline
           args == CmdlineArgs(line, withinQuotes)
           told == recordFeaturesFromCmdline(rows, args)
       IN  \/ ~Shown("os_feature") /\ UNCHANGED <<rows, withinQuotes, monitor>>
           \/ \* /proc/cmdline cannot be read
              Shown("os_feature") /\ Dies /\ UNCHANGED <<rows, withinQuotes>>
           \/ /\ Shown("os_feature") /\ withinQuotes' = QuotesAfter(line, withinQuotes)[Len(line)]
              /\ \/ rows' = told /\ Dies     \* /proc/modules cannot be read
                 \/ /\ \E loaded \in SUBSET Range(Modules) :
                          rows' = recordFeaturesFromModules(told, ModulesOf(loaded))
                    /\ UNCHANGED monitor
    /\ UNCHANGED <<lastUsageTime, lastIO, sampleAge, history>>

-----------------------------------------------------------------------------
(* The network collector *)

NetStats == [Interfaces -> Counters]
NetMetrics == MetricsOf.net

\* The counters since boot are recorded as they are, into metrics that add up.
\* newInt64Metric wraps the nil of a metric without a name, whose Record panics.
NetRecords(stats) == {<<[interface_name |-> i], stats[i]>> : i \in Interfaces \ Excluded}

CollectNet ==
    /\ Turn("net")
    /\ \/ UNCHANGED <<rows, counters, monitor>>     \* the read fails
       \/ \E rx, tx \in NetStats :
             /\ rows' = RecordIf(RecordIf(rows, "net_rx", NetRecords(rx)), "net_tx", NetRecords(tx))
             /\ counters' = Noted(Noted(counters, "net_rx", NetRecords(rx)),
                                  "net_tx", NetRecords(tx))
             /\ IF NetMetrics \subseteq config.named THEN UNCHANGED monitor ELSE Dies
    /\ UNCHANGED <<collectorVars, ownAge, lastSample, mountOptions, memTotal>>

-----------------------------------------------------------------------------
(* The monitor *)

StatsInit ==
    /\ config \in Configs
    /\ monitor = "new" /\ queue = <<>> /\ stop = FALSE
    /\ lastUsageTime = [s \in CPUStates |-> 0]
    /\ lastIO = Empty /\ sampleAge = 0
    /\ withinQuotes = FALSE
    /\ counters = Empty /\ ownAge = Empty /\ lastSample = {} /\ memTotal = 0
    /\ mountOptions = [d \in Devices |-> {}]

\* NewSystemStatsMonitorOrDie.  The net collector wants an entry for each of its
\* metrics, the host collector the versions of the kernel and of the system.
NewSystemStatsMonitorOrDie ==
    /\ monitor = "new"
    /\ IF /\ Validate(config)
          /\ NetMetrics \cap config.metrics \in {{}, NetMetrics}
       THEN \/ monitor' = "created" /\ NewMetrics(config.named)
            \/ "host_uptime" \in config.metrics /\ Dies /\ UNCHANGED tagMap
       ELSE Dies /\ UNCHANGED tagMap
    /\ UNCHANGED <<rows, config, queue, stop, collectorVars, history>>

\* Start, and the first select of monitorLoop.
StartCollecting ==
    /\ monitor = "created"
    /\ IF stop THEN monitor' = "stopped" /\ UNCHANGED queue
       ELSE monitor' = "collecting" /\ queue' = Configured(config)
    /\ UNCHANGED <<rows, tagMap, config, stop, collectorVars, history>>

RoundDone ==
    /\ monitor = "collecting" /\ queue = <<>>
    /\ monitor' = "waiting"
    /\ UNCHANGED <<rows, tagMap, config, queue, stop, collectorVars, history>>

Older(age) == IF age < MaxAge THEN age + 1 ELSE age

\* The ticker fires: time has passed, and another round begins.
Tick ==
    /\ monitor = "waiting"
    /\ monitor' = "collecting" /\ queue' = Configured(config)
    /\ sampleAge' = Older(sampleAge)
    /\ ownAge' = [d \in DOMAIN ownAge |-> Older(ownAge[d])]
    /\ UNCHANGED <<rows, tagMap, config, stop, lastUsageTime, lastIO, withinQuotes,
                   counters, lastSample, mountOptions, memTotal>>

LoopStopped ==
    /\ monitor = "waiting" /\ stop
    /\ monitor' = "stopped"
    /\ UNCHANGED <<rows, tagMap, config, queue, stop, collectorVars, history>>

Stop ==
    /\ monitor \notin {"new", "dead"} /\ ~stop
    /\ stop' = TRUE
    /\ UNCHANGED <<rows, tagMap, config, monitor, queue, collectorVars, history>>

Collect == CollectCPU \/ CollectDisk \/ CollectHost \/ CollectMemory
           \/ CollectOSFeature \/ CollectNet
Loop == StartCollecting \/ Collect \/ RoundDone \/ LoopStopped
StatsNext == NewSystemStatsMonitorOrDie \/ Loop \/ Tick \/ Stop

-----------------------------------------------------------------------------
(* Properties *)

\* Metrics fed with the increase of a kernel counter: recordUsage and
\* recordIOCounters.
IncreaseMetrics == {"cpu_usage_time", "disk_io_time", "disk_weighted_io", "disk_ops"}

\* The exported sum of the increases that recordUsage and recordIOCounters
\* record is the kernel's counter as last read, however many samples failed or
\* missed the device in between, and after a counter was reset.
IncreasesAddUp ==
    \A r \in DOMAIN counters :
        r[1] \in IncreaseMetrics => rows[r] = counters[r] % SumModulus

\* memory_collector.go: "Summing values of all states yields the total memory on
\* the node", whatever the rounding of the kernel's figures makes of the rest.
MemoryAddsUp ==
    LET states == {r \in DOMAIN rows : r[1] = "memory_bytes_used"}
    IN  Row("memory_bytes_used", [state |-> "used"]) \in states
            => MapThenSumSet(LAMBDA r : rows[r], states) = 1024 * memTotal

\* collect of the disk collector, "to make sure that the rows are not duplicated": a disk
\* has one row for each state, whatever is mounted from it, until it is mounted with other
\* options: a row of the options it had before stays.
RowsOfFirstPartitions ==
    \A r \in DOMAIN rows :
        r[1] = "disk_bytes_used" => r[2].mount_option \in mountOptions[r[2].device_name]

\* recordIOCounters, "average IO queue length since last measurement": the time it
\* divides by, which is kept once for all devices, is the time since this device was
\* measured for every device of the last sample.  For one that has missed samples it is
\* the time since the last sample, too short but never too long, also when reads fail.
AverageInterval ==
    \A d \in DOMAIN lastIO :
        /\ sampleAge <= ownAge[d]
        /\ d \in lastSample => sampleAge = ownAge[d]

\* What the kernel makes of its command line: words outside quotes.
Quotes(line, i) == Cardinality({j \in 1 .. i - 1 : line[j].key = "quote"})
KernelArgs(line) ==
    {i \in DOMAIN line : /\ line[i].key \notin {"quote", "space"}
                         /\ Quotes(line, i) % 2 = 0
                         /\ i > 1 => line[i - 1].key = "space"}
\* The features that osFeatureCollector reports are those of the kernel's command
\* line, although splitAfterSpace keeps its state in a package
\* variable; a line whose quotes do not pair is excepted.
FeaturesTold ==
    LET line == config.cmdline
        ktd == Row("os_feature", [feature |-> "KTD"])
    IN  ktd \in DOMAIN rows /\ Quotes(line, Len(line) + 1) % 2 = 0
            => rows[ktd] = ValueOf(line, KernelArgs(line), "csm.enabled")

\* What the gauges say of the node in any round is so: the states of memory add up to
\* the total although the used memory is computed from figures that wrap and are not
\* read at one moment, a disk that is mounted many times has rows of its first
\* partition only, with the options it has or had, and the features are those the kernel was started with.
GaugesTellNode == MemoryAddsUp /\ RowsOfFirstPartitions /\ FeaturesTold

\* Every metric that adds up tells the kernel's counter, as the descriptions in
\* cpu_collector.go and net_collector.go say: "Number of forks since boot.",
\* "Cumulative count of bytes received."
CountersTold == \A r \in DOMAIN counters : rows[r] = counters[r] % SumModulus
=============================================================================
