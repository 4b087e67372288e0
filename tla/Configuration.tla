---------------------------- MODULE Configuration ----------------------------
(***************************************************************************)
(* Options and configuration files: cmd/options, the registry of problem   *)
(* daemons, the configuration of the custom plugin, log and Stackdriver    *)
(* parts, and the Kubernetes client's configuration.  An optional value is *)
(* a set of at most one member.                                            *)
(***************************************************************************)
EXTENDS Integers, Sequences, FiniteSets, FiniteSetsExt, SequencesExt

CONSTANTS DaemonTypes,      \* the problem daemons compiled in
          Watchers,         \* the log watchers compiled in
          Files             \* what the configuration files say, by path

Unparsable == -99           \* a duration or Boolean that does not parse
Value(optional, default) == IF optional = {} THEN default ELSE CHOOSE v \in optional : TRUE
Parses(optional) == Unparsable \notin optional
LogType == "system-log-monitor"
PluginType == "custom-plugin-monitor"
StatsType == "system-stats-monitor"

-----------------------------------------------------------------------------
(* cmd/options *)

\* The name the node is known by; none when the hostname cannot be read.
NodeName(cmd) ==
    IF cmd.hostnameOverride # "" THEN {cmd.hostnameOverride}
    ELSE IF cmd.nodeNameEnv # "" THEN {cmd.nodeNameEnv} ELSE cmd.hostname

\* A deprecated flag needs its daemon and excludes the flag that replaces it.
DeprecatedConflict(cmd, t) ==
    cmd.deprecated[t] # <<>> /\ (t \notin DaemonTypes \/ cmd.paths[t] # <<>>)

SetConfigFromDeprecatedOptions(cmd) ==
    [cmd EXCEPT !.paths = [t \in DaemonTypes |->
                              cmd.paths[t] \o (IF t \in {LogType, PluginType} THEN cmd.deprecated[t]
                                               ELSE <<>>)],
                !.deprecated = [t \in {LogType, PluginType} |-> <<>>]]

Valid(cmd) ==
    /\ cmd.enableK8s => cmd.uri.parses
    /\ \A t \in {LogType, PluginType} : cmd.deprecated[t] = <<>>
    /\ \E t \in DaemonTypes : cmd.paths[t] # <<>>

-----------------------------------------------------------------------------
(* The daemons' configuration *)

\* GetStartTime: the later of boot plus delay and now less lookback; {} for an error.
GetStartTime(now, uptime, lookback, delay) ==
    IF ~Parses(lookback) \/ ~Parses(delay) THEN {}
    ELSE {Max({now - uptime + Value(delay, 0), now - Value(lookback, 0)})}

\* A log monitor is created: the rules of its file compile, its watcher exists and can
\* tell where to start.
LogMonitorStarts(file) ==
    /\ file.rulesCompile /\ file.plugin \in Watchers
    /\ GetStartTime(0, 0, file.lookback, file.delay) # {}

\* ApplyConfiguration of a custom plugin configuration: the defaults.
ApplyPluginConfiguration(file) ==
    [file EXCEPT !.timeout = {Value(file.timeout, 5)}, !.interval = {Value(file.interval, 30)},
                 !.concurrency = {Value(file.concurrency, 3)}]
PluginConfigurationParses(file) ==
    /\ Parses(file.timeout) /\ Parses(file.interval)
    /\ \A i \in DOMAIN file.rules : Parses(file.rules[i].timeout) /\ Parses(file.rules[i].interval)

\* Validate of a custom plugin configuration
ValidatePlugin(config) ==
    /\ config.plugin = "custom"
    /\ Value(config.interval, 0) > 0
    /\ \A i \in DOMAIN config.rules :
          LET rule == config.rules[i]
          IN  /\ \A n \in rule.interval : n > 0
              /\ \A t \in rule.timeout : t <= Value(config.timeout, 0)
              /\ rule.exists
              /\ rule.perm => rule.condition \in config.conditions

PluginMonitorStarts(file) ==
    PluginConfigurationParses(file) /\ ValidatePlugin(ApplyPluginConfiguration(file))

\* A system stats monitor has a default for everything: it takes the file of another
\* daemon, too, and collects nothing.
StatsMonitorStarts(file) ==
    /\ Parses(file.statsInterval) /\ Parses(file.lsblkTimeout) /\ file.procPathExists
    /\ 0 < Value(file.lsblkTimeout, 5)
    /\ Value(file.lsblkTimeout, 5) <= Value(file.statsInterval, 60)

\* CreateProblemDaemonOrDie: whether it lives.  Nothing in a file says which daemon it is for;
\* it can be unmarshalled into the configurations of the types in "parses".
Created(t, path) ==
    LET file == Files[path]
    IN  /\ t \in file.parses
        /\ t = LogType => LogMonitorStarts(file)
        /\ t = PluginType => PluginMonitorStarts(file)
        /\ t = StatsType => StatsMonitorStarts(file)

\* The uses of configuration files, the types in the map's order.
Uses(cmd, order) ==
    FlattenSeq([i \in DOMAIN order |-> [k \in DOMAIN cmd.paths[order[i]] |->
                                          [type |-> order[i], path |-> cmd.paths[order[i]][k]]]])

\* Mutant of NewProblemDaemons: a path is only a duplicate under its own type.
NewProblemDaemonsByType(cmd, order) == ToSet(Uses(cmd, order))

\* NewProblemDaemons: the first use of a path wins.
NewProblemDaemons(cmd, order) ==
    LET uses == Uses(cmd, order)
    IN  {uses[i] : i \in {j \in DOMAIN uses : \A k \in 1 .. j - 1 : uses[k].path # uses[j].path}}

-----------------------------------------------------------------------------
(* The Kubernetes client *)

\* getKubeClientConfig: {} for an error.  A kubeconfig file that loads and is usable is taken
\* as it is, without the overrides.
KubeClientConfig(uri) ==
    IF ~Parses(uri.insecure) \/ ~Parses(uri.inCluster) \/ ~Parses(uri.useServiceAccount) THEN {}
    ELSE IF Value(uri.inCluster, 1) = 1
         THEN IF ~uri.inPod THEN {}
              ELSE {[host |-> IF uri.server # "" THEN uri.server ELSE "cluster",
                     insecure |-> Value(uri.insecure, 0) = 1, ca |-> Value(uri.insecure, 0) # 1]}
    ELSE IF uri.auth # {}
         THEN {[host |-> file.host, insecure |-> file.insecure, ca |-> file.ca] :
                  file \in {f \in uri.auth : f.loads /\ f.usable /\ f.host # ""}}
    ELSE IF uri.server = "" THEN {}
    ELSE {[host |-> uri.server, insecure |-> Value(uri.insecure, 0) = 1, ca |-> FALSE]}

-----------------------------------------------------------------------------
(* The Stackdriver exporter *)

MetadataFields == <<"projectID", "zone", "instanceID", "instanceName">>
Missing(metadata) == {f \in DOMAIN metadata : metadata[f] = ""}

ApplyStackdriverConfiguration(config) ==
    [config EXCEPT !.period = {Value(config.period, 60)}, !.timeout = {Value(config.timeout, 600)},
                   !.interval = {Value(config.interval, 10)}]

\* The attempts at the metadata server; 0 means without end.
Attempts(config) == Value(config.timeout, 0) \div Value(config.interval, 0)

\* Mutant of Populated: fields that are known are asked for again.
PopulatedAll(metadata, answered) ==
    [f \in DOMAIN metadata |-> IF f \in ToSet(SubSeq(MetadataFields, 1, answered))
                               THEN "gce" ELSE metadata[f]]

\* PopulateFromGCE: the server answers for some of the fields, in order, before it fails.
Populated(metadata, answered) ==
    [f \in DOMAIN metadata |-> IF f \in ToSet(SubSeq(MetadataFields, 1, answered)) \cap Missing(metadata)
                               THEN "gce" ELSE metadata[f]]
=============================================================================
