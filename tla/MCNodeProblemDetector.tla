----------------------- MODULE MCNodeProblemDetector -----------------------
(* Small instances of NodeProblemDetector. *)
EXTENDS NodeProblemDetector

MCDaemonTypes == {LogType, PluginType, StatsType}
MCWatchers == {"kmsg", "filelog"}

StatsFile == [parses |-> MCDaemonTypes, plugin |-> "", rulesCompile |-> TRUE, lookback |-> {},
              delay |-> {}, timeout |-> {}, interval |-> {}, concurrency |-> {}, rules |-> <<>>,
              conditions |-> {}, statsInterval |-> {}, lsblkTimeout |-> {}, procPathExists |-> TRUE]
LogFile == [StatsFile EXCEPT !.plugin = "filelog"]
Rule == [timeout |-> {}, interval |-> {}, exists |-> TRUE, perm |-> FALSE, condition |-> "C"]
PluginFile == [StatsFile EXCEPT !.plugin = "custom", !.rules = <<Rule>>, !.conditions = {"C"}]
MCFiles ==
    [log |-> LogFile,
     badrules |-> [LogFile EXCEPT !.rulesCompile = FALSE],
     baddelay |-> [LogFile EXCEPT !.delay = {Unparsable}],
     plugin |-> [PluginFile EXCEPT !.rules = <<[Rule EXCEPT !.perm = TRUE, !.timeout = {3}]>>],
     slow |-> [PluginFile EXCEPT !.rules = <<[Rule EXCEPT !.timeout = {6}]>>],
     never |-> [PluginFile EXCEPT !.rules = <<Rule, [Rule EXCEPT !.interval = {0}]>>],
     uncondition |-> [PluginFile EXCEPT !.rules = <<[Rule EXCEPT !.perm = TRUE, !.condition = "D"]>>],
     stats |-> StatsFile,
     badlsblk |-> [StatsFile EXCEPT !.statsInterval = {5}, !.lsblkTimeout = {6}],
     nojson |-> [StatsFile EXCEPT !.parses = {}]]

Kubeconfig == [loads |-> TRUE, usable |-> TRUE, host |-> "kubeconfig", insecure |-> FALSE, ca |-> TRUE]
URI == [parses |-> TRUE, server |-> "", insecure |-> {}, inCluster |-> {}, auth |-> {},
        useServiceAccount |-> {}, inPod |-> TRUE]
NoDeprecated == [t \in {LogType, PluginType} |-> <<>>]
Paths(log, plugin, stats) ==
    [t \in MCDaemonTypes |-> IF t = LogType THEN log ELSE IF t = PluginType THEN plugin ELSE stats]

Unix ==
    [platform |-> "unix", printVersion |-> FALSE, hostnameOverride |-> "", nodeNameEnv |-> "",
     hostname |-> {"host"}, paths |-> Paths(<<"log">>, <<>>, <<>>), deprecated |-> NoDeprecated,
     enableK8s |-> TRUE, uri |-> URI, serverPort |-> 1, prometheusPort |-> 1,
     waitTimeout |-> 2, stackdriver |-> {}]
Plain == [Unix EXCEPT !.enableK8s = FALSE]
Metadata(known) ==
    [f \in ToSet(MetadataFields) |-> IF f \in known THEN "file" ELSE ""]
Stackdriver == [parses |-> TRUE, period |-> {}, timeout |-> {}, interval |-> {}, panics |-> TRUE,
                metadata |-> Metadata({"zone"})]
Bound(file) == [file EXCEPT !.timeout = {2}, !.interval = {1}]

WindowsService == [Plain EXCEPT !.platform = "windows", !.paths = Paths(<<"log">>, <<>>, <<"stats">>)]
URIs == {u \in [parses : {TRUE}, server : {"", "s"}, insecure : {{}, {1}, {Unparsable}},
                inCluster : {{}, {0}}, useServiceAccount : {{}},
                auth : {{}, {Kubeconfig}, {[Kubeconfig EXCEPT !.loads = FALSE]},
                        {[Kubeconfig EXCEPT !.usable = FALSE]}, {[Kubeconfig EXCEPT !.host = ""]}},
                inPod : BOOLEAN] : TRUE}
MCCommands ==
    {Unix, WindowsService, [WindowsService EXCEPT !.paths = Paths(<<"log">>, <<>>, <<>>)],
     [Unix EXCEPT !.printVersion = TRUE], [Unix EXCEPT !.uri.parses = FALSE],
     [WindowsService EXCEPT !.printVersion = TRUE],
     [Unix EXCEPT !.hostname = {}], [Unix EXCEPT !.hostname = {}, !.nodeNameEnv = "n"],
     [Plain EXCEPT !.prometheusPort = 0], [Plain EXCEPT !.paths = Paths(<<>>, <<>>, <<>>)],
     [Plain EXCEPT !.deprecated[LogType] = <<"log">>],
     [Plain EXCEPT !.deprecated[PluginType] = <<"plugin">>]}
    \cup {[Plain EXCEPT !.paths = Paths(l, c, s)] :
             l \in {<<"log", "log">>, <<"badrules">>, <<"baddelay">>, <<>>},
             c \in {<<"plugin">>, <<"slow">>, <<"never">>, <<"uncondition">>},
             s \in {<<"stats">>, <<"plugin">>, <<"badlsblk">>, <<"nojson">>}}
    \cup {[Unix EXCEPT !.uri = u, !.serverPort = 0, !.prometheusPort = 0] : u \in URIs}
    \cup {[Plain EXCEPT !.prometheusPort = 0, !.stackdriver = {file}] :
             file \in {Bound(Stackdriver), [Bound(Stackdriver) EXCEPT !.panics = FALSE],
                       [Stackdriver EXCEPT !.interval = {0}],
                       [Bound(Stackdriver) EXCEPT !.interval = {3}],
                       [Stackdriver EXCEPT !.timeout = {Unparsable}],
                       [Stackdriver EXCEPT !.parses = FALSE],
                       [Stackdriver EXCEPT !.period = {Unparsable},
                                           !.metadata = Metadata(ToSet(MetadataFields))]}}
=============================================================================
