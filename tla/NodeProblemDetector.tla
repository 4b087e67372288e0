------------------------- MODULE NodeProblemDetector -------------------------
(***************************************************************************)
(* The process: main and npdMain from the command line to Run, the start   *)
(* of the exporters, and the Windows service around npdMain.  Run is       *)
(* modelled in ProblemDetector; here it starts the monitors, fails when    *)
(* none of them starts, and once it is cancelled returns or is stuck in    *)
(* the stop of a monitor, as ProblemDetector shows that it can be.         *)
(***************************************************************************)
EXTENDS Configuration

CONSTANTS Commands,     \* the command lines considered
          MaxRequests   \* bound: control requests to the Windows service

VARIABLES
    cancelled,  \* ctx is done
    npd,        \* how far npdMain is; "dead": panic or Fatalf, "exited": main returned
    cmd,        \* NodeProblemDetectorOptions
    daemons,    \* [type, path] of the daemons created
    unstarted,  \* the daemons whose Start failed
    exporters,  \* the exporters set up
    waiting,    \* the wait for the API server: [elapsed, ready]
    metadata,   \* GCEMetadata
    attempts,   \* attempts left at the metadata server; -1: without end
    servers,    \* HTTP servers: "off", "starting", "serving"
    service,    \* the Windows service: [loop, app, state, carried, requests]
    given       \* history: the options as given
startup == <<npd, cmd, daemons, unstarted, exporters, waiting, metadata, attempts, servers, given>>
vars == <<cancelled, startup, service>>

Servers == {"npd", "prometheus"}
Windows == given.platform = "windows"
Alive == npd \notin {"dead", "exited"}
Dies == npd' = "dead"

Init ==
    /\ cancelled = FALSE
    /\ npd = "options" /\ cmd \in Commands /\ given = cmd
    /\ daemons = {} /\ unstarted = {} /\ exporters = <<>> /\ waiting = [elapsed |-> 0, ready |-> FALSE]
    /\ metadata = <<>> /\ attempts = 0 /\ servers = [s \in Servers |-> "off"]
    /\ service = [loop |-> IF cmd.platform = "windows" THEN "select" ELSE "off",
                  app |-> "running", state |-> "Running", carried |-> "Running", requests |-> 0]

-----------------------------------------------------------------------------
(* npdMain *)

\* PrintVersion, SetNodeNameOrDie, SetConfigFromDeprecatedOptionsOrDie, ValidOrDie
SetOptions ==
    /\ npd = "options"
    /\ LET new == SetConfigFromDeprecatedOptions(cmd)
       IN  IF cmd.printVersion THEN npd' = "returned" /\ UNCHANGED cmd
           ELSE IF \/ NodeName(cmd) = {}
                   \/ \E t \in {LogType, PluginType} : DeprecatedConflict(cmd, t)
                   \/ ~Valid(new)
                THEN Dies /\ UNCHANGED cmd
                ELSE npd' = "daemons" /\ cmd' = new
    /\ UNCHANGED <<cancelled, daemons, unstarted, exporters, waiting, metadata, attempts, servers, service, given>>

CreateDaemons ==
    /\ npd = "daemons"
    /\ \E order \in SetToSeqs(DaemonTypes) :
          LET new == NewProblemDaemons(cmd, order)
          IN  IF new # {} /\ \A d \in new : Created(d.type, d.path)
              THEN /\ daemons' = new
                   /\ npd' = IF cmd.enableK8s THEN "client" ELSE "prometheus"
              ELSE Dies /\ UNCHANGED daemons
    /\ UNCHANGED <<cancelled, cmd, unstarted, exporters, waiting, metadata, attempts, servers, service, given>>

\* NewClientOrDie; the library refuses an insecure client with a certificate authority.
NewClient ==
    /\ npd = "client"
    /\ IF \E c \in KubeClientConfig(cmd.uri) : ~(c.insecure /\ c.ca) THEN npd' = "waiting" ELSE Dies
    /\ UNCHANGED <<cancelled, cmd, daemons, unstarted, exporters, waiting, metadata, attempts, servers, service, given>>

\* The exporter is made, its HTTP server and its condition manager are started.
K8sExporterStarts ==
    /\ exporters' = Append(exporters, "k8s")
    /\ servers' = [servers EXCEPT !["npd"] = IF cmd.serverPort > 0 THEN "starting" ELSE "off"]
    /\ npd' = "prometheus"

\* The first GetNode answers, one way or the other, and the poll ends with it.  The
\* context of the wait or of the process may end the call.
CheckAPIServer ==
    /\ npd = "waiting"
    /\ \E ready \in BOOLEAN :
          /\ waiting.elapsed = cmd.waitTimeout \/ cancelled => ~ready
          /\ waiting' = [waiting EXCEPT !.ready = ready]
    /\ K8sExporterStarts
    /\ UNCHANGED <<cancelled, cmd, daemons, unstarted, metadata, attempts, service, given>>

\* Mutant of WaitPasses: the call has no deadline.
WaitsOn ==
    /\ npd = "waiting" /\ waiting.elapsed < cmd.waitTimeout
    /\ UNCHANGED vars

\* GetNode is still without an answer.
WaitPasses ==
    /\ npd = "waiting" /\ waiting.elapsed < cmd.waitTimeout
    /\ waiting' = [waiting EXCEPT !.elapsed = @ + 1]
    /\ UNCHANGED <<cancelled, npd, cmd, daemons, unstarted, exporters, metadata, attempts, servers, service, given>>

NewPrometheusExporter ==
    /\ npd = "prometheus"
    /\ IF cmd.prometheusPort > 0
       THEN /\ exporters' = Append(exporters, "prometheus")
            /\ servers' = [servers EXCEPT !["prometheus"] = "starting"]
       ELSE UNCHANGED <<exporters, servers>>
    /\ npd' = "stackdriver"
    /\ UNCHANGED <<cancelled, cmd, daemons, unstarted, waiting, metadata, attempts, service, given>>

\* NewExporters: the only pluggable exporter, up to its metadata.
NewStackdriverExporter ==
    /\ npd = "stackdriver"
    /\ IF cmd.stackdriver = {} THEN npd' = "assembled" /\ UNCHANGED <<metadata, attempts>>
       ELSE \E file \in cmd.stackdriver :
              LET config == ApplyStackdriverConfiguration(file)
              IN  IF ~file.parses THEN Dies /\ UNCHANGED <<metadata, attempts>>
                  ELSE /\ metadata' = file.metadata
                       /\ IF Missing(file.metadata) = {} THEN npd' = "view" /\ UNCHANGED attempts
                          ELSE IF \/ ~Parses(config.timeout) \/ ~Parses(config.interval)
                                  \/ config.interval = {0}
                          THEN Dies /\ UNCHANGED attempts
                          ELSE /\ npd' = "metadata"
                               /\ attempts' = IF Attempts(config) = 0 THEN -1 ELSE Attempts(config)
    /\ UNCHANGED <<cancelled, cmd, daemons, unstarted, exporters, waiting, servers, service, given>>

\* One attempt of retry.Do at PopulateFromGCE.
FetchMetadata ==
    /\ npd = "metadata" /\ attempts # 0
    /\ \E answered \in 0 .. Len(MetadataFields) :
          /\ metadata' = Populated(metadata, answered)
          /\ IF Missing(metadata') = {} THEN npd' = "view" /\ attempts' = 0
             ELSE /\ UNCHANGED npd
                  /\ attempts' = IF attempts = -1 THEN -1 ELSE attempts - 1
    /\ UNCHANGED <<cancelled, cmd, daemons, unstarted, exporters, waiting, servers, service, given>>

FetchFails ==
    /\ npd = "metadata" /\ attempts = 0
    /\ \E file \in cmd.stackdriver : IF file.panics THEN Dies ELSE npd' = "view"
    /\ UNCHANGED <<cancelled, cmd, daemons, unstarted, exporters, waiting, metadata, attempts, servers, service, given>>

\* setupOpenCensusViewExporterOrDie; the library may refuse what it is given.
SetupView ==
    /\ npd = "view"
    /\ \/ Dies /\ UNCHANGED exporters
       \/ /\ \A file \in cmd.stackdriver : Parses(file.period)
          /\ npd' = "assembled" /\ exporters' = Append(exporters, "stackdriver")
    /\ UNCHANGED <<cancelled, cmd, daemons, unstarted, waiting, metadata, attempts, servers, service, given>>

\* The end of npdMain: Run, with what was set up.
BeginRun ==
    /\ npd = "assembled"
    /\ IF exporters = <<>> THEN Dies ELSE npd' = "run"
    /\ UNCHANGED <<cancelled, cmd, daemons, unstarted, exporters, waiting, metadata, attempts, servers, service, given>>

\* Run starts the monitors; that of a log monitor fails when its log cannot be watched.
StartMonitors ==
    /\ npd = "run"
    /\ unstarted' \in SUBSET {d \in daemons : d.type = LogType}
    /\ npd' = IF unstarted' = daemons THEN "failed" ELSE "serving"
    /\ UNCHANGED <<cancelled, cmd, daemons, exporters, waiting, metadata, attempts, servers, service, given>>

\* A cancelled Run stops all monitors and returns.  It is stuck for ever in the stop of one
\* that did not start, and of one that is blocked on a full channel.
RunReturns ==
    /\ npd = "serving" /\ cancelled
    /\ (unstarted = {} /\ npd' = "returned") \/ npd' = "stuck"
    /\ UNCHANGED <<cancelled, cmd, daemons, unstarted, exporters, waiting, metadata, attempts, servers, service, given>>

\* A signal.
Interrupt ==
    /\ Alive /\ ~Windows /\ ~cancelled
    /\ cancelled' = TRUE
    /\ UNCHANGED <<startup, service>>

\* A server listens, or does not get its address and ends the process.
ServerListens(s) ==
    /\ Alive /\ servers[s] = "starting"
    /\ servers' = [servers EXCEPT ![s] = "serving"]
    /\ UNCHANGED <<cancelled, npd, cmd, daemons, unstarted, exporters, waiting, metadata, attempts, service, given>>
ServerFails(s) ==
    /\ Alive /\ servers[s] = "starting"
    /\ Dies
    /\ UNCHANGED <<cancelled, cmd, daemons, unstarted, exporters, waiting, metadata, attempts, servers, service, given>>

\* main returns, or reports Run's error with Fatalf.
MainReturns ==
    /\ npd \in {"returned", "failed"} /\ ~Windows
    /\ npd' = IF npd = "failed" THEN "dead" ELSE "exited"
    /\ UNCHANGED <<cancelled, cmd, daemons, unstarted, exporters, waiting, metadata, attempts, servers, service, given>>

-----------------------------------------------------------------------------
(* The Windows service *)

\* The application goroutine: npdMain has returned, with or without an error.
AppReturns ==
    /\ Windows /\ npd \in {"returned", "failed"} /\ service.app = "running"
    /\ service' = [service EXCEPT !.app = "done", !.state = "StopPending"]
    /\ UNCHANGED <<cancelled, startup>>

\* A request to the control loop.
Control(request) ==
    /\ Windows /\ Alive /\ service.loop = "select" /\ service.requests < MaxRequests
    /\ service' = [service EXCEPT !.requests = @ + 1,
                      !.loop = IF request = "Interrogate" THEN "interrogated" ELSE @,
                      !.carried = IF request = "Interrogate" THEN service.state ELSE @,
                      !.state = IF request = "Pause" THEN "Paused"
                                ELSE IF request = "Continue" THEN "Running" ELSE @]
    /\ cancelled' = (cancelled \/ request \in {"Stop", "Shutdown"})
    /\ UNCHANGED startup

\* The second report of an interrogation, of the status the request carried.
Interrogated ==
    /\ Windows /\ Alive /\ service.loop = "interrogated"
    /\ service' = [service EXCEPT !.loop = "select", !.state = service.carried]
    /\ UNCHANGED <<cancelled, startup>>

ControlEnds ==
    /\ Windows /\ Alive /\ service.loop = "select" /\ cancelled
    /\ service' = [service EXCEPT !.loop = "exited"]
    /\ UNCHANGED <<cancelled, startup>>

\* Mutant of ExecuteReturns: the control loop is not waited for.
ExecuteReturnsEarly ==
    /\ Windows /\ Alive /\ service.app = "done" /\ cancelled
    /\ service' = [service EXCEPT !.app = "returned", !.state = "Stopped"]
    /\ UNCHANGED <<cancelled, startup>>

\* Both goroutines are done; the service is reported as stopped.
ExecuteReturns ==
    /\ Windows /\ Alive /\ service.app = "done" /\ service.loop = "exited"
    /\ service' = [service EXCEPT !.app = "returned", !.state = "Stopped"]
    /\ UNCHANGED <<cancelled, startup>>

Requests == {"Interrogate", "Stop", "Shutdown", "Pause", "Continue", "other"}
StartupStep ==
    \/ SetOptions \/ CreateDaemons \/ NewClient \/ NewPrometheusExporter
    \/ NewStackdriverExporter \/ FetchMetadata \/ FetchFails \/ SetupView \/ BeginRun
    \/ StartMonitors \/ RunReturns \/ MainReturns
ServiceStep == AppReturns \/ Interrogated \/ ControlEnds \/ ExecuteReturns

Next ==
    \/ StartupStep \/ CheckAPIServer \/ WaitPasses \/ Interrupt \/ ServiceStep
    \/ \E s \in Servers : ServerListens(s) \/ ServerFails(s)
    \/ \E request \in Requests : Control(request)

\* The goroutines run and time passes; signals, requests and an answer of the API server
\* before the deadline need not come.  A cancelled Run goes on to stop its monitors, and
\* nothing makes it return rather than be stuck.
Fairness ==
    /\ WF_vars(StartupStep) /\ WF_vars(ServiceStep) /\ WF_vars(WaitPasses)
    /\ WF_vars(CheckAPIServer /\ (cancelled \/ waiting.elapsed = cmd.waitTimeout))
Spec == Init /\ [][Next]_vars /\ Fairness

-----------------------------------------------------------------------------
(* Properties *)

\* npdMain comes to an end of its start-up, whatever the API server, the metadata server and
\* the logs do, unless the metadata are to be fetched zero times, which means for ever.
StartupEnds ==
    (npd = "options") ~> (npd \in {"serving", "returned", "failed", "dead", "exited"} \/ attempts = -1)

\* There is one daemon for every configuration file named by any flag, the deprecated
\* ones included, of a type whose flag names it.
DaemonsAsConfigured ==
    LET Named(t) == ToSet(given.paths[t])
                      \cup (IF t \in {LogType, PluginType} THEN ToSet(given.deprecated[t]) ELSE {})
    IN  /\ {d.path : d \in daemons} = UNION {Named(t) : t \in DaemonTypes}
        /\ Cardinality(daemons) = Cardinality({d.path : d \in daemons})
        /\ \A d \in daemons : d.path \in Named(d.type)

\* Metadata of the file survived the metadata server's, over any number of partly failed
\* attempts, and some are missing only if they may be.
MetadataKept ==
    \A file \in given.stackdriver :
        /\ \A f \in DOMAIN metadata : file.metadata[f] # "" => metadata[f] = file.metadata[f]
        /\ "stackdriver" \in ToSet(exporters) /\ file.panics => Missing(metadata) = {}

\* What NPD goes on to run is what its flags and files say: the daemons, in whatever order
\* NewProblemDaemons meets the flags, and the metadata of the exporter.
RunsAsConfigured == npd = "assembled" => DaemonsAsConfigured /\ MetadataKept

\* A Windows service that is asked to stop reports that it has stopped, and nothing after
\* that, since Execute waits for its control loop; unless the process dies, the metadata are
\* fetched for ever, or Run is stuck in the stop of a monitor that did not start or is
\* blocked on a full channel.
ServiceStops ==
    (Windows /\ cancelled) ~>
        ([](service.state = "Stopped" \/ npd = "dead") \/ npd = "stuck" \/ attempts = -1)

\* The Kubernetes exporter starts without the API server only after the wait has timed
\* out or was cancelled.
WaitsForAPIServer ==
    "k8s" \in ToSet(exporters) /\ ~waiting.ready
        => waiting.elapsed = cmd.waitTimeout \/ cancelled
=============================================================================
