---------------------------- MODULE HealthChecker ----------------------------
(***************************************************************************)
(* The health-checker binary (cmd/healthchecker, pkg/healthchecker) and    *)
(* the systemd service it watches.  The binary is a script of the plugin   *)
(* monitor: one invocation checks the component once, may kill its         *)
(* service, and exits.  Time is counted in ages, in ticks of a second.     *)
(***************************************************************************)
EXTENDS Integers, FiniteSets, FiniteSetsExt

CONSTANTS CoolDownTime, MaxAge, MaxEntriesLogged
ASSUME HealthAssumption == /\ CoolDownTime \in Nat /\ MaxAge \in Nat /\ CoolDownTime < MaxAge
                           /\ MaxEntriesLogged \in Nat

VARIABLES
    options,    \* HealthCheckerOptions as given
    checker,    \* where the invocation is
    healthy,    \* what the health check function returned
    logStart,   \* the age of logStartTime
    patterns,   \* the patterns that are still to be looked for
    exitCode,
    service,    \* [state, exited (age of InactiveExitTimestamp), entered (of ActiveEnterTimestamp), answers]
    journal,    \* the service's log: a set of [id, pattern, age, current]
    restarted,  \* history: the service was started since its uptime was read
    witnessed   \* history: occurrences the failing pattern check was right about
healthVars == <<options, checker, healthy, logStart, patterns, exitCode, service, journal,
                restarted, witnessed>>

Components == {"kubelet", "docker", "cri", "kube-proxy"}
Older(a) == Min({a + 1, MaxAge + 1})

SetDefaults(hco) ==
    IF hco.service # "" THEN hco
    ELSE [hco EXCEPT !.service = IF hco.component = "cri" THEN "containerd" ELSE hco.component]

IsValid(hco) ==
    /\ hco.component \in Components
    /\ ~(hco.enableRepair /\ hco.service = "")
    /\ hco.component = "cri" => hco.crictlPath /\ hco.criSocketPath

\* LogPatternFlag.Set: later items of the flag replace earlier ones of the same
\* pattern; a threshold of 0 or an empty pattern is refused.
AcceptsPatterns(items) == \A i \in DOMAIN items : items[i].count # 0 /\ items[i].pattern # ""
LogPatternCounts(items) ==
    [p \in {items[i].pattern : i \in DOMAIN items} |->
        items[Max({i \in DOMAIN items : items[i].pattern = p})].count]

HealthInit ==
    /\ checker = "off" /\ healthy = FALSE /\ logStart = 0 /\ patterns = {} /\ exitCode = 0
    /\ service = [state |-> "active", exited |-> 0, entered |-> 0, answers |-> TRUE]
    /\ journal = {} /\ restarted = FALSE /\ witnessed = 0

\* The verdict is known; the locals of the call are forgotten.
Leave(c) ==
    /\ checker' = "exiting" /\ exitCode' = c
    /\ healthy' = FALSE /\ logStart' = 0 /\ patterns' = {} /\ restarted' = FALSE

-----------------------------------------------------------------------------
(* One invocation *)

\* main, up to CheckHealth
Begin ==
    /\ checker = "off"
    /\ IF AcceptsPatterns(options.logPatterns) /\ IsValid(SetDefaults(options))
       THEN checker' = "checking" /\ UNCHANGED <<exitCode, healthy, logStart, patterns, restarted>>
       ELSE Leave(2)
    /\ UNCHANGED <<options, service, journal, witnessed>>

\* Mutant of Check: a request that is not answered is an error.
CheckStrict ==
    /\ checker = "checking"
    /\ IF service.state = "active" /\ service.answers
       THEN /\ healthy' = TRUE
            /\ checker' = IF options.logPatterns = <<>> THEN "judging" ELSE "dating"
            /\ UNCHANGED <<exitCode, logStart, patterns, restarted>>
       ELSE Leave(2)
    /\ UNCHANGED <<options, service, journal, witnessed>>

\* healthCheckFunc: an endpoint, docker ps or crictl pods.  Only an endpoint that is no
\* URL is an error; a failing command or request means unhealthy.
Check ==
    /\ checker = "checking"
    /\ IF options.component \in {"kubelet", "kube-proxy"} /\ ~options.endpointURL
       THEN Leave(2)
       ELSE /\ healthy' = (service.state = "active" /\ service.answers)
            /\ checker' = IF options.logPatterns = <<>> THEN "judging" ELSE "dating"
            /\ UNCHANGED <<exitCode, logStart, patterns, restarted>>
    /\ UNCHANGED <<options, service, journal, witnessed>>

\* Mutant of Uptime: the time since the service was last active.
UptimeActive == service.entered

\* getUptimeFunc: InactiveExitTimestamp
Uptime == service.exited

\* Mutant of LogStart: the uptime is not looked at.
LogStartLoopBack(up) == IF options.loopBackTime > 0 THEN options.loopBackTime ELSE up

LogStart(up) ==
    IF options.loopBackTime > 0 /\ up > options.loopBackTime THEN options.loopBackTime ELSE up

\* logPatternHealthCheck reads the uptime; systemctl may fail.
DateLogs ==
    /\ checker = "dating"
    /\ \/ /\ checker' = "matching" /\ logStart' = LogStart(Uptime) /\ restarted' = FALSE
          /\ patterns' = DOMAIN LogPatternCounts(options.logPatterns)
          /\ UNCHANGED <<exitCode, healthy>>
       \/ options.commandsFail /\ Leave(2)
    /\ UNCHANGED <<options, service, journal, witnessed>>

Occurrences(p) == Cardinality({e \in journal : e.pattern = p /\ e.age <= logStart})
\* What the check is meant to count: since the service was started, within a second.
Current(p) == Cardinality({e \in journal : e.pattern = p /\ (e.current \/ e.age = logStart)})

\* A turn of the loop over the patterns, in any order of the map: checkForPattern.  The
\* loop ends at the first pattern that occurs too often or cannot be counted.
MatchLogs ==
    /\ checker = "matching"
    /\ \E p \in patterns :
          LET counted == LogPatternCounts(options.logPatterns)[p]
              failing == Occurrences(p) >= counted
              last == failing \/ patterns = {p}
          IN  \/ /\ patterns' = IF last THEN {} ELSE patterns \ {p}
                 /\ checker' = IF last THEN "judging" ELSE "matching"
                 /\ logStart' = IF last THEN 0 ELSE logStart
                 /\ healthy' = (healthy /\ ~failing)
                 /\ witnessed' = IF failing /\ ~restarted THEN Min({Current(p) - counted, 0})
                                 ELSE witnessed
                 /\ UNCHANGED <<exitCode, restarted>>
              \/ options.commandsFail /\ Leave(2) /\ UNCHANGED witnessed
    /\ UNCHANGED <<options, service, journal>>

\* The rest of CheckHealth up to the repair.
Decide ==
    /\ checker = "judging"
    /\ \/ healthy /\ Leave(0)
       \/ ~healthy /\ (~options.enableRepair \/ options.commandsFail) /\ Leave(1)
       \/ ~healthy /\ options.enableRepair /\ Uptime <= CoolDownTime /\ Leave(1)
       \/ /\ ~healthy /\ options.enableRepair /\ Uptime > CoolDownTime
          /\ checker' = "repairing" /\ restarted' = FALSE
          /\ UNCHANGED <<healthy, logStart, patterns, exitCode>>
    /\ UNCHANGED <<options, service, journal, witnessed>>

\* repairFunc: systemctl kill, whose failure is only logged.
Repair ==
    /\ checker = "repairing"
    /\ Leave(1)
    /\ \/ service' = [service EXCEPT !.state = "inactive"]
       \/ options.commandsFail /\ UNCHANGED service
    /\ UNCHANGED <<options, journal, witnessed>>

HealthStep == Begin \/ Check \/ DateLogs \/ MatchLogs \/ Decide \/ Repair

\* The process is gone; a new one starts from nothing.
Forget ==
    /\ checker' = "off" /\ exitCode' = 0
    /\ healthy' = FALSE /\ logStart' = 0 /\ patterns' = {} /\ restarted' = FALSE

-----------------------------------------------------------------------------
(* The service under systemd *)

\* systemd starts the service: it leaves the inactive state.
ServiceStarts ==
    /\ service.state = "inactive"
    /\ service' = [service EXCEPT !.state = "activating", !.exited = 0]
    /\ journal' = {[e EXCEPT !.current = FALSE] : e \in journal}
    /\ restarted' = (checker \in {"matching", "judging", "repairing"})
    /\ UNCHANGED <<options, checker, healthy, logStart, patterns, exitCode, witnessed>>

ServiceReady(answers) ==
    /\ service.state = "activating"
    /\ service' = [service EXCEPT !.state = "active", !.entered = 0, !.answers = answers]
    /\ UNCHANGED <<options, checker, healthy, logStart, patterns, exitCode, journal,
                   restarted, witnessed>>

\* The service hangs, or dies by itself.
ServiceHangs ==
    /\ service.state = "active" /\ service.answers
    /\ service' = [service EXCEPT !.answers = FALSE]
    /\ UNCHANGED <<options, checker, healthy, logStart, patterns, exitCode, journal,
                   restarted, witnessed>>
ServiceDies ==
    /\ service.state # "inactive" /\ options.dies
    /\ service' = [service EXCEPT !.state = "inactive"]
    /\ UNCHANGED <<options, checker, healthy, logStart, patterns, exitCode, journal,
                   restarted, witnessed>>

Logs(p) ==
    /\ service.state # "inactive" /\ Cardinality(journal) < MaxEntriesLogged
    /\ journal' = journal \cup
         {[id |-> CHOOSE i \in 1 .. MaxEntriesLogged : \A e \in journal : e.id # i,
           pattern |-> p, age |-> 0, current |-> TRUE]}
    /\ UNCHANGED <<options, checker, healthy, logStart, patterns, exitCode, service,
                   restarted, witnessed>>

\* A second passes; journald forgets what is older than MaxAge.
Tick ==
    /\ service' = [service EXCEPT !.exited = Older(@), !.entered = Older(@)]
    /\ journal' = {[e EXCEPT !.age = @ + 1] : e \in {f \in journal : f.age < MaxAge}}
    /\ logStart' = IF checker = "matching" THEN Older(logStart) ELSE logStart
    /\ UNCHANGED <<options, checker, healthy, patterns, exitCode, restarted, witnessed>>

ServiceStep ==
    \/ ServiceStarts \/ ServiceHangs \/ ServiceDies \/ Tick
    \/ \E answers \in BOOLEAN : ServiceReady(answers)
    \/ \E p \in DOMAIN LogPatternCounts(options.logPatterns) : Logs(p)
=============================================================================
