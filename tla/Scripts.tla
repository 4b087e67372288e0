------------------------------- MODULE Scripts -------------------------------
(***************************************************************************)
(* Scripts run by the custom plugin monitor: Plugin.run of PluginRun       *)
(* around a process that is the health-checker, the log-counter or a       *)
(* script of any other make.  The deadline may kill the process between    *)
(* any two of its steps; the rule is run again and again.                  *)
(***************************************************************************)
EXTENDS PluginRun, HealthChecker, LogCounter

CONSTANT Plans      \* the scripts considered: [script, deadline, faulty, writes, forks, options]
ASSUME PlansAssumption ==
    \A p \in Plans : \A o \in p.options :
        o.loopBackTime \in Int /\ o.logPatterns \in Seq([pattern : STRING, count : Int])
vars == <<runVars, healthVars, counterVars>>

Init ==
    /\ plan \in Plans
    /\ RunInit
    /\ HealthInit /\ options \in plan.options
    /\ CounterInit
    /\ IF plan.script = "counter"
       THEN /\ fedo \in CounterOptions
            /\ lines \in UNION {[1 .. n -> [message : LogLines, late : BOOLEAN]] : n \in 0 .. MaxLines}
       ELSE fedo = (CHOOSE o \in CounterOptions : TRUE) /\ lines = <<>>

\* The process ends with the code its program decided on.
Exit ==
    \/ /\ plan.script = "plain" /\ \E c \in {OK, NonOK, Unknown} : ExitWith(c)
       /\ UNCHANGED <<healthVars, counterVars>>
    \/ /\ plan.script = "health" /\ checker = "exiting" /\ ExitWith(exitCode)
       /\ UNCHANGED <<healthVars, counterVars>>
    \/ /\ plan.script = "counter" /\ counter = "exiting" /\ ExitWith(exitStatus)
       /\ UNCHANGED <<healthVars, counterVars>>

\* The goroutines of run, the deadline, and the script's writes.
RunNext == RunStep /\ UNCHANGED <<healthVars, counterVars>>

ForkNext ==
    /\ \/ \E escaped, holds \in BOOLEAN : Fork(escaped, holds)
       \/ ChildExits
    /\ UNCHANGED <<healthVars, counterVars>>

HealthNext ==
    /\ plan.script = "health" /\ main = "running" /\ HealthStep
    /\ UNCHANGED <<runVars, counterVars>>

ServiceNext ==
    /\ plan.script = "health" /\ ServiceStep
    /\ UNCHANGED <<runVars, counterVars>>

CounterNext ==
    /\ plan.script = "counter" /\ main = "running"
    /\ CounterStep \/ \E m \in LogLines : LogLine(m)
    /\ UNCHANGED <<runVars, healthVars>>

\* The plugin's next round starts a new process of the health checker.
Again ==
    /\ plan.script = "health" /\ RunAgain
    /\ Forget /\ UNCHANGED <<options, service, journal, witnessed, counterVars>>

Next == Exit \/ RunNext \/ ForkNext \/ HealthNext \/ ServiceNext \/ CounterNext \/ Again

\* Goroutines and timers run; the binaries of this repository exit, other scripts at
\* least when nobody limits them; systemd restarts what died and time passes.
Fairness ==
    /\ WF_vars(RunNext) /\ WF_vars(HealthNext) /\ WF_vars(CounterNext)
    /\ WF_vars(Exit /\ (plan.script # "plain" \/ ~plan.deadline))
    /\ WF_vars(ChildExits /\ ~plan.deadline /\ UNCHANGED <<healthVars, counterVars>>)
    /\ WF_vars(Again)
    /\ WF_vars(plan.script = "health" /\ ServiceStarts /\ UNCHANGED <<runVars, counterVars>>)
    /\ WF_vars(plan.script = "health" /\ Tick /\ UNCHANGED <<runVars, counterVars>>)
Spec == Init /\ [][Next]_vars /\ Fairness

-----------------------------------------------------------------------------
(* Properties *)

\* run reports OK and NonOK only for a script that exited by itself with that code; a
\* script the deadline killed, or one os/exec tried to kill, is never OK.
StatusIsEarned ==
    runner = "returned" /\ result.status \in {OK, NonOK} =>
        /\ main = "reaped" /\ code = result.status
        /\ result.status = OK => execWatch # "killed"

\* The output that run reports is all the script wrote to stdout, up to the two limits,
\* however the readers, the deadline and the exit interleave.
OutputIsWhole ==
    runner = "returned" /\ result.message = "output" =>
        result.length = Min({MaxOutputLength, BufferBytes, written["stdout"]})

\* run returns.  Without a deadline because a script is never blocked by its own output:
\* the readers drain the pipes beyond the bytes they keep.  With a deadline even if the
\* script or its children would run for ever, unless a child outside the process group
\* keeps the pipes open.
RunReturns ==
    runner = "reading" ~>
        \/ runner = "returned"
        \/ plan.deadline /\ child.state = "running" /\ child.escaped /\ child.holds

\* CheckHealth kills a service that systemd has not started longer than the cool-down
\* ago only if the service was started after its uptime was read: a service that
\* fails while it starts up is not killed over and over.
CoolDownRespected ==
    [][service.state # "inactive" /\ service'.state = "inactive" /\ checker = "repairing"
         /\ checker' = "exiting"
       => service.exited > CoolDownTime \/ restarted]_vars

\* logPatternHealthCheck blames a service only for what it logged since systemd started
\* it, within the second the timestamps resolve, unless it was started in between.
BlamedForItsOwnLog == witnessed = 0

\* A service that is up and does not answer is repaired: it cannot stay so for ever
\* while the health checker may repair it and its commands and runs are not cut short.
HungServiceRepaired ==
    plan.script = "health" /\ ~plan.deadline /\ ~plan.faulty /\ ~options.commandsFail
      /\ options.enableRepair /\ IsValid(SetDefaults(options)) /\ options.endpointURL
      /\ AcceptsPatterns(options.logPatterns)
    => []<>(service.answers \/ service.state # "active")

\* Count is the number of lines that complete a match of the pattern less those that
\* complete one of the revert pattern, each against the lines before it in the buffer;
\* it covers every line up to the first one stamped after the start unless the channel
\* fell silent.
CountIsNet ==
    /\ count = Hits(lines, read, fedo.pattern) - Hits(lines, read, fedo.revertPattern)
    /\ \A i \in 1 .. read : ~lines[i].late
    /\ counter = "exiting" /\ ~quiet /\ ~fedo.watchFails => lines[read + 1].late
=============================================================================
