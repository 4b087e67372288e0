-------------------------- MODULE ProblemDetector --------------------------
(***************************************************************************)
(* The problem detector and the goroutines of its monitors, from Start to  *)
(* the stop: a watcher feeds logCh, the monitor's loop turns logs into     *)
(* statuses on its output channel, a goroutine of groupChannel forwards    *)
(* them to the detector, which exports them.  On cancellation the detector *)
(* stops receiving and stops the monitors one after the other, through     *)
(* their tombs; a monitor's loop stops its watcher through another tomb.   *)
(*                                                                         *)
(* A custom plugin monitor is the same pipeline with the plugin as its     *)
(* watcher and the results as its logs (Plugin models its inside); a       *)
(* system stats monitor is a loop without channels.  Statuses are numbered *)
(* per monitor in the order they are produced.  Exporting is one step: no  *)
(* exporter blocks.                                                        *)
(***************************************************************************)
EXTENDS Integers, Sequences

CONSTANTS NumMonitors,   \* monitors are numbered in the order of the configuration
          Kind,          \* filelog, journald, kmsg, custom or stats, by monitor
          MayFail,       \* monitors whose Start may return an error
          LogCap,        \* capacity of logCh and of resultChan
          OutputCap,     \* capacity of output and of statusChan
          MaxMatches,    \* bound: rules that match one log
          Modulus        \* bound: statuses are numbered modulo this number

Monitors == 1..NumMonitors

ASSUME ConstantsAssumption ==
    /\ NumMonitors \in Nat
    /\ Kind \in [Monitors -> {"filelog", "journald", "kmsg", "custom", "stats"}]
    /\ MayFail \subseteq {m \in Monitors : Kind[m] \in {"filelog", "journald", "kmsg"}}
    /\ LogCap \in Nat \ {0}
    /\ OutputCap \in Nat \ {0}
    /\ MaxMatches \in Nat
    /\ Modulus \in Nat \ {0}
    /\ Modulus > OutputCap + 1

VARIABLES
    pc,          \* Run: "start", "serve", "stop", "returned"
    cur,         \* the monitor being started or stopped
    cancelled,   \* ctx is done
    started,     \* monitors whose Start succeeded
    fwd,         \* goroutine of groupChannel: "off", "recv", "send", "exited"
    held,        \* the status it is sending
    exported,    \* number of the last status exported
    loop,        \* monitorLoop: "off", "initial", "select", "send", "stop", "exited"
    pending,     \* statuses of the current log still to be sent
    produced,    \* number of the last status sent to output
    output, outputClosed,
    stop, done,             \* tomb of the monitor
    watcher,     \* "off", "read", "send", "exited"
    logs, logClosed,        \* logs in logCh
    watcherStop, watcherDone  \* tomb of the watcher

detector == <<pc, cur, cancelled, started>>
forwarding == <<fwd, held, exported>>
looping == <<loop, pending, produced, output, outputClosed, done>>
watching == <<watcher, logs, logClosed, watcherDone>>
vars == <<detector, forwarding, looping, stop, watching, watcherStop>>

Numbers == 0..(Modulus - 1)
Following(n) == (n + 1) % Modulus

TypeOK ==
    /\ pc \in {"start", "serve", "stop", "returned"}
    /\ cur \in 1..(NumMonitors + 1)
    /\ cancelled \in BOOLEAN
    /\ started \subseteq Monitors
    /\ fwd \in [Monitors -> {"off", "recv", "send", "exited"}]
    /\ held \in [Monitors -> Numbers]
    /\ exported \in [Monitors -> Numbers]
    /\ loop \in [Monitors -> {"off", "initial", "select", "send", "stop", "exited"}]
    /\ pending \in [Monitors -> Nat]
    /\ produced \in [Monitors -> Numbers]
    /\ output \in [Monitors -> Seq(Numbers)]
    /\ \A m \in Monitors : Len(output[m]) <= OutputCap
    /\ outputClosed \in [Monitors -> BOOLEAN]
    /\ stop \in [Monitors -> BOOLEAN] /\ done \in [Monitors -> BOOLEAN]
    /\ watcher \in [Monitors -> {"off", "read", "send", "exited"}]
    /\ logs \in [Monitors -> 0..LogCap]
    /\ logClosed \in [Monitors -> BOOLEAN]
    /\ watcherStop \in [Monitors -> BOOLEAN] /\ watcherDone \in [Monitors -> BOOLEAN]
-----------------------------------------------------------------------------
All(v) == [m \in Monitors |-> v]

Init ==
    /\ pc = "start" /\ cur = 1 /\ cancelled = FALSE /\ started = {}
    /\ fwd = All("off") /\ held = All(0) /\ exported = All(0)
    /\ loop = All("off") /\ pending = All(0) /\ produced = All(0)
    /\ output = All(<<>>) /\ outputClosed = All(FALSE)
    /\ stop = All(FALSE) /\ done = All(FALSE)
    /\ watcher = All("off") /\ logs = All(0) /\ logClosed = All(FALSE)
    /\ watcherStop = All(FALSE) /\ watcherDone = All(FALSE)
-----------------------------------------------------------------------------
(* problemDetector.Run.                                                     *)

\* Start: the watcher and the loop run.  A custom plugin monitor may skip its
\* initial status; a system stats monitor has neither status nor watcher.
StartMonitor(m) ==
    /\ pc = "start" /\ cur = m
    /\ cur' = cur + 1
    /\ started' = started \cup {m}
    /\ \E first \in {"initial", "select"} :
          /\ first = "initial" => Kind[m] # "stats"
          /\ first = "select" => Kind[m] \in {"custom", "stats"}
          /\ loop' = [loop EXCEPT ![m] = first]
    /\ watcher' = [watcher EXCEPT ![m] = IF Kind[m] = "stats" THEN "off" ELSE "read"]
    /\ UNCHANGED <<pc, cancelled, forwarding, pending, produced, output, outputClosed, done,
                   stop, logs, logClosed, watcherDone, watcherStop>>

\* Watch fails, Start returns its error, and the loop is never started.
StartFails(m) ==
    /\ pc = "start" /\ cur = m
    /\ m \in MayFail
    /\ cur' = cur + 1
    /\ UNCHANGED <<pc, cancelled, started, forwarding, looping, stop, watching, watcherStop>>

\* Without any monitor Run fails, before it has deferred the stops.
StartsDone ==
    /\ pc = "start" /\ cur = NumMonitors + 1
    /\ pc' = IF started = {} THEN "returned" ELSE "serve"
    /\ fwd' = [m \in Monitors |-> IF m \in started /\ Kind[m] # "stats" THEN "recv" ELSE "off"]
    /\ UNCHANGED <<cur, cancelled, started, held, exported, looping, stop, watching, watcherStop>>

\* The context is cancelled, by a signal.
Cancel ==
    /\ ~cancelled
    /\ cancelled' = TRUE
    /\ UNCHANGED <<pc, cur, started, forwarding, looping, stop, watching, watcherStop>>

\* Mutant of Serve: a forwarder passes on one status only.
ServeOnce(m) ==
    /\ pc = "serve"
    /\ fwd[m] = "send"
    /\ fwd' = [fwd EXCEPT ![m] = "exited"]
    /\ exported' = [exported EXCEPT ![m] = held[m]]
    /\ UNCHANGED <<detector, held, looping, stop, watching, watcherStop>>

\* A status is received from a forwarder and exported.
Serve(m) ==
    /\ pc = "serve"
    /\ fwd[m] = "send"
    /\ fwd' = [fwd EXCEPT ![m] = "recv"]
    /\ exported' = [exported EXCEPT ![m] = held[m]]
    /\ UNCHANGED <<detector, held, looping, stop, watching, watcherStop>>

\* The context is done: the deferred function begins.
Leave ==
    /\ pc = "serve"
    /\ cancelled
    /\ pc' = "stop"
    /\ cur' = 1
    /\ UNCHANGED <<cancelled, started, forwarding, looping, stop, watching, watcherStop>>

\* m.Stop, that is tomb.Stop: the stop channel is closed ...
StopMonitor(m) ==
    /\ pc = "stop" /\ cur = m
    /\ ~stop[m]
    /\ stop' = [stop EXCEPT ![m] = TRUE]
    /\ UNCHANGED <<detector, forwarding, looping, watching, watcherStop>>

\* Mutant of StopReturns: Stop does not wait.
StopReturnsAtOnce(m) ==
    /\ pc = "stop" /\ cur = m
    /\ stop[m]
    /\ cur' = cur + 1
    /\ UNCHANGED <<pc, cancelled, started, forwarding, looping, stop, watching, watcherStop>>

\* ... and the done channel waited for.
StopReturns(m) ==
    /\ pc = "stop" /\ cur = m
    /\ stop[m] /\ done[m]
    /\ cur' = cur + 1
    /\ UNCHANGED <<pc, cancelled, started, forwarding, looping, stop, watching, watcherStop>>

Return ==
    /\ pc = "stop" /\ cur = NumMonitors + 1
    /\ pc' = "returned"
    /\ UNCHANGED <<cur, cancelled, started, forwarding, looping, stop, watching, watcherStop>>
-----------------------------------------------------------------------------
(* groupChannel.                                                            *)

Forward(m) ==
    /\ fwd[m] = "recv"
    /\ output[m] # <<>>
    /\ held' = [held EXCEPT ![m] = Head(output[m])]
    /\ output' = [output EXCEPT ![m] = Tail(@)]
    /\ fwd' = [fwd EXCEPT ![m] = "send"]
    /\ UNCHANGED <<detector, exported, loop, pending, produced, outputClosed, done, stop,
                   watching, watcherStop>>

ForwardEnds(m) ==
    /\ fwd[m] = "recv"
    /\ output[m] = <<>> /\ outputClosed[m]
    /\ fwd' = [fwd EXCEPT ![m] = "exited"]
    /\ UNCHANGED <<detector, held, exported, looping, stop, watching, watcherStop>>
-----------------------------------------------------------------------------
(* monitorLoop.                                                             *)

\* Mutant of Send: a status is dropped when the channel is full.
SendOrDrop(m) ==
    /\ loop[m] \in {"initial", "send"}
    /\ output' = [output EXCEPT ![m] = IF Len(@) < OutputCap THEN Append(@, Following(produced[m]))
                                                             ELSE @]
    /\ produced' = [produced EXCEPT ![m] = Following(@)]
    /\ IF loop[m] = "initial" \/ pending[m] = 1
       THEN loop' = [loop EXCEPT ![m] = "select"] /\ pending' = [pending EXCEPT ![m] = 0]
       ELSE UNCHANGED loop /\ pending' = [pending EXCEPT ![m] = @ - 1]
    /\ UNCHANGED <<detector, forwarding, outputClosed, done, stop, watching, watcherStop>>

\* A blocking send of the next status, the initial one or one of the current log.
Send(m) ==
    /\ loop[m] \in {"initial", "send"}
    /\ Len(output[m]) < OutputCap
    /\ output' = [output EXCEPT ![m] = Append(@, Following(produced[m]))]
    /\ produced' = [produced EXCEPT ![m] = Following(@)]
    /\ IF loop[m] = "initial" \/ pending[m] = 1
       THEN loop' = [loop EXCEPT ![m] = "select"] /\ pending' = [pending EXCEPT ![m] = 0]
       ELSE UNCHANGED loop /\ pending' = [pending EXCEPT ![m] = @ - 1]
    /\ UNCHANGED <<detector, forwarding, outputClosed, done, stop, watching, watcherStop>>

\* A log matches any number of rules; a result always makes one status.
ReceiveLog(m) ==
    /\ loop[m] = "select"
    /\ logs[m] > 0
    /\ logs' = [logs EXCEPT ![m] = @ - 1]
    /\ \E n \in IF Kind[m] = "custom" THEN {1} ELSE 0..MaxMatches :
          /\ pending' = [pending EXCEPT ![m] = n]
          /\ loop' = [loop EXCEPT ![m] = IF n = 0 THEN "select" ELSE "send"]
    /\ UNCHANGED <<detector, forwarding, produced, output, outputClosed, done, stop, watcher,
                   logClosed, watcherDone, watcherStop>>

\* The loop ends: a log monitor closes its output channel, and the tomb is done.
Finish(m) ==
    /\ loop' = [loop EXCEPT ![m] = "exited"]
    /\ outputClosed' = [outputClosed EXCEPT ![m] = Kind[m] \notin {"custom", "stats"}]
    /\ done' = [done EXCEPT ![m] = TRUE]

\* logCh is drained and closed: the watcher gave up.
LogsEnd(m) ==
    /\ loop[m] = "select"
    /\ Kind[m] # "custom"
    /\ logs[m] = 0 /\ logClosed[m]
    /\ Finish(m)
    /\ UNCHANGED <<detector, forwarding, pending, produced, output, stop, watching, watcherStop>>

\* The stop is selected, also when a log is there: watcher.Stop closes the
\* watcher's stop channel ...
LoopStopping(m) ==
    /\ loop[m] = "select"
    /\ stop[m]
    /\ IF Kind[m] = "stats"
       THEN Finish(m) /\ UNCHANGED watcherStop
       ELSE /\ loop' = [loop EXCEPT ![m] = "stop"]
            /\ watcherStop' = [watcherStop EXCEPT ![m] = TRUE]
            /\ UNCHANGED <<outputClosed, done>>
    /\ UNCHANGED <<detector, forwarding, pending, produced, output, stop, watching>>

\* ... and waits for it.
LoopStopped(m) ==
    /\ loop[m] = "stop"
    /\ watcherDone[m]
    /\ Finish(m)
    /\ UNCHANGED <<detector, forwarding, pending, produced, output, stop, watching, watcherStop>>
-----------------------------------------------------------------------------
(* watchLoop.  The file and journald watchers look for a stop before each   *)
(* read and send without looking; kmsg and the plugin select both times.    *)

Selects(m) == Kind[m] \in {"kmsg", "custom"}

\* The loop ends; journald does not close its channel.
WatcherFinish(m) ==
    /\ watcher' = [watcher EXCEPT ![m] = "exited"]
    /\ logClosed' = [logClosed EXCEPT ![m] = Kind[m] # "journald"]
    /\ watcherDone' = [watcherDone EXCEPT ![m] = TRUE]

\* A log that is not filtered out is read.
Read(m) ==
    /\ watcher[m] = "read"
    /\ Selects(m) \/ ~watcherStop[m]
    /\ watcher' = [watcher EXCEPT ![m] = "send"]
    /\ UNCHANGED <<detector, forwarding, looping, stop, logs, logClosed, watcherDone, watcherStop>>

\* Reading a file fails.
ReadFails(m) ==
    /\ watcher[m] = "read"
    /\ Kind[m] = "filelog" /\ ~watcherStop[m]
    /\ WatcherFinish(m)
    /\ UNCHANGED <<detector, forwarding, looping, stop, logs, watcherStop>>

SendLog(m) ==
    /\ watcher[m] = "send"
    /\ logs[m] < LogCap
    /\ logs' = [logs EXCEPT ![m] = @ + 1]
    /\ watcher' = [watcher EXCEPT ![m] = "read"]
    /\ UNCHANGED <<detector, forwarding, looping, stop, logClosed, watcherDone, watcherStop>>

\* Mutant of WatcherStops: the send does not look for the stop.
WatcherStopsReading(m) ==
    /\ watcherStop[m]
    /\ watcher[m] = "read"
    /\ WatcherFinish(m)
    /\ UNCHANGED <<detector, forwarding, looping, stop, logs, watcherStop>>

WatcherStops(m) ==
    /\ watcherStop[m]
    /\ watcher[m] = "read" \/ (watcher[m] = "send" /\ Selects(m))
    /\ WatcherFinish(m)
    /\ UNCHANGED <<detector, forwarding, looping, stop, logs, watcherStop>>
-----------------------------------------------------------------------------
RunStep ==
    \/ \E m \in Monitors : StartMonitor(m) \/ StartFails(m)
    \/ StartsDone
    \/ Leave
    \/ \E m \in Monitors : StopMonitor(m) \/ StopReturns(m)
    \/ Return

Next ==
    \/ RunStep
    \/ Cancel
    \/ \E m \in Monitors :
          \/ Serve(m) \/ Forward(m) \/ ForwardEnds(m)
          \/ Send(m) \/ ReceiveLog(m) \/ LogsEnd(m) \/ LoopStopping(m) \/ LoopStopped(m)
          \/ Read(m) \/ ReadFails(m) \/ SendLog(m) \/ WatcherStops(m)

Spec == Init /\ [][Next]_vars

\* Goroutines are scheduled, and a select that finds a stop again and again
\* takes it some time: its choice is random.  Nothing has to be logged.
Fairness ==
    /\ WF_vars(RunStep)
    /\ \A m \in Monitors :
          /\ WF_vars(Serve(m))
          /\ WF_vars(Forward(m) \/ ForwardEnds(m))
          /\ WF_vars(Send(m) \/ ReceiveLog(m) \/ LogsEnd(m) \/ LoopStopped(m))
          /\ SF_vars(LoopStopping(m))
          /\ WF_vars(SendLog(m))
          /\ SF_vars(WatcherStops(m))

FairSpec == Spec /\ Fairness
-----------------------------------------------------------------------------
(* Properties.                                                              *)

\* The statuses of monitor m on their way to the exporters.
InFlight(m) == (IF fwd[m] = "send" THEN <<held[m]>> ELSE <<>>) \o output[m]

\* Nothing between a monitor and the exporters loses, repeats or reorders its
\* statuses: those in flight are the ones after the last exported, up to the last
\* produced.  A monitor's conditions are only right at the exporter in this order.
StatusesInOrder ==
    \A m \in Monitors :
        LET s == InFlight(m)
        IN  /\ s = [i \in 1..Len(s) |-> (exported[m] + i) % Modulus]
            /\ produced[m] = (exported[m] + Len(s)) % Modulus

\* When Run returns, the loop of every monitor and the loop of its watcher or of its plugin
\* are gone.  What a watcher has only told to stop is not waited for: the goroutine of the
\* file's Tail may have the file open a little longer.
ReturnedIsQuiet ==
    pc = "returned" =>
        \A m \in Monitors : loop[m] \in {"off", "exited"} /\ watcher[m] \in {"off", "exited"}

\* Every status reaches the exporters, unless NPD is stopped.
Delivered ==
    \A m \in Monitors, n \in Numbers :
        (pc = "serve" /\ \E i \in 1..Len(InFlight(m)) : InFlight(m)[i] = n)
            ~> (exported[m] = n \/ cancelled)

\* Nothing is in the way of a stop: no status channel stays full, no log channel
\* whose watcher sends without looking for the stop does, and no monitor failed
\* to start.
NothingStuck ==
    /\ \A m \in Monitors : []<>(Len(output[m]) < OutputCap)
    /\ \A m \in Monitors : Selects(m) \/ []<>(logs[m] < LogCap)
    /\ [](pc \in {"serve", "stop"} => started = Monitors)

\* A cancelled Run returns, whatever its monitors and watchers are at.
StopCompletes == NothingStuck => (cancelled ~> (pc = "returned"))

\* A cancelled Run returns.
StopAlwaysCompletes == cancelled ~> (pc = "returned")
=============================================================================
