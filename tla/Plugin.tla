------------------------------- MODULE Plugin -------------------------------
(***************************************************************************)
(* The scheduler of a custom plugin monitor: Plugin.Run and what it calls. *)
(*                                                                         *)
(* Run first invokes every rule in one batch, then starts one goroutine    *)
(* per distinct invoke interval; each of them runs its rules as a batch    *)
(* per tick.  Runners are the goroutines that execute runRules: Main for   *)
(* the boot batch and the interval groups afterwards.  A batch takes a     *)
(* slot of syncChan per rule, spawns a worker for it, and waits for its    *)
(* workers.  A worker runs the script and sends the result unless the      *)
(* plugin is being stopped.  The script itself takes any finite time.      *)
(*                                                                         *)
(* The consumer is monitorLoop, which stops draining resultChan when it    *)
(* calls Plugin.Stop and waits in it for the tomb's done channel.          *)
(***************************************************************************)
EXTENDS Integers, Sequences, FiniteSets

CONSTANTS NumRules,        \* rules are numbered in the order of the configuration
          Intervals,       \* invoke intervals
          GlobalInterval,  \* pluginConfig.invoke_interval
          NoInterval,            \* a rule without invoke_interval
          Main,            \* the goroutine of Run
          Concurrency,     \* capacity of syncChan
          ResultCap        \* capacity of resultChan

ASSUME PluginAssumption ==
    /\ NumRules \in Nat
    /\ GlobalInterval \in Intervals
    /\ NoInterval \notin Intervals
    /\ Main \notin Intervals
    /\ Concurrency \in Nat \ {0}
    /\ ResultCap \in Nat \ {0}

VARIABLES
    rules,         \* configured rules (fixed)
    ownInterval,   \* rule.InvokeInterval (fixed)
    stage,         \* what each runner is about to do
    todo,          \* rules of its batch not yet started
    worker,        \* what the worker of a runner and a rule is about to do
    slots,         \* elements in syncChan
    tick,          \* ticker channel of a group holds a tick
    resultChan,    \* results sent and not yet received
    resultClosed,
    stopping,      \* tomb: stop is closed
    done,          \* tomb: done is closed
    consumer       \* monitorLoop: "recv", "stopping" (inside Stop), "stopped"

ruleConfig == <<rules, ownInterval>>
pluginVars == <<ruleConfig, stage, todo, worker, slots, tick, resultChan, resultClosed,
          stopping, done, consumer>>

Rules == 1..NumRules
Runners == {Main} \cup Intervals

Stages == {"off", "idle", "select", "acquire", "recheck", "drain", "abort", "groups", "exited"}
WorkerStages == {"none", "check", "run", "send", "release", "finish"}

\* A worker holds its slot from its start until it releases it.
Holding == {"check", "run", "send", "release"}

PluginTypeOK ==
    /\ rules \in SUBSET Rules
    /\ ownInterval \in [Rules -> Intervals \cup {NoInterval}]
    /\ stage \in [Runners -> Stages]
    /\ todo \in [Runners -> SUBSET Rules]
    /\ worker \in [Runners -> [Rules -> WorkerStages]]
    /\ slots \in 0..Concurrency
    /\ tick \in [Intervals -> BOOLEAN]
    /\ resultChan \in Seq(Rules) /\ Len(resultChan) <= ResultCap
    /\ resultClosed \in BOOLEAN /\ stopping \in BOOLEAN /\ done \in BOOLEAN
    /\ consumer \in {"recv", "stopping", "stopped"}
-----------------------------------------------------------------------------
(* Interval groups.                                                         *)

effectiveInterval(q) == IF ownInterval[q] # NoInterval THEN ownInterval[q] ELSE GlobalInterval

\* Rules with equal effective intervals share a group.
intervalGroups == {effectiveInterval(q) : q \in rules}

\* Mutant of RulesOf: every group runs all configured rules.
RulesOfAll(r) == rules

RulesOf(r) == IF r = Main THEN rules ELSE {q \in rules : effectiveInterval(q) = r}

\* Batches go through their rules in the order of the configuration.
IsFirst(q, S) == q \in S /\ \A p \in S : q <= p
-----------------------------------------------------------------------------
\* Run: without rules it waits for the stop; otherwise the boot batch of all
\* rules begins.
PluginInit ==
    /\ rules \in SUBSET Rules
    /\ ownInterval \in [Rules -> Intervals \cup {NoInterval}]
    /\ stage = [r \in Runners |-> IF r # Main THEN "off"
                                  ELSE IF rules = {} THEN "idle" ELSE "acquire"]
    /\ todo = [r \in Runners |-> IF r = Main THEN rules ELSE {}]
    /\ worker = [r \in Runners |-> [q \in Rules |-> "none"]]
    /\ slots = 0
    /\ tick = [g \in Intervals |-> FALSE]
    /\ resultChan = <<>>
    /\ resultClosed = FALSE
    /\ stopping = FALSE
    /\ done = FALSE
    /\ consumer = "recv"

\* Run's deferred calls: the result channel is closed and the tomb is done.
Return ==
    /\ stage' = [stage EXCEPT ![Main] = "exited"]
    /\ resultClosed' = TRUE
    /\ done' = TRUE
-----------------------------------------------------------------------------
(* runRules.                                                                *)

AllFinished(r) == \A q \in Rules : worker[r][q] = "none"

\* A slot of syncChan is free.
Acquire(r) ==
    /\ stage[r] = "acquire"
    /\ slots < Concurrency
    /\ slots' = slots + 1
    /\ stage' = [stage EXCEPT ![r] = "recheck"]
    /\ UNCHANGED <<ruleConfig, todo, worker, tick, resultChan, resultClosed, stopping, done, consumer>>

\* Mutant of AcquireStopped: gives back a slot it never took.
AcquireStoppedReleases(r) ==
    /\ stage[r] = "acquire"
    /\ stopping
    /\ slots' = slots - 1
    /\ stage' = [stage EXCEPT ![r] = "abort"]
    /\ UNCHANGED <<ruleConfig, todo, worker, tick, resultChan, resultClosed, stopping, done, consumer>>

\* The stop is selected instead, also when a slot is free.
AcquireStopped(r) ==
    /\ stage[r] = "acquire"
    /\ stopping
    /\ stage' = [stage EXCEPT ![r] = "abort"]
    /\ UNCHANGED <<ruleConfig, todo, worker, slots, tick, resultChan, resultClosed, stopping, done,
                   consumer>>

\* Mutant of RecheckStopped: the slot is kept.
RecheckStoppedLeaks(r) ==
    /\ stage[r] = "recheck"
    /\ stopping
    /\ stage' = [stage EXCEPT ![r] = "abort"]
    /\ UNCHANGED <<ruleConfig, todo, worker, slots, tick, resultChan, resultClosed, stopping, done,
                   consumer>>

\* Having the slot, the batch gives it back if the stop came meanwhile.
RecheckStopped(r) ==
    /\ stage[r] = "recheck"
    /\ stopping
    /\ slots' = slots - 1
    /\ stage' = [stage EXCEPT ![r] = "abort"]
    /\ UNCHANGED <<ruleConfig, todo, worker, tick, resultChan, resultClosed, stopping, done, consumer>>

\* Otherwise it starts a worker for the next rule.
Spawn(r) ==
    /\ stage[r] = "recheck"
    /\ ~stopping
    /\ \E q \in Rules :
         /\ IsFirst(q, todo[r])
         /\ worker' = [worker EXCEPT ![r][q] = "check"]
         /\ todo' = [todo EXCEPT ![r] = @ \ {q}]
         /\ stage' = [stage EXCEPT ![r] = IF todo[r] = {q} THEN "drain" ELSE "acquire"]
    /\ UNCHANGED <<ruleConfig, slots, tick, resultChan, resultClosed, stopping, done, consumer>>

\* The boot batch is complete: Run starts the groups.
BootDone ==
    /\ stage[Main] = "drain"
    /\ AllFinished(Main)
    /\ stage' = [r \in Runners |-> IF r = Main THEN "groups"
                                   ELSE IF r \in intervalGroups THEN "select" ELSE "off"]
    /\ UNCHANGED <<ruleConfig, todo, worker, slots, tick, resultChan, resultClosed, stopping, done,
                   consumer>>

\* The boot batch was cut short: Run returns.
BootAborted ==
    /\ stage[Main] = "abort"
    /\ AllFinished(Main)
    /\ Return
    /\ UNCHANGED <<ruleConfig, todo, worker, slots, tick, resultChan, stopping, consumer>>
-----------------------------------------------------------------------------
(* runGroup.                                                                *)

\* Mutant of GroupTick: only the first rule of the group is run.
GroupTickFirst(g) ==
    /\ stage[g] = "select"
    /\ tick[g]
    /\ tick' = [tick EXCEPT ![g] = FALSE]
    /\ todo' = [todo EXCEPT ![g] = {q \in Rules : IsFirst(q, RulesOf(g))}]
    /\ stage' = [stage EXCEPT ![g] = "acquire"]
    /\ UNCHANGED <<ruleConfig, worker, slots, resultChan, resultClosed, stopping, done, consumer>>

GroupTick(g) ==
    /\ stage[g] = "select"
    /\ tick[g]
    /\ tick' = [tick EXCEPT ![g] = FALSE]
    /\ todo' = [todo EXCEPT ![g] = RulesOf(g)]
    /\ stage' = [stage EXCEPT ![g] = "acquire"]
    /\ UNCHANGED <<ruleConfig, worker, slots, resultChan, resultClosed, stopping, done, consumer>>

GroupStopped(g) ==
    /\ stage[g] = "select"
    /\ stopping
    /\ stage' = [stage EXCEPT ![g] = "exited"]
    /\ UNCHANGED <<ruleConfig, todo, worker, slots, tick, resultChan, resultClosed, stopping, done,
                   consumer>>

\* workers.Wait returns and runRules with true or false.
BatchDone(g) ==
    /\ stage[g] \in {"drain", "abort"}
    /\ AllFinished(g)
    /\ stage' = [stage EXCEPT ![g] = IF @ = "drain" THEN "select" ELSE "exited"]
    /\ UNCHANGED <<ruleConfig, todo, worker, slots, tick, resultChan, resultClosed, stopping, done,
                   consumer>>

\* Mutant of RunReturns: Run waits for the stop instead of for its groups.
RunReturnsOnStop ==
    /\ stage[Main] \in {"groups", "idle"}
    /\ stopping
    /\ Return
    /\ UNCHANGED <<ruleConfig, todo, worker, slots, tick, resultChan, stopping, consumer>>

\* p.Wait returns when every group has; without groups Run waits for the stop.
RunReturns ==
    /\ \/ stage[Main] = "groups" /\ \A g \in intervalGroups : stage[g] = "exited"
       \/ stage[Main] = "idle" /\ stopping
    /\ Return
    /\ UNCHANGED <<ruleConfig, todo, worker, slots, tick, resultChan, stopping, consumer>>
-----------------------------------------------------------------------------
(* The worker of rule q started by runner r.                                *)

SetWorker(r, q, w) == worker' = [worker EXCEPT ![r][q] = w]

WorkerCheck(r, q) ==
    /\ worker[r][q] = "check"
    /\ SetWorker(r, q, IF stopping THEN "release" ELSE "run")
    /\ UNCHANGED <<ruleConfig, stage, todo, slots, tick, resultChan, resultClosed, stopping, done,
                   consumer>>

\* runFunc returns: the script ended or was killed at its timeout.
WorkerRan(r, q) ==
    /\ worker[r][q] = "run"
    /\ SetWorker(r, q, "send")
    /\ UNCHANGED <<ruleConfig, stage, todo, slots, tick, resultChan, resultClosed, stopping, done,
                   consumer>>

\* Mutant of WorkerSend: a plain send.
WorkerSendPlain(r, q) ==
    /\ worker[r][q] = "send"
    /\ Len(resultChan) < ResultCap
    /\ resultChan' = Append(resultChan, q)
    /\ SetWorker(r, q, "release")
    /\ UNCHANGED <<ruleConfig, stage, todo, slots, tick, resultClosed, stopping, done, consumer>>

WorkerSend(r, q) ==
    /\ worker[r][q] = "send"
    /\ \/ /\ Len(resultChan) < ResultCap
          /\ resultChan' = Append(resultChan, q)
       \/ /\ stopping
          /\ UNCHANGED resultChan
    /\ SetWorker(r, q, "release")
    /\ UNCHANGED <<ruleConfig, stage, todo, slots, tick, resultClosed, stopping, done, consumer>>

\* The deferred calls: first the slot is given back, then the batch is told.
WorkerRelease(r, q) ==
    /\ worker[r][q] = "release"
    /\ slots' = slots - 1
    /\ SetWorker(r, q, "finish")
    /\ UNCHANGED <<ruleConfig, stage, todo, tick, resultChan, resultClosed, stopping, done, consumer>>

WorkerFinish(r, q) ==
    /\ worker[r][q] = "finish"
    /\ SetWorker(r, q, "none")
    /\ UNCHANGED <<ruleConfig, stage, todo, slots, tick, resultChan, resultClosed, stopping, done,
                   consumer>>
-----------------------------------------------------------------------------
(* Tickers and the consumer.                                                *)

\* A ticker exists from the start of Run until it returns; its channel holds
\* one tick.
Tick(g) ==
    /\ g \in intervalGroups
    /\ stage[Main] # "exited"
    /\ ~tick[g]
    /\ tick' = [tick EXCEPT ![g] = TRUE]
    /\ UNCHANGED <<ruleConfig, stage, todo, worker, slots, resultChan, resultClosed, stopping, done,
                   consumer>>

ReceiveResult ==
    /\ consumer = "recv"
    /\ resultChan # <<>>
    /\ resultChan' = Tail(resultChan)
    /\ UNCHANGED <<ruleConfig, stage, todo, worker, slots, tick, resultClosed, stopping, done, consumer>>

\* Plugin.Stop: tomb.Stop closes stop and waits for done.
Stop ==
    /\ consumer = "recv"
    /\ consumer' = "stopping"
    /\ stopping' = TRUE
    /\ UNCHANGED <<ruleConfig, stage, todo, worker, slots, tick, resultChan, resultClosed, done>>

StopReturns ==
    /\ consumer = "stopping"
    /\ done
    /\ consumer' = "stopped"
    /\ UNCHANGED <<ruleConfig, stage, todo, worker, slots, tick, resultChan, resultClosed, stopping,
                   done>>
-----------------------------------------------------------------------------
RunnerStep(r) == AcquireStopped(r) \/ RecheckStopped(r) \/ Spawn(r)

MainStep == BootDone \/ BootAborted \/ RunReturns

GroupStep(g) == GroupTick(g) \/ GroupStopped(g) \/ BatchDone(g)

WorkerStep(r, q) ==
    \/ WorkerCheck(r, q)
    \/ WorkerRan(r, q)
    \/ WorkerSend(r, q)
    \/ WorkerRelease(r, q)
    \/ WorkerFinish(r, q)

PluginNext ==
    \/ \E r \in Runners : Acquire(r) \/ RunnerStep(r)
    \/ MainStep
    \/ \E g \in Intervals : GroupStep(g) \/ Tick(g)
    \/ \E r \in Runners, q \in Rules : WorkerStep(r, q)
    \/ ReceiveResult
    \/ Stop
    \/ StopReturns

PluginSpec == PluginInit /\ [][PluginNext]_pluginVars

\* Goroutines are scheduled, scripts end, the consumer receives unless it
\* stops, time passes.  A goroutine blocked on syncChan or resultChan gets its
\* turn: Go serves blocked senders in the order they came.
Fairness ==
    /\ \A r \in Runners : SF_pluginVars(Acquire(r)) /\ WF_pluginVars(RunnerStep(r))
    /\ WF_pluginVars(MainStep)
    /\ \A g \in Intervals : WF_pluginVars(GroupStep(g)) /\ WF_pluginVars(Tick(g))
    /\ \A r \in Runners, q \in Rules : WF_pluginVars(WorkerStep(r, q)) /\ SF_pluginVars(WorkerSend(r, q))
    /\ WF_pluginVars(ReceiveResult)
    /\ WF_pluginVars(StopReturns)

FairSpec == PluginSpec /\ Fairness
-----------------------------------------------------------------------------
(* Properties.                                                              *)

\* "A rule never runs concurrently with itself" (docs/custom_plugin_monitor.md),
\* neither across ticks of its group nor between the boot batch and its group:
\* when a worker of a rule starts, no other worker of the rule is alive.
NoOverlap ==
    [][\A r \in Runners, q \in Rules :
          worker'[r][q] = "check" /\ worker[r][q] # "check" =>
              \A s \in Runners : worker[s][q] = "none"]_pluginVars

\* Workers that hold a slot, and batches about to hand theirs to a worker (with
\* 0 for the rule).
Holders ==
    {h \in Runners \X (0..NumRules) :
        IF h[2] = 0 THEN stage[h[1]] = "recheck" ELSE worker[h[1]][h[2]] \in Holding}

\* Every element of syncChan is held by exactly one worker or batch, so no path
\* leaks a slot or gives one back twice, and no more than Concurrency scripts
\* run at a time.
SlotsAccounted == slots = Cardinality(Holders)

\* When the result channel is closed every goroutine that could send on it is
\* gone, and the consumer is inside Stop: no send panics, and the monitor's
\* "Result channel closed" branch, which returns without telling its tomb, is
\* never taken.
ClosedIsQuiet ==
    resultClosed =>
        /\ consumer # "recv"
        /\ \A r \in Runners : AllFinished(r) /\ stage[r] \in {"off", "exited"}

\* A stop always completes, with scripts running, batches waiting for slots,
\* and results nobody receives any more.
StopCompletes == stopping ~> (consumer = "stopped")

\* No group starves: a tick leads to an invocation of every rule of the group,
\* unless the plugin is stopped.
EveryTickRuns ==
    \A q \in Rules, g \in Intervals :
        (q \in RulesOf(g) /\ tick[g]) ~> (stopping \/ worker[g][q] = "run")
=============================================================================
