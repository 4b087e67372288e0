------------------------- MODULE CustomPluginProofs -------------------------
(***************************************************************************)
(* Proofs about the two halves of a custom plugin monitor: Plugin, which   *)
(* schedules the scripts, for every number of rules, every set of          *)
(* intervals, every configuration and every capacity; and                  *)
(* CustomPluginMonitor, which handles their results, for every set of      *)
(* conditions, reasons and messages, every configuration and capacity.     *)
(***************************************************************************)
EXTENDS Plugin, CustomPluginMonitor, FiniteSetTheorems, SequenceTheorems, TLAPS

-----------------------------------------------------------------------------
(* Plugin: the invariant of the scheduler *)

\* Stages in which a runner may have workers.
Busy == {"acquire", "recheck", "drain", "abort"}

\* Which runners run when: groups only after the boot batch, Run's goroutine
\* returns last, and only a stop ends anything.
Control ==
    /\ stage[Main] \notin {"off", "select"}
    /\ stage[Main] \in {"acquire", "recheck", "drain", "groups"} => rules # {}
    /\ \A g \in Intervals :
          /\ stage[g] \notin {"idle", "groups"}
          /\ stage[g] # "off" => g \in intervalGroups /\ stage[Main] \in {"groups", "exited"}
          /\ stage[Main] = "exited" => stage[g] \in {"off", "exited"}
    /\ \A r \in Runners : stage[r] \in {"abort", "exited"} => stopping
    /\ resultClosed => stage[Main] = "exited"
    /\ stopping => consumer # "recv"

\* What the batches are at: a worker belongs to a rule of its runner that the
\* running batch has already started.
Work ==
    \A r \in Runners :
        /\ todo[r] \subseteq RulesOf(r)
        /\ stage[r] \in {"acquire", "recheck"} => todo[r] # {}
        /\ \A q \in Rules : worker[r][q] # "none" =>
              q \in RulesOf(r) /\ q \notin todo[r] /\ stage[r] \in Busy

\* The types of everything but the number of slots taken.
PluginTypes ==
    /\ rules \in SUBSET Rules
    /\ ownInterval \in [Rules -> Intervals \cup {NoInterval}]
    /\ stage \in [Runners -> Stages]
    /\ todo \in [Runners -> SUBSET Rules]
    /\ worker \in [Runners -> [Rules -> WorkerStages]]
    /\ tick \in [Intervals -> BOOLEAN]
    /\ resultClosed \in BOOLEAN /\ stopping \in BOOLEAN /\ done \in BOOLEAN
    /\ consumer \in {"recv", "stopping", "stopped"}

\* The results waiting are bounded by the channel.
Results == resultChan \in Seq(Rules) /\ Len(resultChan) <= ResultCap

\* The slots taken are within the capacity and all held by somebody.
Slots == slots \in 0..Concurrency /\ IsFiniteSet(Holders) /\ SlotsAccounted

\* The inductive invariant.
PluginInv == PluginTypes /\ Results /\ Control /\ Work /\ Slots
-----------------------------------------------------------------------------
\* Rules and intervals of the runners.
LEMMA RunnerProps ==
    /\ Main \in Runners /\ Intervals \subseteq Runners
    /\ \A r \in Runners : r # Main => r \in Intervals
    /\ 0 \notin Rules
  BY PluginAssumption DEF Runners, Rules

\* Two groups have no rule in common.
LEMMA GroupsDisjoint ==
    \A r, s \in Intervals : r # s => RulesOf(r) \cap RulesOf(s) = {}
  BY PluginAssumption DEF RulesOf

\* With rules there is a group.
LEMMA GroupsExist == PluginTypes /\ rules # {} => \E g \in Intervals : g \in intervalGroups
  BY PluginAssumption DEF PluginTypes, intervalGroups, effectiveInterval

\* A group that is in use has rules.
LEMMA GroupsNonempty ==
    PluginTypes => \A g \in intervalGroups : g \in Intervals /\ RulesOf(g) # {} /\ RulesOf(g) \subseteq Rules
  BY PluginAssumption DEF PluginTypes, intervalGroups, RulesOf, effectiveInterval
-----------------------------------------------------------------------------
\* The configuration never changes, and with it the groups.
LEMMA RulesFixed ==
    [PluginNext]_pluginVars => /\ rules' = rules /\ ownInterval' = ownInterval
                   /\ intervalGroups' = intervalGroups
                   /\ \A r : RulesOf(r)' = RulesOf(r)
  <1> SUFFICES ASSUME [PluginNext]_pluginVars PROVE rules' = rules /\ ownInterval' = ownInterval
    BY DEF intervalGroups, RulesOf, effectiveInterval
  <1> USE DEF ruleConfig
  <1>1. ASSUME NEW r \in Runners, Acquire(r) PROVE rules' = rules /\ ownInterval' = ownInterval
    BY <1>1 DEF Acquire
  <1>2. ASSUME NEW r \in Runners, AcquireStopped(r) PROVE rules' = rules /\ ownInterval' = ownInterval
    BY <1>2 DEF AcquireStopped
  <1>3. ASSUME NEW r \in Runners, RecheckStopped(r) PROVE rules' = rules /\ ownInterval' = ownInterval
    BY <1>3 DEF RecheckStopped
  <1>4. ASSUME NEW r \in Runners, Spawn(r) PROVE rules' = rules /\ ownInterval' = ownInterval
    BY <1>4 DEF Spawn, IsFirst
  <1>5. CASE BootDone
    BY <1>5 DEF BootDone
  <1>6. CASE BootAborted
    BY <1>6 DEF BootAborted, Return
  <1>7. CASE RunReturns
    BY <1>7 DEF RunReturns, Return
  <1>8. ASSUME NEW g \in Intervals, GroupTick(g) PROVE rules' = rules /\ ownInterval' = ownInterval
    BY <1>8 DEF GroupTick
  <1>9. ASSUME NEW g \in Intervals, GroupStopped(g) PROVE rules' = rules /\ ownInterval' = ownInterval
    BY <1>9 DEF GroupStopped
  <1>10. ASSUME NEW g \in Intervals, BatchDone(g) PROVE rules' = rules /\ ownInterval' = ownInterval
    BY <1>10 DEF BatchDone
  <1>11. ASSUME NEW g \in Intervals, Tick(g) PROVE rules' = rules /\ ownInterval' = ownInterval
    BY <1>11 DEF Tick
  <1>12. ASSUME NEW r \in Runners, NEW q \in Rules, WorkerCheck(r, q) PROVE rules' = rules /\ ownInterval' = ownInterval
    BY <1>12 DEF WorkerCheck, SetWorker
  <1>13. ASSUME NEW r \in Runners, NEW q \in Rules, WorkerRan(r, q) PROVE rules' = rules /\ ownInterval' = ownInterval
    BY <1>13 DEF WorkerRan, SetWorker
  <1>14. ASSUME NEW r \in Runners, NEW q \in Rules, WorkerSend(r, q) PROVE rules' = rules /\ ownInterval' = ownInterval
    BY <1>14 DEF WorkerSend, SetWorker
  <1>15. ASSUME NEW r \in Runners, NEW q \in Rules, WorkerRelease(r, q) PROVE rules' = rules /\ ownInterval' = ownInterval
    BY <1>15 DEF WorkerRelease, SetWorker
  <1>16. ASSUME NEW r \in Runners, NEW q \in Rules, WorkerFinish(r, q) PROVE rules' = rules /\ ownInterval' = ownInterval
    BY <1>16 DEF WorkerFinish, SetWorker
  <1>17. CASE ReceiveResult
    BY <1>17 DEF ReceiveResult
  <1>18. CASE Stop
    BY <1>18 DEF Stop
  <1>19. CASE StopReturns
    BY <1>19 DEF StopReturns
  <1>20. CASE UNCHANGED pluginVars
    BY <1>20, SMTT(30) DEF pluginVars
  <1> QED
    BY <1>1, <1>2, <1>3, <1>4, <1>5, <1>6, <1>7, <1>8, <1>9, <1>10, <1>11, <1>12,
       <1>13, <1>14, <1>15, <1>16, <1>17, <1>18, <1>19, <1>20
    DEF PluginNext, RunnerStep, MainStep, GroupStep, WorkerStep

\* Everything but the slots keeps its type.
LEMMA PluginTypeStep == PluginTypes /\ [PluginNext]_pluginVars => PluginTypes'
  <1> SUFFICES ASSUME PluginTypes, [PluginNext]_pluginVars PROVE PluginTypes'
    OBVIOUS
  <1> USE RunnerProps DEF PluginTypes, ruleConfig, Stages, WorkerStages
  <1>1. ASSUME NEW r \in Runners, Acquire(r) PROVE PluginTypes'
    BY <1>1 DEF Acquire
  <1>2. ASSUME NEW r \in Runners, AcquireStopped(r) PROVE PluginTypes'
    BY <1>2 DEF AcquireStopped
  <1>3. ASSUME NEW r \in Runners, RecheckStopped(r) PROVE PluginTypes'
    BY <1>3 DEF RecheckStopped
  <1>4. ASSUME NEW r \in Runners, Spawn(r) PROVE PluginTypes'
    BY <1>4 DEF Spawn, IsFirst
  <1>5. CASE BootDone
    BY <1>5 DEF BootDone
  <1>6. CASE BootAborted
    BY <1>6 DEF BootAborted, Return
  <1>7. CASE RunReturns
    BY <1>7 DEF RunReturns, Return
  <1>8. ASSUME NEW g \in Intervals, GroupTick(g) PROVE PluginTypes'
    BY <1>8 DEF GroupTick, RulesOf
  <1>9. ASSUME NEW g \in Intervals, GroupStopped(g) PROVE PluginTypes'
    BY <1>9 DEF GroupStopped
  <1>10. ASSUME NEW g \in Intervals, BatchDone(g) PROVE PluginTypes'
    BY <1>10 DEF BatchDone
  <1>11. ASSUME NEW g \in Intervals, Tick(g) PROVE PluginTypes'
    BY <1>11 DEF Tick
  <1>12. ASSUME NEW r \in Runners, NEW q \in Rules, WorkerCheck(r, q) PROVE PluginTypes'
    BY <1>12 DEF WorkerCheck, SetWorker
  <1>13. ASSUME NEW r \in Runners, NEW q \in Rules, WorkerRan(r, q) PROVE PluginTypes'
    BY <1>13 DEF WorkerRan, SetWorker
  <1>14. ASSUME NEW r \in Runners, NEW q \in Rules, WorkerSend(r, q) PROVE PluginTypes'
    BY <1>14 DEF WorkerSend, SetWorker
  <1>15. ASSUME NEW r \in Runners, NEW q \in Rules, WorkerRelease(r, q) PROVE PluginTypes'
    BY <1>15 DEF WorkerRelease, SetWorker
  <1>16. ASSUME NEW r \in Runners, NEW q \in Rules, WorkerFinish(r, q) PROVE PluginTypes'
    BY <1>16 DEF WorkerFinish, SetWorker
  <1>17. CASE ReceiveResult
    BY <1>17 DEF ReceiveResult
  <1>18. CASE Stop
    BY <1>18 DEF Stop
  <1>19. CASE StopReturns
    BY <1>19 DEF StopReturns
  <1>20. CASE UNCHANGED pluginVars
    BY <1>20 DEF pluginVars
  <1> QED
    BY <1>1, <1>2, <1>3, <1>4, <1>5, <1>6, <1>7, <1>8, <1>9, <1>10, <1>11, <1>12,
       <1>13, <1>14, <1>15, <1>16, <1>17, <1>18, <1>19, <1>20
    DEF PluginNext, RunnerStep, MainStep, GroupStep, WorkerStep

\* The result channel keeps to its capacity.
LEMMA ResultsStep == Results /\ [PluginNext]_pluginVars => Results'
  <1> SUFFICES ASSUME Results, [PluginNext]_pluginVars PROVE Results'
    OBVIOUS
  <1> USE PluginAssumption DEF Results
  <1>1. ASSUME NEW r \in Runners, Acquire(r) PROVE Results'
    BY <1>1 DEF Acquire
  <1>2. ASSUME NEW r \in Runners, AcquireStopped(r) PROVE Results'
    BY <1>2 DEF AcquireStopped
  <1>3. ASSUME NEW r \in Runners, RecheckStopped(r) PROVE Results'
    BY <1>3 DEF RecheckStopped
  <1>4. ASSUME NEW r \in Runners, Spawn(r) PROVE Results'
    BY <1>4 DEF Spawn, IsFirst
  <1>5. CASE BootDone
    BY <1>5 DEF BootDone
  <1>6. CASE BootAborted
    BY <1>6 DEF BootAborted, Return
  <1>7. CASE RunReturns
    BY <1>7 DEF RunReturns, Return
  <1>8. ASSUME NEW g \in Intervals, GroupTick(g) PROVE Results'
    BY <1>8 DEF GroupTick
  <1>9. ASSUME NEW g \in Intervals, GroupStopped(g) PROVE Results'
    BY <1>9 DEF GroupStopped
  <1>10. ASSUME NEW g \in Intervals, BatchDone(g) PROVE Results'
    BY <1>10 DEF BatchDone
  <1>11. ASSUME NEW g \in Intervals, Tick(g) PROVE Results'
    BY <1>11 DEF Tick
  <1>12. ASSUME NEW r \in Runners, NEW q \in Rules, WorkerCheck(r, q) PROVE Results'
    BY <1>12 DEF WorkerCheck, SetWorker
  <1>13. ASSUME NEW r \in Runners, NEW q \in Rules, WorkerRan(r, q) PROVE Results'
    BY <1>13 DEF WorkerRan, SetWorker
  <1>14. ASSUME NEW r \in Runners, NEW q \in Rules, WorkerSend(r, q) PROVE Results'
    BY <1>14 DEF WorkerSend, SetWorker
  <1>15. ASSUME NEW r \in Runners, NEW q \in Rules, WorkerRelease(r, q) PROVE Results'
    BY <1>15 DEF WorkerRelease, SetWorker
  <1>16. ASSUME NEW r \in Runners, NEW q \in Rules, WorkerFinish(r, q) PROVE Results'
    BY <1>16 DEF WorkerFinish, SetWorker
  <1>17. CASE ReceiveResult
    BY <1>17 DEF ReceiveResult
  <1>18. CASE Stop
    BY <1>18 DEF Stop
  <1>19. CASE StopReturns
    BY <1>19 DEF StopReturns
  <1>20. CASE UNCHANGED pluginVars
    BY <1>20 DEF pluginVars
  <1> QED
    BY <1>1, <1>2, <1>3, <1>4, <1>5, <1>6, <1>7, <1>8, <1>9, <1>10, <1>11, <1>12,
       <1>13, <1>14, <1>15, <1>16, <1>17, <1>18, <1>19, <1>20
    DEF PluginNext, RunnerStep, MainStep, GroupStep, WorkerStep
-----------------------------------------------------------------------------
\* Groups, Run and the consumer keep to their order.
LEMMA ControlStep == PluginTypes /\ Control /\ Work /\ [PluginNext]_pluginVars => Control'
  <1> SUFFICES ASSUME PluginTypes, Control, Work, [PluginNext]_pluginVars PROVE Control'
    OBVIOUS
  <1> USE RunnerProps, RulesFixed, PluginAssumption DEF PluginTypes, Control
  <1>1. ASSUME NEW r \in Runners, Acquire(r) PROVE Control'
    BY <1>1 DEF Acquire
  <1>2. ASSUME NEW r \in Runners, AcquireStopped(r) PROVE Control'
    BY <1>2 DEF AcquireStopped
  <1>3. ASSUME NEW r \in Runners, RecheckStopped(r) PROVE Control'
    BY <1>3 DEF RecheckStopped
  <1>4. ASSUME NEW r \in Runners, Spawn(r) PROVE Control'
    BY <1>4 DEF Spawn, IsFirst
  <1>5. CASE BootDone
    BY <1>5 DEF BootDone
  <1>6. CASE BootAborted
    BY <1>6 DEF BootAborted, Return
  <1>7. CASE RunReturns
    <2>1. stopping
      BY <1>7, GroupsExist DEF RunReturns
    <2> QED
      BY <1>7, <2>1 DEF RunReturns, Return
  <1>8. ASSUME NEW g \in Intervals, GroupTick(g) PROVE Control'
    BY <1>8 DEF GroupTick
  <1>9. ASSUME NEW g \in Intervals, GroupStopped(g) PROVE Control'
    BY <1>9 DEF GroupStopped
  <1>10. ASSUME NEW g \in Intervals, BatchDone(g) PROVE Control'
    BY <1>10 DEF BatchDone
  <1>11. ASSUME NEW g \in Intervals, Tick(g) PROVE Control'
    BY <1>11 DEF Tick
  <1>12. ASSUME NEW r \in Runners, NEW q \in Rules, WorkerCheck(r, q) PROVE Control'
    BY <1>12 DEF WorkerCheck, SetWorker
  <1>13. ASSUME NEW r \in Runners, NEW q \in Rules, WorkerRan(r, q) PROVE Control'
    BY <1>13 DEF WorkerRan, SetWorker
  <1>14. ASSUME NEW r \in Runners, NEW q \in Rules, WorkerSend(r, q) PROVE Control'
    BY <1>14 DEF WorkerSend, SetWorker
  <1>15. ASSUME NEW r \in Runners, NEW q \in Rules, WorkerRelease(r, q) PROVE Control'
    BY <1>15 DEF WorkerRelease, SetWorker
  <1>16. ASSUME NEW r \in Runners, NEW q \in Rules, WorkerFinish(r, q) PROVE Control'
    BY <1>16 DEF WorkerFinish, SetWorker
  <1>17. CASE ReceiveResult
    BY <1>17 DEF ReceiveResult
  <1>18. CASE Stop
    BY <1>18 DEF Stop
  <1>19. CASE StopReturns
    BY <1>19 DEF StopReturns
  <1>20. CASE UNCHANGED pluginVars
    BY <1>20 DEF pluginVars
  <1> QED
    BY <1>1, <1>2, <1>3, <1>4, <1>5, <1>6, <1>7, <1>8, <1>9, <1>10, <1>11, <1>12,
       <1>13, <1>14, <1>15, <1>16, <1>17, <1>18, <1>19, <1>20, Zenon
    DEF PluginNext, RunnerStep, MainStep, GroupStep, WorkerStep

\* Workers stay within their batch.
LEMMA WorkStep == PluginTypes /\ Control /\ Work /\ [PluginNext]_pluginVars => Work'
  <1> SUFFICES ASSUME PluginTypes, Control, Work, [PluginNext]_pluginVars PROVE Work'
    OBVIOUS
  <1> USE RunnerProps, RulesFixed, PluginAssumption DEF PluginTypes, Work, Busy
  <1>1. ASSUME NEW r \in Runners, Acquire(r) PROVE Work'
    BY <1>1 DEF Acquire
  <1>2. ASSUME NEW r \in Runners, AcquireStopped(r) PROVE Work'
    BY <1>2 DEF AcquireStopped
  <1>3. ASSUME NEW r \in Runners, RecheckStopped(r) PROVE Work'
    BY <1>3 DEF RecheckStopped
  <1>4. ASSUME NEW r \in Runners, Spawn(r) PROVE Work'
    BY <1>4 DEF Spawn, IsFirst
  <1>5. CASE BootDone
    <2>1. \A r \in Runners, q \in Rules : worker[r][q] = "none"
      BY <1>5 DEF BootDone, AllFinished, Control
    <2> QED
      BY <1>5, <2>1 DEF BootDone
  <1>6. CASE BootAborted
    BY <1>6 DEF BootAborted, Return, AllFinished
  <1>7. CASE RunReturns
    BY <1>7 DEF RunReturns, Return
  <1>8. ASSUME NEW g \in Intervals, GroupTick(g) PROVE Work'
    <2>1. RulesOf(g) # {} /\ RulesOf(g) \subseteq Rules
      BY <1>8, GroupsNonempty DEF GroupTick, Control
    <2> QED
      BY <1>8, <2>1 DEF GroupTick
  <1>9. ASSUME NEW g \in Intervals, GroupStopped(g) PROVE Work'
    BY <1>9 DEF GroupStopped
  <1>10. ASSUME NEW g \in Intervals, BatchDone(g) PROVE Work'
    BY <1>10 DEF BatchDone, AllFinished
  <1>11. ASSUME NEW g \in Intervals, Tick(g) PROVE Work'
    BY <1>11 DEF Tick
  <1>12. ASSUME NEW r \in Runners, NEW q \in Rules, WorkerCheck(r, q) PROVE Work'
    BY <1>12 DEF WorkerCheck, SetWorker
  <1>13. ASSUME NEW r \in Runners, NEW q \in Rules, WorkerRan(r, q) PROVE Work'
    BY <1>13 DEF WorkerRan, SetWorker
  <1>14. ASSUME NEW r \in Runners, NEW q \in Rules, WorkerSend(r, q) PROVE Work'
    BY <1>14 DEF WorkerSend, SetWorker
  <1>15. ASSUME NEW r \in Runners, NEW q \in Rules, WorkerRelease(r, q) PROVE Work'
    BY <1>15 DEF WorkerRelease, SetWorker
  <1>16. ASSUME NEW r \in Runners, NEW q \in Rules, WorkerFinish(r, q) PROVE Work'
    BY <1>16 DEF WorkerFinish, SetWorker
  <1>17. CASE ReceiveResult
    BY <1>17 DEF ReceiveResult
  <1>18. CASE Stop
    BY <1>18 DEF Stop
  <1>19. CASE StopReturns
    BY <1>19 DEF StopReturns
  <1>20. CASE UNCHANGED pluginVars
    BY <1>20 DEF pluginVars
  <1> QED
    BY <1>1, <1>2, <1>3, <1>4, <1>5, <1>6, <1>7, <1>8, <1>9, <1>10, <1>11, <1>12,
       <1>13, <1>14, <1>15, <1>16, <1>17, <1>18, <1>19, <1>20, Zenon
    DEF PluginNext, RunnerStep, MainStep, GroupStep, WorkerStep

\* A worker is started by Spawn only.
LEMMA StartsBySpawn ==
    ASSUME PluginTypes, [PluginNext]_pluginVars, NEW r \in Runners, NEW q \in Rules,
           worker'[r][q] = "check", worker[r][q] # "check"
    PROVE  Spawn(r) /\ q \in todo[r]
  <1> USE DEF PluginTypes
  <1>1. CASE \E p \in Runners : Acquire(p)
    BY <1>1 DEF Acquire
  <1>2. CASE \E p \in Runners : AcquireStopped(p)
    BY <1>2 DEF AcquireStopped
  <1>3. CASE \E p \in Runners : RecheckStopped(p)
    BY <1>3 DEF RecheckStopped
  <1>4. CASE \E p \in Runners : Spawn(p)
    <2>1. PICK p \in Runners : Spawn(p)
      BY <1>4
    <2>2. PICK m \in Rules : m \in todo[p] /\ worker' = [worker EXCEPT ![p][m] = "check"]
      BY <2>1, Zenon DEF Spawn, IsFirst
    <2>3. p = r /\ m = q
      BY <2>2
    <2> QED
      BY <2>1, <2>2, <2>3
  <1>5. CASE BootDone
    BY <1>5 DEF BootDone
  <1>6. CASE BootAborted
    BY <1>6 DEF BootAborted, Return
  <1>7. CASE RunReturns
    BY <1>7 DEF RunReturns, Return
  <1>8. CASE \E g \in Intervals : GroupTick(g)
    BY <1>8 DEF GroupTick
  <1>9. CASE \E g \in Intervals : GroupStopped(g)
    BY <1>9 DEF GroupStopped
  <1>10. CASE \E g \in Intervals : BatchDone(g)
    BY <1>10 DEF BatchDone
  <1>11. CASE \E g \in Intervals : Tick(g)
    BY <1>11 DEF Tick
  <1>12. CASE \E p \in Runners, m \in Rules : WorkerCheck(p, m)
    BY <1>12 DEF WorkerCheck, SetWorker
  <1>13. CASE \E p \in Runners, m \in Rules : WorkerRan(p, m)
    BY <1>13 DEF WorkerRan, SetWorker
  <1>14. CASE \E p \in Runners, m \in Rules : WorkerSend(p, m)
    BY <1>14 DEF WorkerSend, SetWorker
  <1>15. CASE \E p \in Runners, m \in Rules : WorkerRelease(p, m)
    BY <1>15 DEF WorkerRelease, SetWorker
  <1>16. CASE \E p \in Runners, m \in Rules : WorkerFinish(p, m)
    BY <1>16 DEF WorkerFinish, SetWorker
  <1>17. CASE ReceiveResult
    BY <1>17 DEF ReceiveResult
  <1>18. CASE Stop
    BY <1>18 DEF Stop
  <1>19. CASE StopReturns
    BY <1>19 DEF StopReturns
  <1>20. CASE UNCHANGED pluginVars
    BY <1>20 DEF pluginVars
  <1> QED
    BY <1>1, <1>2, <1>3, <1>4, <1>5, <1>6, <1>7, <1>8, <1>9, <1>10, <1>11, <1>12,
       <1>13, <1>14, <1>15, <1>16, <1>17, <1>18, <1>19, <1>20, Zenon
    DEF PluginNext, RunnerStep, MainStep, GroupStep, WorkerStep
-----------------------------------------------------------------------------
\* A rule whose worker is being started has no other worker.
LEMMA SpawnAlone ==
    ASSUME PluginTypes, Control, Work, NEW r \in Runners, NEW q \in Rules, Spawn(r), q \in todo[r]
    PROVE  \A s \in Runners : worker[s][q] = "none"
  <1> SUFFICES ASSUME NEW s \in Runners, worker[s][q] # "none" PROVE FALSE
    OBVIOUS
  <1>1. s # r /\ stage[r] = "recheck" /\ stage[s] \in Busy
    BY DEF Spawn, Work
  <1>2. q \in RulesOf(r) /\ q \in RulesOf(s)
    BY DEF Work
  <1>3. CASE r \in Intervals /\ s \in Intervals
    BY <1>1, <1>2, <1>3, GroupsDisjoint
  <1>4. CASE r = Main \/ s = Main
    BY <1>1, <1>4, RunnerProps DEF Control, Busy
  <1> QED
    BY <1>3, <1>4, RunnerProps

-----------------------------------------------------------------------------
\* The holders do not change when no batch takes or passes on a slot and no
\* worker starts or releases one.
LEMMA SameHolders ==
    ASSUME \A r \in Runners : stage'[r] = "recheck" <=> stage[r] = "recheck",
           \A r \in Runners, q \in Rules : worker'[r][q] \in Holding <=> worker[r][q] \in Holding
    PROVE  Holders' = Holders
  BY DEF Holders, Rules

\* Giving back a slot that is held.
LEMMA GiveBack ==
    ASSUME Slots, NEW h \in Holders, Holders' = Holders \ {h}, slots' = slots - 1
    PROVE  Slots'
  <1>1. IsFiniteSet(Holders') /\ Cardinality(Holders') = Cardinality(Holders) - 1
    BY FS_RemoveElement DEF Slots
  <1>2. Cardinality(Holders') \in Nat
    BY <1>1, FS_CardinalityType
  <1> QED
    BY <1>1, <1>2, PluginAssumption DEF Slots, SlotsAccounted

\* Passing a slot on.
LEMMA HandOver ==
    ASSUME Slots, NEW h \in Holders, NEW k, k \notin Holders \ {h},
           Holders' = (Holders \ {h}) \cup {k}, slots' = slots
    PROVE  Slots'
  <1>1. IsFiniteSet(Holders \ {h}) /\ Cardinality(Holders \ {h}) = Cardinality(Holders) - 1
    BY FS_RemoveElement DEF Slots
  <1>2. IsFiniteSet(Holders') /\ Cardinality(Holders') = Cardinality(Holders \ {h}) + 1
    BY <1>1, FS_AddElement
  <1> QED
    BY <1>1, <1>2, PluginAssumption DEF Slots, SlotsAccounted

\* Every slot stays accounted for.
LEMMA SlotsStep == PluginTypes /\ Control /\ Work /\ Slots /\ [PluginNext]_pluginVars => Slots'
  <1> SUFFICES ASSUME PluginTypes, Control, Work, Slots, [PluginNext]_pluginVars PROVE Slots'
    OBVIOUS
  <1> USE PluginAssumption DEF PluginTypes
  <1>1. ASSUME NEW r \in Runners, Acquire(r) PROVE Slots'
    <2>1. <<r, 0>> \notin Holders /\ Holders' = Holders \cup {<<r, 0>>}
      BY <1>1 DEF Acquire, Holders
    <2>2. IsFiniteSet(Holders') /\ Cardinality(Holders') = Cardinality(Holders) + 1
      BY <2>1, FS_AddElement, Zenon DEF Slots
    <2>3. slots' = slots + 1 /\ slots < Concurrency
      BY <1>1 DEF Acquire
    <2> QED
      BY <2>2, <2>3 DEF Slots, SlotsAccounted
  <1>2. ASSUME NEW r \in Runners, AcquireStopped(r) PROVE Slots'
    BY <1>2, SameHolders DEF AcquireStopped, Holding, Slots, SlotsAccounted
  <1>3. ASSUME NEW r \in Runners, RecheckStopped(r) PROVE Slots'
    <2>1. <<r, 0>> \in Holders /\ Holders' = Holders \ {<<r, 0>>}
      BY <1>3 DEF RecheckStopped, Holders
    <2> QED
      BY <1>3, <2>1, GiveBack, Zenon DEF RecheckStopped
  <1>4. ASSUME NEW r \in Runners, Spawn(r) PROVE Slots'
    <2>1. PICK q \in Rules : /\ q \in todo[r] /\ worker' = [worker EXCEPT ![r][q] = "check"]
                            /\ stage' = [stage EXCEPT ![r] = IF todo[r] = {q} THEN "drain" ELSE "acquire"]
      BY <1>4, Zenon DEF Spawn, IsFirst
    <2>2. worker[r][q] = "none"
      BY <2>1 DEF Work
    <2>3. <<r, 0>> \in Holders /\ <<r, q>> \notin Holders \ {<<r, 0>>}
      BY <1>4, <2>2, RunnerProps, SMTT(30) DEF Spawn, Holders, Holding
    <2>4. Holders' = (Holders \ {<<r, 0>>}) \cup {<<r, q>>}
      BY <1>4, <2>1, <2>2, RunnerProps DEF Spawn, Holders, Holding, Rules
    <2> QED
      BY <1>4, <2>3, <2>4, HandOver, Zenon DEF Spawn
  <1>5. CASE BootDone
    BY <1>5, SameHolders, RunnerProps DEF BootDone, Control, Slots, SlotsAccounted
  <1>6. CASE BootAborted
    BY <1>6, SameHolders DEF BootAborted, Return, Holding, Slots, SlotsAccounted
  <1>7. CASE RunReturns
    BY <1>7, SameHolders DEF RunReturns, Return, Holding, Slots, SlotsAccounted
  <1>8. ASSUME NEW g \in Intervals, GroupTick(g) PROVE Slots'
    BY <1>8, SameHolders DEF GroupTick, Holding, Slots, SlotsAccounted
  <1>9. ASSUME NEW g \in Intervals, GroupStopped(g) PROVE Slots'
    BY <1>9, SameHolders DEF GroupStopped, Holding, Slots, SlotsAccounted
  <1>10. ASSUME NEW g \in Intervals, BatchDone(g) PROVE Slots'
    BY <1>10, SameHolders DEF BatchDone, Holding, Slots, SlotsAccounted
  <1>11. ASSUME NEW g \in Intervals, Tick(g) PROVE Slots'
    BY <1>11, SameHolders DEF Tick, Holding, Slots, SlotsAccounted
  <1>12. ASSUME NEW r \in Runners, NEW q \in Rules, WorkerCheck(r, q) PROVE Slots'
    BY <1>12, SameHolders DEF WorkerCheck, SetWorker, Holding, Slots, SlotsAccounted
  <1>13. ASSUME NEW r \in Runners, NEW q \in Rules, WorkerRan(r, q) PROVE Slots'
    BY <1>13, SameHolders DEF WorkerRan, SetWorker, Holding, Slots, SlotsAccounted
  <1>14. ASSUME NEW r \in Runners, NEW q \in Rules, WorkerSend(r, q) PROVE Slots'
    BY <1>14, SameHolders DEF WorkerSend, SetWorker, Holding, Slots, SlotsAccounted
  <1>15. ASSUME NEW r \in Runners, NEW q \in Rules, WorkerRelease(r, q) PROVE Slots'
    <2>1. <<r, q>> \in Holders /\ Holders' = Holders \ {<<r, q>>}
      BY <1>15, RunnerProps DEF WorkerRelease, SetWorker, Holders, Holding, Rules
    <2> QED
      BY <1>15, <2>1, GiveBack DEF WorkerRelease
  <1>16. ASSUME NEW r \in Runners, NEW q \in Rules, WorkerFinish(r, q) PROVE Slots'
    BY <1>16, SameHolders DEF WorkerFinish, SetWorker, Holding, Slots, SlotsAccounted
  <1>17. CASE ReceiveResult
    BY <1>17, SameHolders DEF ReceiveResult, Holding, Slots, SlotsAccounted
  <1>18. CASE Stop
    BY <1>18, SameHolders DEF Stop, Holding, Slots, SlotsAccounted
  <1>19. CASE StopReturns
    BY <1>19, SameHolders DEF StopReturns, Holding, Slots, SlotsAccounted
  <1>20. CASE UNCHANGED pluginVars
    BY <1>20, SameHolders DEF pluginVars, Slots, SlotsAccounted
  <1> QED
    BY <1>1, <1>2, <1>3, <1>4, <1>5, <1>6, <1>7, <1>8, <1>9, <1>10, <1>11, <1>12,
       <1>13, <1>14, <1>15, <1>16, <1>17, <1>18, <1>19, <1>20, SMTT(30)
    DEF PluginNext, RunnerStep, MainStep, GroupStep, WorkerStep
-----------------------------------------------------------------------------
\* The initial states.
LEMMA InitPluginInv == PluginInit => PluginInv
  <1> SUFFICES ASSUME PluginInit PROVE PluginInv
    OBVIOUS
  <1> USE RunnerProps, PluginAssumption DEF PluginInit
  <1>1. PluginTypes
    BY Zenon DEF PluginTypes, Stages, WorkerStages
  <1>2. Results
    BY DEF Results
  <1>3. Control
    BY DEF Control
  <1>4. Work
    BY DEF Work, RulesOf
  <1>5. Holders = {}
    BY DEF Holders, Holding, Rules
  <1>6. Slots
    BY <1>5, FS_EmptySet DEF Slots, SlotsAccounted
  <1> QED
    BY <1>1, <1>2, <1>3, <1>4, <1>6 DEF PluginInv

\* IInv is an invariant of the scheduler.
THEOREM PluginInvariance == PluginSpec => []PluginInv
  <1>1. PluginInv /\ [PluginNext]_pluginVars => PluginInv'
    BY PluginTypeStep, ResultsStep, ControlStep, WorkStep, SlotsStep DEF PluginInv
  <1> QED
    BY InitPluginInv, <1>1, PTL DEF PluginSpec

\* Every field of the scheduler keeps its type; in particular no more than
\* Concurrency slots are ever taken.
THEOREM PluginTypeCorrect == PluginSpec => []PluginTypeOK
  <1>1. PluginInv => PluginTypeOK
    BY DEF PluginInv, PluginTypes, Results, Slots, PluginTypeOK
  <1> QED
    BY PluginInvariance, <1>1, PTL

\* Every slot of syncChan is held by exactly one worker or batch.
THEOREM SlotsAccountedAlways == PluginSpec => []SlotsAccounted
  <1>1. PluginInv => SlotsAccounted
    BY DEF PluginInv, Slots
  <1> QED
    BY PluginInvariance, <1>1, PTL

\* The result channel is only closed when nobody can send on it and the
\* monitor no longer receives.
THEOREM ClosedIsQuietAlways == PluginSpec => []ClosedIsQuiet
  <1>1. PluginInv => ClosedIsQuiet
    <2> SUFFICES ASSUME PluginInv, resultClosed PROVE ClosedIsQuiet
      BY DEF ClosedIsQuiet
    <2>1. stage[Main] = "exited" /\ stopping /\ consumer # "recv"
      BY RunnerProps DEF PluginInv, Control
    <2>2. \A r \in Runners : stage[r] \in {"off", "exited"}
      BY <2>1, RunnerProps DEF PluginInv, Control
    <2>3. \A r \in Runners : AllFinished(r)
      BY <2>2 DEF PluginInv, Work, Busy, AllFinished
    <2> QED
      BY <2>1, <2>2, <2>3 DEF ClosedIsQuiet
  <1> QED
    BY PluginInvariance, <1>1, PTL

\* A rule never runs concurrently with itself, whatever the intervals, the
\* number of rules and the concurrency.
THEOREM NoOverlapAlways == PluginSpec => NoOverlap
  <1>1. PluginInv /\ [PluginNext]_pluginVars =>
            [\A r \in Runners, q \in Rules :
                worker'[r][q] = "check" /\ worker[r][q] # "check" =>
                    \A s \in Runners : worker[s][q] = "none"]_pluginVars
    BY StartsBySpawn, SpawnAlone DEF PluginInv
  <1> QED
    BY PluginInvariance, <1>1, PTL DEF PluginSpec, NoOverlap

-----------------------------------------------------------------------------
(* CustomPluginMonitor: the invariant of the handling of results *)

\* What the loop holds while it handles a result: a change is made for a
\* permanent rule only, and is in place from the end of Write on.
Handling ==
    /\ pc \in {"write", "metrics", "send"} => result \in Result
    /\ pc \in {"initial", "recv"} => change = None
    /\ pc = "write" => change # None
    /\ change # None => result.perm /\ change = Updated(result)
    /\ pc \in {"metrics", "send"} /\ change # None => conditions[result.type] = change

\* DefaultsRestored at every moment, and not only between two results.
Defaults ==
    \A t \in Types :
        /\ conditions[t].status # "True" => conditions[t].reason = default[t].reason
        /\ conditions[t].status = "False" => conditions[t].message = default[t].message

\* Condition t has been stored, but its gauge has not been set for it yet.
GaugeDue(t) == pc = "metrics" /\ change # None /\ result.type = t

\* Only the gauge of the last reason can be 1, and unless it is due it tells the
\* condition.
Gauges ==
    metrics =>
        /\ \A g \in gauge : g[2] = lastReason[g[1]]
        /\ \A t \in Types, r \in Reasons :
              ~GaugeDue(t) =>
                  (<<t, r>> \in gauge <=> conditions[t].status = "True" /\ conditions[t].reason = r)

\* Unless messages count as changes, a condition is only written as True when the
\* gauge of its new reason is still 0.
Rising ==
    metrics /\ ~byMessage /\ pc \in {"write", "metrics"} /\ change # None /\ change.status = "True"
        => <<result.type, change.reason>> \notin gauge

\* With nothing left in the channel and nothing being handled, the copies made
\* since the last status are exact, if conditions are exported.
Copies ==
    pc = "recv" /\ statusChan = <<>> /\ updateConditions =>
        /\ reading # 0 => seen = {conditions[reading]}
        /\ \A t \in Types : reading = 0 \/ t < reading =>
              \/ exported[t] = conditions[t]
              \/ exported[t] = None /\ conditions[t] = initialConditions(t)

\* The event at place i of a channel is about condition t.
IsAbout(chan, i, t) == chan[i] # None /\ chan[i].type = t

\* The last event about condition t in a channel or, if there is none, the one
\* that was sent on, says that the condition is c; it was d before any event.
LastSays(chan, t, before, c, d) ==
    \/ \E i \in 1..Len(chan) :
          /\ IsAbout(chan, i, t) /\ chan[i].now = c
          /\ \A j \in (i + 1)..Len(chan) : ~IsAbout(chan, j, t)
    \/ /\ \A i \in 1..Len(chan) : ~IsAbout(chan, i, t)
       /\ before = c \/ (before = None /\ c = d)

\* Condition t has been stored, but the event about it has not been sent yet.
EventDue(t) == pc \in {"metrics", "send"} /\ change # None /\ result.type = t

\* Unless one is due, the last event about a condition says what the condition is, if
\* events are exported.
Events ==
    \A t \in Types : writeEvents /\ ~EventDue(t) =>
        LastSays(statusChan, t, told[t], conditions[t], initialConditions(t))

\* The inductive invariant.
IInv == TypeOK /\ Handling /\ Defaults /\ Gauges /\ Rising /\ Copies /\ Events
-----------------------------------------------------------------------------
\* Updated yields a condition.
LEMMA UpdatedType == TypeOK => \A r \in Result : Updated(r) \in Condition
  BY DEF TypeOK, Result, Condition, Updated, Cleared, toConditionStatus

\* A condition that Updated makes True carries the rule's reason; any other one
\* carries the defaults, as far as DefaultsRestored asks.
LEMMA UpdatedDefaults ==
    ASSUME NEW r \in Result
    PROVE  /\ Updated(r).status = "True" => Updated(r).reason = r.reason
           /\ Updated(r).status = "True" <=> toConditionStatus(r.exit) = "True"
           /\ Updated(r).status # "True" => Updated(r).reason = default[r.type].reason
           /\ Updated(r).status = "False" => Updated(r).message = default[r.type].message
  BY SMTT(30) DEF Result, Updated, Cleared, toConditionStatus

\* The configuration is fixed, and what is computed from it.
LEMMA ConfigFixed ==
    [Next]_vars => /\ default' = default /\ byMessage' = byMessage /\ metrics' = metrics
                   /\ writeEvents' = writeEvents /\ updateConditions' = updateConditions
                   /\ \A r : Updated(r)' = Updated(r)
                   /\ \A t : initialConditions(t)' = initialConditions(t)
  <1> SUFFICES ASSUME [Next]_vars PROVE config' = config
    BY DEF config, Updated, Cleared, initialConditions
  <1> QED
    BY SMTT(30) DEF Next, vars, sendInitialStatus, Receive, Write, Metrics, Send,
           ExportEvents, ExportCondition

\* Adding one modulo M, with M at least 2, changes a number below M.
LEMMA AddOneChanges ==
    ASSUME NEW M \in Nat \ {0, 1}, NEW x \in 0..(M - 1)
    PROVE  (x + 1) % M # x /\ (x + 1) % M \in 0..(M - 1)
  OBVIOUS

\* What Append does to a channel, whatever is appended.
LEMMA AppendFacts ==
    ASSUME NEW S, NEW s \in Seq(S), NEW e
    PROVE  /\ Append(s, e) # <<>>
           /\ Len(Append(s, e)) = Len(s) + 1
           /\ \A i \in 1..Len(s) : Append(s, e)[i] = s[i]
           /\ Append(s, e)[Len(s) + 1] = e
  <1>1. s \in Seq(S \cup {e})
    BY SeqMonotonic
  <1> QED
    BY <1>1, AppendProperties

\* Another event does not change what the last event about a condition says,
LEMMA SaysOther ==
    ASSUME NEW S, NEW chan \in Seq(S), NEW e, NEW t, e = None \/ e.type # t,
           NEW before, NEW c, NEW d, LastSays(chan, t, before, c, d)
    PROVE  LastSays(Append(chan, e), t, before, c, d)
  <1> DEFINE more == Append(chan, e)
             n == Len(chan)
  <1>1. /\ n \in Nat /\ Len(more) = n + 1 /\ more[n + 1] = e
        /\ \A i \in 1..n : more[i] = chan[i]
    BY AppendFacts, LenProperties
  <1> HIDE DEF more, n
  <1>2. /\ \A i \in 1..(n + 1) : i \in 1..n \/ i = n + 1
        /\ \A i \in 1..n : i \in 1..(n + 1)
        /\ \A i \in 1..n : \A j \in (i + 1)..(n + 1) : j \in (i + 1)..n \/ j = n + 1
        /\ \A i \in 1..n : \A j \in (i + 1)..n : j \in 1..n
    BY <1>1
  <1>3. ~IsAbout(more, n + 1, t) /\ \A i \in 1..n : IsAbout(more, i, t) <=> IsAbout(chan, i, t)
    BY <1>1, Zenon DEF IsAbout
  <1>4. ASSUME NEW i \in 1..n, IsAbout(chan, i, t), chan[i].now = c,
               \A j \in (i + 1)..n : ~IsAbout(chan, j, t)
        PROVE  LastSays(more, t, before, c, d)
    <2>1. /\ i \in 1..Len(more) /\ IsAbout(more, i, t) /\ more[i].now = c
          /\ \A j \in (i + 1)..Len(more) : ~IsAbout(more, j, t)
      BY <1>1, <1>2, <1>3, <1>4, Zenon
    <2> QED
      BY <2>1, Zenon DEF LastSays
  <1>5. ASSUME \A i \in 1..n : ~IsAbout(chan, i, t), before = c \/ (before = None /\ c = d)
        PROVE  LastSays(more, t, before, c, d)
    <2>1. \A i \in 1..Len(more) : ~IsAbout(more, i, t)
      BY <1>1, <1>2, <1>3, <1>5, Zenon
    <2> QED
      BY <1>5, <2>1, Zenon DEF LastSays
  <1> QED
    BY <1>4, <1>5, Zenon DEF LastSays, more, n

\* an event about it says what it is,
LEMMA SaysNew ==
    ASSUME NEW S, NEW chan \in Seq(S), NEW e, NEW t, e # None, e.type = t,
           NEW before, NEW c, e.now = c, NEW d
    PROVE  LastSays(Append(chan, e), t, before, c, d)
  <1> DEFINE more == Append(chan, e)
             n == Len(chan)
  <1>1. n \in Nat /\ Len(more) = n + 1 /\ more[n + 1] = e
    BY AppendFacts, LenProperties
  <1> HIDE DEF more, n
  <1>2. n + 1 \in 1..(n + 1) /\ \A j : j \notin (n + 1 + 1)..(n + 1)
    BY <1>1
  <1>3. IsAbout(more, n + 1, t) /\ more[n + 1].now = c
    BY <1>1, Zenon DEF IsAbout
  <1> QED
    BY <1>1, <1>2, <1>3, Zenon DEF LastSays, more

\* and an event that leaves the channel is sent on.
LEMMA SaysTail ==
    ASSUME NEW S, NEW chan \in Seq(S), chan # <<>>, NEW t, NEW before, NEW c, NEW d,
           LastSays(chan, t, before, c, d)
    PROVE  LastSays(Tail(chan), t, IF IsAbout(chan, 1, t) THEN chan[1].now ELSE before, c, d)
  <1> DEFINE rest == Tail(chan)
             n == Len(chan)
             on == IF IsAbout(chan, 1, t) THEN chan[1].now ELSE before
  <1>1. /\ n \in Nat /\ n >= 1 /\ Len(rest) = n - 1
        /\ \A i \in 1..(n - 1) : rest[i] = chan[i + 1]
    BY HeadTailProperties, LenProperties, EmptySeq
  <1>0. /\ IsAbout(chan, 1, t) => on = chan[1].now
        /\ ~IsAbout(chan, 1, t) => on = before
    BY Zenon
  <1> HIDE DEF rest, n, on
  <1>2. /\ \A i \in 1..(n - 1) : i + 1 \in 1..n
        /\ \A i \in 1..n : i # 1 => i - 1 \in 1..(n - 1) /\ i - 1 + 1 = i
        /\ 1 \in 1..n
        /\ \A i \in 1..n : \A j \in (i - 1 + 1)..(n - 1) : j \in 1..(n - 1) /\ j + 1 \in (i + 1)..n
        /\ \A j \in 1..(n - 1) : j + 1 \in (1 + 1)..n
    BY <1>1
  <1>3. \A i \in 1..(n - 1) : IsAbout(rest, i, t) <=> IsAbout(chan, i + 1, t)
    BY <1>1, Zenon DEF IsAbout
  <1>4. ASSUME NEW i \in 1..n, i # 1, IsAbout(chan, i, t), chan[i].now = c,
               \A j \in (i + 1)..n : ~IsAbout(chan, j, t)
        PROVE  LastSays(rest, t, on, c, d)
    <2> DEFINE k == i - 1
    <2>1. k \in 1..(n - 1) /\ k + 1 = i
      BY <1>2, <1>4, Zenon
    <2>2. \A j \in (k + 1)..(n - 1) : j \in 1..(n - 1) /\ j + 1 \in (i + 1)..n
      BY <1>2, Zenon
    <2> HIDE DEF k
    <2>3. IsAbout(rest, k, t) /\ rest[k].now = c
      BY <1>1, <1>3, <1>4, <2>1, Zenon
    <2>4. \A j \in (k + 1)..(n - 1) : ~IsAbout(rest, j, t)
      BY <1>3, <1>4, <2>2, Zenon
    <2> QED
      BY <1>1, <2>1, <2>3, <2>4, Zenon DEF LastSays
  <1>5. ASSUME \A j \in (1 + 1)..n : ~IsAbout(chan, j, t), on = c \/ (on = None /\ c = d)
        PROVE  LastSays(rest, t, on, c, d)
    <2>1. \A i \in 1..Len(rest) : ~IsAbout(rest, i, t)
      BY <1>1, <1>2, <1>3, <1>5, Zenon
    <2> QED
      BY <1>5, <2>1, Zenon DEF LastSays
  <1>6. ASSUME \E i \in 1..n : /\ IsAbout(chan, i, t) /\ chan[i].now = c
                               /\ \A j \in (i + 1)..n : ~IsAbout(chan, j, t)
        PROVE  LastSays(rest, t, on, c, d)
    <2>1. PICK i \in 1..n : /\ IsAbout(chan, i, t) /\ chan[i].now = c
                            /\ \A j \in (i + 1)..n : ~IsAbout(chan, j, t)
      BY <1>6, Zenon
    <2>2. CASE i = 1
      BY <1>0, <1>5, <2>1, <2>2
    <2>3. CASE i # 1
      BY <1>4, <2>1, <2>3, Zenon
    <2> QED
      BY <2>2, <2>3, Zenon
  <1>7. ASSUME \A i \in 1..n : ~IsAbout(chan, i, t), before = c \/ (before = None /\ c = d)
        PROVE  LastSays(rest, t, on, c, d)
    <2>1. \A j \in (1 + 1)..n : j \in 1..n
      BY <1>1
    <2> QED
      BY <1>0, <1>2, <1>5, <1>7, <2>1, Zenon
  <1> QED
    BY <1>6, <1>7, Zenon DEF LastSays, rest, n, on

\* The event a status carries: the change in hand, if there is one.
Sent == IF change = None THEN None ELSE [type |-> result.type, now |-> change]

\* A status is put into the channel.
LEMMA NotEmpty ==
    ASSUME TypeOK, NEW e, statusChan' = Append(statusChan, e)
    PROVE  statusChan' # <<>>
  BY AppendFacts, Zenon DEF TypeOK

\* A channel keeps its type and its capacity when something is put in or taken out.
LEMMA Appended ==
    ASSUME NEW S, NEW s \in Seq(S), NEW e \in S, NEW cap \in Nat, Len(s) < cap
    PROVE  Append(s, e) \in Seq(S) /\ Len(Append(s, e)) <= cap
  BY AppendProperties, LenProperties

LEMMA Taken ==
    ASSUME NEW S, NEW s \in Seq(S), s # <<>>, NEW cap \in Nat, Len(s) <= cap
    PROVE  Head(s) \in S /\ Tail(s) \in Seq(S) /\ Len(Tail(s)) <= cap
  BY HeadTailProperties, LenProperties

LEMMA HeadIsFirst ==
    ASSUME NEW S, NEW s \in Seq(S), s # <<>>
    PROVE  Head(s) = s[1]
  OBVIOUS

\* The order in which the conditions are copied.
LEMMA TypesOrder ==
    /\ \A t \in Types : ~(t < 1) /\ t # 0 /\ t \in Nat /\ t \in 0..NumConditions
    /\ 1 # 0 /\ 0 \in 0..NumConditions /\ (1 \notin Types => Types = {})
    /\ \A t \in 0..NumConditions : t # 0 => t \in Types
    /\ \A t \in Types : /\ t + 1 # 0
                        /\ \A u \in Types : u < t + 1 => u < t \/ u = t
                        /\ t + 1 \notin Types => \A u \in Types : u < t \/ u = t
  BY ConstantsAssumption DEF Types

\* The copy of a condition starts with what is in memory.
LEMMA CopyTypes ==
    ASSUME TypeOK, Handling, NEW t, CopyFrom(t)
    PROVE  reading' \in 0..NumConditions /\ seen' \in SUBSET Condition
  <1>1. CASE t \in Types
    <2>1. reading' = t /\ seen' = InMemory(t)
      BY <1>1, Zenon DEF CopyFrom
    <2>2. conditions[t] \in Condition /\ (pc = "write" => change \in Condition)
      BY <1>1, Zenon DEF TypeOK, Handling
    <2>3. InMemory(t) \in SUBSET Condition
      BY <2>2, Zenon DEF InMemory
    <2> QED
      BY <1>1, <2>1, <2>3, TypesOrder, Zenon
  <1>2. CASE t \notin Types
    <2>1. reading' = 0 /\ seen' = {}
      BY <1>2, Zenon DEF CopyFrom
    <2> QED
      BY <2>1, TypesOrder, Zenon
  <1> QED
    BY <1>1, <1>2, Zenon

\* A condition is made of its fields.
LEMMA ConditionFields ==
    \A a \in Condition : [status |-> a.status, reason |-> a.reason, message |-> a.message] = a
  BY DEF Condition

-----------------------------------------------------------------------------
\* What the monitor starts with.
LEMMA InitInv == Init => IInv
  <1> SUFFICES ASSUME Init PROVE IInv
    OBVIOUS
  <1> USE ConstantsAssumption DEF Init
  <1>1. TypeOK
    <2>1. conditions \in [Types -> Condition]
      BY Zenon DEF initialConditions, Condition
    <2>2. /\ byMessage \in BOOLEAN /\ metrics \in BOOLEAN
          /\ writeEvents \in BOOLEAN /\ updateConditions \in BOOLEAN
          /\ lastReason \in [Types -> Reasons \cup {None}]
      BY Zenon
    <2>3. counter \in [Reasons -> 0..(CountModulus - 1)]
      <3>1. 0 \in 0..(CountModulus - 1)
        BY DEF ConstantsAssumption
      <3> QED
        BY <3>1, Zenon
    <2>4. statusChan \in Seq(ChangeEvent \cup {None}) /\ Len(statusChan) <= StatusCap
      <3>1. 0 <= StatusCap
        OBVIOUS
      <3> QED
        BY <3>1, EmptySeq, Zenon
    <2>5. reading \in 0..NumConditions
      OBVIOUS
    <2> QED
      BY <2>1, <2>2, <2>3, <2>4, <2>5, Zenon DEF TypeOK
  <1>2. Handling /\ Rising
    BY SMTT(30) DEF Handling, Rising
  <1>3. Defaults /\ Gauges
    BY DEF Defaults, Gauges, initialConditions
  <1>4. Copies /\ Events
    <2>1. Len(<<>>) = 0 /\ \A i : i \notin 1..0
      OBVIOUS
    <2>2. \A t : LastSays(<<>>, t, None, initialConditions(t), initialConditions(t))
      BY <2>1, Zenon DEF LastSays
    <2>3. \A t \in Types : /\ told[t] = None /\ exported[t] = None
                          /\ conditions[t] = initialConditions(t)
      BY Zenon
    <2> QED
      BY <2>2, <2>3, Zenon DEF Copies, Events
  <1> QED
    BY <1>1, <1>2, <1>3, <1>4 DEF IInv

\* Every variable keeps its type.
LEMMA TypeStep == TypeOK /\ Handling /\ [Next]_vars => TypeOK'
  <1> SUFFICES ASSUME TypeOK, Handling, [Next]_vars PROVE TypeOK'
    OBVIOUS
  <1> USE ConstantsAssumption, NoneAssumption, UpdatedType
      DEF TypeOK, config, monitor, measures, exporter
  <1>0. StatusCap \in Nat
    BY Zenon
  <1>1. CASE sendInitialStatus
    <2>1. statusChan' \in Seq(ChangeEvent \cup {None}) /\ Len(statusChan') <= StatusCap
      <3>1. /\ None \in ChangeEvent \cup {None} /\ statusChan' = Append(statusChan, None)
            /\ Len(statusChan) < StatusCap
        BY <1>1, Zenon DEF sendInitialStatus
      <3> QED
        BY <1>0, <3>1, Appended, Zenon
    <2> QED
      BY <1>1, <2>1, Zenon DEF sendInitialStatus
  <1>2. ASSUME NEW r \in Result, Receive(r) PROVE TypeOK'
    <2>1. change' \in Condition \cup {None} /\ seen' \in SUBSET Condition
      <3>1. Updated(r) \in Condition
        BY UpdatedType, Zenon
      <3>2. change' \in {Updated(r), None} /\ seen' \in {seen, seen \cup {Updated(r)}}
        BY <1>2, Zenon DEF Receive
      <3> QED
        BY <3>1, <3>2, Zenon
    <2>2. pc' \in {"initial", "recv", "write", "metrics", "send"}
      BY <1>2, Zenon DEF Receive
    <2> QED
      BY <1>2, <2>1, <2>2, Zenon DEF Receive
  <1>3. CASE Write
    <2>1. change \in Condition /\ result.type \in Types
      BY <1>3, Zenon DEF Write, Handling, Result
    <2>2. conditions' \in [Types -> Condition]
      BY <1>3, <2>1, ZenonT(30) DEF Write
    <2> QED
      BY <1>3, <2>2, Zenon DEF Write
  <1>4. CASE Metrics
    <2>1. counter' \in [Reasons -> 0..(CountModulus - 1)]
      <3>1. result.reason \in Reasons
        BY <1>4, Zenon DEF Metrics, Handling, Result
      <3>2. (counter[result.reason] + 1) % CountModulus \in 0..(CountModulus - 1)
        BY <3>1, AddOneChanges, Zenon
      <3> QED
        BY <1>4, <3>1, <3>2, Zenon DEF Metrics
    <2>2. gauge' \in SUBSET (Types \X Reasons) /\ lastReason' \in [Types -> Reasons \cup {None}]
      <3>1. \A t \in Types : conditions[t].reason \in Reasons
        BY Zenon DEF Condition
      <3>2. CASE SetGauges
        BY <3>1, <3>2, Zenon DEF SetGauges
      <3>3. CASE UNCHANGED measures
        BY <3>3, Zenon
      <3> QED
        BY <1>4, <3>2, <3>3, Zenon DEF Metrics
    <2> QED
      BY <1>4, <2>1, <2>2, Zenon DEF Metrics
  <1>5. CASE Send
    <2>1. Sent \in ChangeEvent \cup {None}
      BY <1>5, Zenon DEF Send, Handling, Result, ChangeEvent, Sent
    <2>2. statusChan' = Append(statusChan, Sent) /\ Len(statusChan) < StatusCap
      BY <1>5, Zenon DEF Send, Sent
    <2>3. statusChan' \in Seq(ChangeEvent \cup {None}) /\ Len(statusChan') <= StatusCap
      BY <1>0, <2>1, <2>2, Appended, Zenon
    <2> QED
      BY <1>5, <2>3, Zenon DEF Send
  <1>6. CASE ExportEvents
    <2>1. Head(statusChan) \in ChangeEvent \cup {None} /\ statusChan' \in Seq(ChangeEvent \cup {None})
             /\ Len(statusChan') <= StatusCap
      BY <1>0, <1>6, Taken, Zenon DEF ExportEvents
    <2>2. told' \in [Types -> Condition \cup {None}]
      BY <1>6, <2>1, Zenon DEF ExportEvents, ChangeEvent
    <2>3. reading' \in 0..NumConditions /\ seen' \in SUBSET Condition
      <3>1. CASE CopyFrom(1)
        BY <3>1, CopyTypes, Zenon
      <3>2. CASE UNCHANGED <<reading, seen>>
        BY <3>2, Zenon
      <3> QED
        BY <1>6, <3>1, <3>2, Zenon DEF ExportEvents
    <2> QED
      BY <1>6, <2>1, <2>2, <2>3, Zenon DEF ExportEvents
  <1>7. CASE ExportCondition
    <2>1. exported' \in [Types -> Condition \cup {None}]
      <3>1. PICK a, b, c \in seen : exported' = [exported EXCEPT ![reading] =
               [status |-> a.status, reason |-> b.reason, message |-> c.message]]
        BY <1>7, Zenon DEF ExportCondition
      <3>2. a \in Condition /\ b \in Condition /\ c \in Condition
        BY Zenon
      <3>3. [status |-> a.status, reason |-> b.reason, message |-> c.message] \in Condition
        BY <3>2, Zenon DEF Condition
      <3> QED
        BY <3>1, <3>3, Zenon
    <2>2. reading' \in 0..NumConditions /\ seen' \in SUBSET Condition
      BY <1>7, CopyTypes, Zenon DEF ExportCondition
    <2> QED
      BY <1>7, <2>1, <2>2, Zenon DEF ExportCondition
  <1>8. CASE UNCHANGED vars
    BY <1>8, Zenon DEF vars
  <1> QED
    BY <1>1, <1>2, <1>3, <1>4, <1>5, <1>6, <1>7, <1>8, Zenon DEF Next

\* The loop keeps to its order: a change belongs to the result in hand.
LEMMA HandlingStep == TypeOK /\ Handling /\ [Next]_vars => Handling'
  <1> SUFFICES ASSUME TypeOK, Handling, [Next]_vars PROVE Handling'
    OBVIOUS
  <1> USE ConfigFixed DEF Handling, monitor, exporter
  <1>1. CASE sendInitialStatus
    BY <1>1, Zenon DEF sendInitialStatus
  <1>2. ASSUME NEW r \in Result, Receive(r) PROVE Handling'
    <2>1. Updated(r) # None
      BY UpdatedType, NoneAssumption, Zenon
    <2> QED
      BY <1>2, <2>1, ZenonT(30) DEF Receive
  <1>3. CASE Write
    BY <1>3, Zenon DEF Write, TypeOK, Result
  <1>4. CASE Metrics
    BY <1>4, Zenon DEF Metrics
  <1>5. CASE Send
    BY <1>5, Zenon DEF Send
  <1>6. CASE ExportEvents
    BY <1>6, Zenon DEF ExportEvents
  <1>7. CASE ExportCondition
    BY <1>7, Zenon DEF ExportCondition
  <1>8. CASE UNCHANGED vars
    BY <1>8, Zenon DEF vars
  <1> QED
    BY <1>1, <1>2, <1>3, <1>4, <1>5, <1>6, <1>7, <1>8, Zenon DEF Next

\* Only Write changes a condition, and what it stores obeys the defaults.
LEMMA DefaultsStep == TypeOK /\ Handling /\ Defaults /\ [Next]_vars => Defaults'
  <1> SUFFICES ASSUME TypeOK, Handling, Defaults, [Next]_vars PROVE Defaults'
    OBVIOUS
  <1>1. CASE Write
    <2>1. change = Updated(result) /\ result \in Result
      BY <1>1 DEF Write, Handling
    <2>2. /\ change.status # "True" => change.reason = default[result.type].reason
          /\ change.status = "False" => change.message = default[result.type].message
      BY <2>1, UpdatedDefaults
    <2> QED
      BY <1>1, <2>2, ConfigFixed, Zenon DEF Write, Defaults, TypeOK
  <1>2. CASE conditions' = conditions
    BY <1>2, ConfigFixed DEF Defaults
  <1> QED
    BY <1>1, <1>2, Zenon DEF Next, vars, monitor, sendInitialStatus, Receive, Metrics, Send,
                      ExportEvents, ExportCondition

\* Setting the gauges clears the reason each was last set for, so none is left
\* behind when a condition changes its reason.
LEMMA SetGaugesExact ==
    TypeOK /\ Gauges /\ metrics /\ SetGauges =>
        \A t \in Types, r \in Reasons :
            <<t, r>> \in gauge' <=> conditions[t].status = "True" /\ conditions[t].reason = r
  BY Zenon DEF TypeOK, Gauges, SetGauges

\* The gauges follow the conditions.
LEMMA GaugesStep == TypeOK /\ Handling /\ Gauges /\ [Next]_vars => Gauges'
  <1> SUFFICES ASSUME TypeOK, Handling, Gauges, [Next]_vars PROVE Gauges'
    OBVIOUS
  <1> USE ConfigFixed DEF Gauges, GaugeDue, monitor, measures, exporter
  <1>1. CASE sendInitialStatus
    BY <1>1, Zenon DEF sendInitialStatus, Handling
  <1>2. ASSUME NEW r \in Result, Receive(r) PROVE Gauges'
    BY <1>2, Zenon DEF Receive, Handling
  <1>3. CASE Write
    BY <1>3, Zenon DEF Write, Handling, TypeOK
  <1>4. CASE Metrics
    <2> SUFFICES ASSUME metrics PROVE Gauges'
      BY <1>4, Zenon
    <2>1. SetGauges
      BY <1>4, Zenon DEF Metrics
    <2>2. \A t \in Types, r \in Reasons :
            <<t, r>> \in gauge' <=> conditions[t].status = "True" /\ conditions[t].reason = r
      BY <2>1, SetGaugesExact, Zenon
    <2>3. \A g \in gauge' : g[2] = lastReason'[g[1]]
      BY <2>1, Zenon DEF SetGauges, TypeOK
    <2> QED
      BY <1>4, <2>2, <2>3, Zenon DEF Metrics
  <1>5. CASE Send
    BY <1>5, Zenon DEF Send
  <1>6. CASE ExportEvents
    BY <1>6, Zenon DEF ExportEvents
  <1>7. CASE ExportCondition
    BY <1>7, Zenon DEF ExportCondition
  <1>8. CASE UNCHANGED vars
    BY <1>8, Zenon DEF vars
  <1> QED
    BY <1>1, <1>2, <1>3, <1>4, <1>5, <1>6, <1>7, <1>8, Zenon DEF Next

\* A change to True is a change of status or of reason: its gauge is still 0.
LEMMA RisingStep == TypeOK /\ Handling /\ Gauges /\ Rising /\ [Next]_vars => Rising'
  <1> SUFFICES ASSUME TypeOK, Handling, Gauges, Rising, [Next]_vars PROVE Rising'
    OBVIOUS
  <1> USE ConfigFixed DEF Rising, monitor, measures, exporter
  <1>1. CASE sendInitialStatus
    BY <1>1 DEF sendInitialStatus
  <1>2. ASSUME NEW r \in Result, Receive(r) PROVE Rising'
    <2>1. ASSUME metrics, ~byMessage, needToUpdateCondition(r), Updated(r).status = "True"
          PROVE  <<r.type, Updated(r).reason>> \notin gauge
      <3>1. Updated(r).reason = r.reason /\ toConditionStatus(r.exit) = "True"
        BY <2>1, UpdatedDefaults, Zenon
      <3>2. conditions[r.type].status # "True" \/ conditions[r.type].reason # r.reason
        BY <2>1, <3>1, Zenon DEF needToUpdateCondition
      <3>3. r.type \in Types /\ r.reason \in Reasons /\ ~GaugeDue(r.type)
        BY <1>2 DEF Result, GaugeDue, Receive
      <3> QED
        BY <2>1, <3>1, <3>2, <3>3, Zenon DEF Gauges
    <2>2. CASE r.perm /\ needToUpdateCondition(r)
      <3> SUFFICES ASSUME metrics', ~byMessage', change'.status = "True"
                   PROVE  <<result'.type, change'.reason>> \notin gauge'
        BY Zenon
      <3>1. metrics /\ ~byMessage
        BY <1>2, ConfigFixed, Zenon DEF TypeOK
      <3>2. result' = r /\ change' = Updated(r) /\ gauge' = gauge
        BY <1>2, <2>2 DEF Receive
      <3> QED
        BY <2>1, <2>2, <3>1, <3>2, Zenon
    <2>3. CASE ~(r.perm /\ needToUpdateCondition(r))
      BY <1>2, <2>3, Zenon DEF Receive
    <2> QED
      BY <2>2, <2>3
  <1>3. CASE Write
    BY <1>3, Zenon DEF Write
  <1>4. CASE Metrics
    BY <1>4, Zenon DEF Metrics
  <1>5. CASE Send
    BY <1>5, Zenon DEF Send
  <1>6. CASE ExportEvents
    BY <1>6, Zenon DEF ExportEvents
  <1>7. CASE ExportCondition
    BY <1>7, Zenon DEF ExportCondition
  <1>8. CASE UNCHANGED vars
    BY <1>8, Zenon DEF vars
  <1> QED
    BY <1>1, <1>2, <1>3, <1>4, <1>5, <1>6, <1>7, <1>8, Zenon DEF Next

\* A status is put into the channel after the condition it follows is stored, so
\* the copies made for the last status find every condition at rest.
LEMMA CopiesStep == TypeOK /\ Copies /\ [Next]_vars => Copies'
  <1> SUFFICES ASSUME TypeOK, Copies, [Next]_vars PROVE Copies'
    OBVIOUS
  <1> USE ConfigFixed, ConstantsAssumption DEF Copies, monitor, measures, exporter
  <1>1. CASE sendInitialStatus
    BY <1>1, NotEmpty, Zenon DEF sendInitialStatus
  <1>2. ASSUME NEW r \in Result, Receive(r) PROVE Copies'
    BY <1>2, Zenon DEF Receive
  <1>3. CASE Write
    BY <1>3 DEF Write
  <1>4. CASE Metrics
    BY <1>4, Zenon DEF Metrics
  <1>5. CASE Send
    BY <1>5, NotEmpty, Zenon DEF Send
  <1>6. CASE ExportEvents
    <2> SUFFICES ASSUME pc = "recv", updateConditions
                 PROVE  /\ reading' # 0 => seen' = {conditions[reading']}
                        /\ \A t \in Types : ~(reading' = 0 \/ t < reading')
      BY <1>6, Zenon DEF ExportEvents
    <2>1. CASE 1 \in Types
      <3>1. reading' = 1 /\ seen' = InMemory(1) /\ UNCHANGED conditions
        BY <1>6, <2>1, Zenon DEF ExportEvents, CopyFrom
      <3> QED
        BY <3>1, TypesOrder, Zenon DEF InMemory
    <2>2. CASE 1 \notin Types
      BY <1>6, <2>2, TypesOrder, Zenon DEF ExportEvents, CopyFrom
    <2> QED
      BY <2>1, <2>2
  <1>7. CASE ExportCondition
    <2> SUFFICES ASSUME pc = "recv", statusChan = <<>>, updateConditions
                 PROVE  /\ reading' # 0 => seen' = {conditions[reading']}
                        /\ \A t \in Types : reading' = 0 \/ t < reading' =>
                              \/ exported'[t] = conditions[t]
                              \/ exported'[t] = None /\ conditions[t] = initialConditions(t)
      BY <1>7, Zenon DEF ExportCondition
    <2>1. reading \in Types /\ seen = {conditions[reading]} /\ conditions[reading] \in Condition
      <3>1. reading \in Types
        BY <1>7, TypesOrder, Zenon DEF ExportCondition, TypeOK
      <3> QED
        BY <1>7, <3>1, Zenon DEF ExportCondition, TypeOK
    <2>2. exported' = [exported EXCEPT ![reading] = conditions[reading]]
      BY <1>7, <2>1, ConditionFields, Zenon DEF ExportCondition
    <2>3. \A t \in Types : exported'[t] = IF t = reading THEN conditions[t] ELSE exported[t]
      BY <2>1, <2>2, Zenon DEF TypeOK
    <2>4. \A t \in Types : t < reading =>
             exported[t] = conditions[t] \/ (exported[t] = None /\ conditions[t] = initialConditions(t))
      BY Zenon
    <2>5. CASE reading + 1 \in Types
      <3>1. reading' = reading + 1 /\ seen' = {conditions[reading']}
        BY <1>7, <2>5, Zenon DEF ExportCondition, CopyFrom, InMemory
      <3> QED
        BY <2>1, <2>3, <2>4, <3>1, TypesOrder, Zenon
    <2>6. CASE reading + 1 \notin Types
      <3>1. reading' = 0 /\ \A t \in Types : t < reading \/ t = reading
        BY <1>7, <2>1, <2>6, TypesOrder, Zenon DEF ExportCondition, CopyFrom
      <3> QED
        BY <2>3, <2>4, <3>1, Zenon
    <2> QED
      BY <2>5, <2>6, Zenon
  <1>8. CASE UNCHANGED vars
    BY <1>8, Zenon DEF vars
  <1> QED
    BY <1>1, <1>2, <1>3, <1>4, <1>5, <1>6, <1>7, <1>8, Zenon DEF Next

\* Events leave the channel in the order they were sent in, one for every change.
LEMMA EventsStep == TypeOK /\ Handling /\ Events /\ [Next]_vars => Events'
  <1> SUFFICES ASSUME TypeOK, Handling, Events, [Next]_vars PROVE Events'
    OBVIOUS
  <1>0. /\ statusChan \in Seq(ChangeEvent \cup {None}) /\ \A t : initialConditions(t)' = initialConditions(t)
        /\ \A t \in Types : writeEvents /\ ~EventDue(t) =>
              LastSays(statusChan, t, told[t], conditions[t], initialConditions(t))
    BY ConfigFixed, Zenon DEF TypeOK, Events
  <1> SUFFICES ASSUME writeEvents, NEW t \in Types, ~EventDue(t)'
               PROVE  LastSays(statusChan', t, told'[t], conditions'[t], initialConditions(t))
    BY <1>0, ConfigFixed, Zenon DEF Events
  <1> USE DEF monitor, measures, exporter
  <1>1. CASE sendInitialStatus
    <2>1. /\ statusChan' = Append(statusChan, None) /\ UNCHANGED <<told, conditions>>
          /\ ~EventDue(t)
      BY <1>1, Zenon DEF sendInitialStatus, EventDue
    <2> QED
      BY <1>0, <2>1, SaysOther, Zenon
  <1>2. ASSUME NEW r \in Result, Receive(r)
        PROVE  LastSays(statusChan', t, told'[t], conditions'[t], initialConditions(t))
    BY <1>0, <1>2, Zenon DEF Receive, EventDue
  <1>3. CASE Write
    <2>1. ~EventDue(t) /\ conditions'[t] = conditions[t] /\ UNCHANGED <<statusChan, told>>
      BY <1>3, Zenon DEF Write, Handling, TypeOK, EventDue
    <2> QED
      BY <1>0, <2>1, Zenon
  <1>4. CASE Metrics
    BY <1>0, <1>4, Zenon DEF Metrics, EventDue
  <1>5. CASE Send
    <2>1. /\ statusChan' = Append(statusChan, Sent) /\ UNCHANGED <<told, conditions>>
      BY <1>5, Zenon DEF Send, Sent
    <2>2. CASE EventDue(t)
      <3>1. Sent = [type |-> t, now |-> change] /\ conditions[t] = change /\ change \in Condition
        BY <1>5, <2>2, Zenon DEF Send, Sent, Handling, EventDue, TypeOK
      <3>2. Sent \in ChangeEvent
        BY <3>1, Zenon DEF ChangeEvent
      <3>3. Sent # None /\ Sent.type = t /\ Sent.now = conditions[t]
        BY <3>1, <3>2, NoneAssumption, Zenon
      <3> QED
        BY <1>0, <2>1, <3>3, SaysNew, Zenon
    <2>3. CASE ~EventDue(t)
      <3>1. Sent = None \/ Sent.type # t
        BY <1>5, <2>3, Zenon DEF Send, Sent, EventDue
      <3> QED
        BY <1>0, <2>1, <2>3, <3>1, SaysOther, Zenon
    <2> QED
      BY <2>2, <2>3, Zenon
  <1>6. CASE ExportEvents
    <2>1. /\ statusChan # <<>> /\ statusChan' = Tail(statusChan) /\ ~EventDue(t)
          /\ UNCHANGED conditions
      BY <1>6, Zenon DEF ExportEvents, EventDue
    <2>2. told'[t] = IF IsAbout(statusChan, 1, t) THEN statusChan[1].now ELSE told[t]
      <3>1. Head(statusChan) = statusChan[1]
        BY <1>0, <2>1, HeadIsFirst, Zenon
      <3> QED
        BY <1>6, <3>1, Zenon DEF ExportEvents, TypeOK, IsAbout
    <2> QED
      BY <1>0, <2>1, <2>2, SaysTail, Zenon
  <1>7. CASE ExportCondition
    BY <1>0, <1>7, Zenon DEF ExportCondition, EventDue
  <1>8. CASE UNCHANGED vars
    BY <1>0, <1>8, Zenon DEF vars, EventDue
  <1> QED
    BY <1>1, <1>2, <1>3, <1>4, <1>5, <1>6, <1>7, <1>8, Zenon DEF Next
-----------------------------------------------------------------------------
\* The invariant holds in every reachable state.
THEOREM Invariance == Spec => []IInv
  <1>1. IInv /\ [Next]_vars => IInv'
    BY TypeStep, HandlingStep, DefaultsStep, GaugesStep, RisingStep, CopiesStep, EventsStep DEF IInv
  <1> QED
    BY InitInv, <1>1, PTL DEF Spec

\* Every variable of the monitor has its type.
THEOREM TypeCorrect == Spec => []TypeOK
  <1>1. IInv => TypeOK
    BY DEF IInv
  <1> QED
    BY Invariance, <1>1, PTL

\* generateStatus leaves no trace of a problem that went away: between two
\* results a condition that is not True has its default reason again, and one
\* that is False its default message, whichever rules share the condition.
THEOREM DefaultsRestoredAlways == Spec => []DefaultsRestored
  <1>1. IInv => DefaultsRestored
    BY DEF IInv, Defaults, DefaultsRestored
  <1> QED
    BY Invariance, <1>1, PTL

\* The problem gauges that generateStatus and initializeProblemMetricsOrDie set
\* are, between two results, exactly those of the conditions that are True.
THEOREM GaugeTellsConditionAlways == Spec => []GaugeTellsCondition
  <1>1. IInv => GaugeTellsCondition
    <2> SUFFICES ASSUME TypeOK, Gauges, pc \in {"initial", "recv"}, metrics
                 PROVE  gauge = {g \in Types \X Reasons :
                           conditions[g[1]].status = "True" /\ conditions[g[1]].reason = g[2]}
      BY Zenon DEF IInv, GaugeTellsCondition
    <2>1. \A t \in Types, r \in Reasons :
             <<t, r>> \in gauge <=> conditions[t].status = "True" /\ conditions[t].reason = r
      BY Zenon DEF Gauges, GaugeDue
    <2> QED
      BY <2>1 DEF TypeOK
  <1> QED
    BY Invariance, <1>1, PTL

\* Unless messages count as changes, the counter of a permanent problem moves in
\* exactly the steps in which a gauge of its reason rises.
THEOREM CountsRisingGaugesAlways == Spec => CountsRisingGauges
  <1> DEFINE Agrees == \A r \in Reasons :
                          counter'[r] # counter[r] <=> \E t \in Types : <<t, r>> \in gauge' \ gauge
             Counted == pc = "metrics" /\ metrics /\ ~byMessage /\ result.perm => Agrees
  <1>1. IInv /\ [Next]_vars => [Counted]_vars
    <2> SUFFICES ASSUME IInv, Next, pc = "metrics", metrics, ~byMessage, result.perm PROVE Agrees
      BY Zenon
    <2>1. CASE Metrics
      <3>1. /\ result \in Result /\ result.reason \in Reasons /\ result.type \in Types
            /\ counter \in [Reasons -> 0..(CountModulus - 1)]
        BY Zenon DEF IInv, TypeOK, Handling, Result
      <3>2. Detected <=> change # None /\ change.status = "True"
        BY DEF Detected
      <3>3. \A r \in Reasons : counter'[r] # counter[r] <=> Detected /\ r = result.reason
        <4>1. (counter[result.reason] + 1) % CountModulus # counter[result.reason]
          BY <3>1, AddOneChanges, ConstantsAssumption
        <4> QED
          BY <2>1, <3>1, <4>1 DEF Metrics
      <3>4. \A t \in Types, r \in Reasons :
               <<t, r>> \in gauge' <=> conditions[t].status = "True" /\ conditions[t].reason = r
        BY <2>1, SetGaugesExact, Zenon DEF Metrics, IInv
      <3>5. \A t \in Types, r \in Reasons :
               <<t, r>> \in gauge' \ gauge => GaugeDue(t) /\ conditions[t].status = "True"
                                                          /\ conditions[t].reason = r
        BY <3>4 DEF IInv, Gauges
      <3>6. change # None => change = conditions[result.type] /\ change = Updated(result)
        BY DEF IInv, Handling
      <3>7. change # None /\ change.status = "True" =>
               change.reason = result.reason /\ <<result.type, result.reason>> \notin gauge
        BY <3>1, <3>6, UpdatedDefaults, SMTT(30) DEF IInv, Rising
      <3>8. ASSUME NEW r \in Reasons, counter'[r] # counter[r]
            PROVE  \E t \in Types : <<t, r>> \in gauge' \ gauge
        BY <3>1, <3>2, <3>3, <3>4, <3>6, <3>7, <3>8, SMTT(30)
      <3>9. ASSUME NEW r \in Reasons, NEW t \in Types, <<t, r>> \in gauge' \ gauge
            PROVE  counter'[r] # counter[r]
        <4>1. change # None /\ change = conditions[t] /\ change.status = "True" /\ change.reason = r
          BY <3>5, <3>6, <3>9 DEF GaugeDue
        <4> QED
          BY <3>2, <3>3, <3>7, <4>1
      <3> QED
        BY <3>8, <3>9, Zenon
    <2>2. CASE counter' = counter /\ gauge' = gauge
      BY <2>2, Zenon
    <2> QED
      BY <2>1, <2>2, Zenon DEF Next, measures, sendInitialStatus, Receive, Write, Send,
                        ExportEvents, ExportCondition
  <1> QED
    BY Invariance, <1>1, PTL DEF Spec, CountsRisingGauges

\* When the channel is empty and nothing is being handled, the condition manager
\* has been handed the monitor's conditions and the last events told them, each if
\* the exporter is configured to, even though the exporter copies the conditions from
\* memory the monitor writes to.
THEOREM SettledAgreesAlways == Spec => []SettledAgrees
  <1>1. IInv => SettledAgrees
    <2> SUFFICES ASSUME IInv, pc = "recv", statusChan = <<>>, reading = 0, NEW t \in Types
                 PROVE  /\ updateConditions =>
                              \/ exported[t] = conditions[t]
                              \/ exported[t] = None /\ conditions[t] = initialConditions(t)
                        /\ writeEvents =>
                              \/ told[t] = conditions[t]
                              \/ told[t] = None /\ conditions[t] = initialConditions(t)
      BY DEF SettledAgrees
    <2>2. ASSUME updateConditions
          PROVE  exported[t] = conditions[t] \/ (exported[t] = None /\ conditions[t] = initialConditions(t))
      BY <2>2 DEF IInv, Copies
    <2>3. ASSUME writeEvents
          PROVE  told[t] = conditions[t] \/ (told[t] = None /\ conditions[t] = initialConditions(t))
      <3>1. ~EventDue(t)
        BY DEF EventDue
      <3>2. LastSays(<<>>, t, told[t], conditions[t], initialConditions(t))
        BY <2>3, <3>1, Zenon DEF IInv, Events
      <3> QED
        BY <3>2 DEF LastSays
    <2> QED
      BY <2>2, <2>3, Zenon
  <1> QED
    BY Invariance, <1>1, PTL
=============================================================================
