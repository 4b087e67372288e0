--------------------------- MODULE ReportingProofs ---------------------------
(***************************************************************************)
(* Proofs about the two components that carry what the monitors find to    *)
(* the Node object: ConditionManager, for every set of types, values and   *)
(* UIDs and every choice of periods and retries, and ProblemDetector, for  *)
(* every list of monitors of every kind and every capacity of the          *)
(* channels.                                                               *)
(***************************************************************************)
EXTENDS ConditionManager, ProblemDetector, SequenceTheorems, TLAPS

(***************************************************************************)
(* The condition manager.                                                  *)
(***************************************************************************)

\* The body of the last SetConditions call is what the sync routine maintains:
\* conditions change only in a turn of the loop that also syncs.
PatchIsTarget == patch = conditions

\* Before the sync routine runs nothing was tried; during SetConditions a
\* ticker channel that is still empty means that no time has passed since the
\* try was recorded.
Timing ==
    /\ sync = "wait" => patch = Nothing /\ ~resyncNeeded
    /\ sync = "patch" /\ ~tick => sinceTry = 0

\* The retry loop is only entered with attempts left, so they never run below
\* zero.
AttemptsLeft == sync = "patch" => attempts > 0

\* The inductive invariant.
ManagerInv ==
    ManagerTypeOK /\ AttemptsLeft /\ PatchIsTarget /\ Timing /\ Synced /\ Punctual /\ PatchCachesUID
-----------------------------------------------------------------------------
\* MaxAge is a natural number that neither period exceeds.
LEMMA MaxAgeProps ==
    /\ MaxAge \in Nat
    /\ ResyncPeriod \in Nat /\ HeartbeatPeriod \in Nat
    /\ ResyncPeriod <= MaxAge /\ HeartbeatPeriod <= MaxAge
  BY ManagerAssumption DEF MaxAge

\* The register operators stay within the registers.
LEMMA RegisterProps ==
    /\ Nothing \in Register
    /\ \A a, b \in Register : Merge(a, b) \in Register
    /\ \A a \in Register, t \in Types, v \in Values \cup {None} :
          [a EXCEPT ![t] = v] \in Register
  BY DEF Nothing, Register, Merge

\* What was reported last is a register.
LEMMA ReportedProps == ManagerTypeOK => Reported \in Register
  BY DEF ManagerTypeOK, Reported, Register

\* Without an effective update a turn of the loop leaves conditions as they are.
LEMMA NoUpdates == ManagerTypeOK /\ ~needUpdates => Reported = conditions
  <1> SUFFICES ASSUME ManagerTypeOK, ~needUpdates PROVE Reported = conditions
    OBVIOUS
  <1>1. \A t \in Types : Reported[t] = conditions[t]
    BY DEF Reported, needUpdates
  <1> QED
    BY <1>1 DEF ManagerTypeOK, Reported, Register

\* Conversely, an effective update changes them.
LEMMA EffectiveUpdates == needUpdates => Reported # conditions
  <1> SUFFICES ASSUME needUpdates PROVE Reported # conditions
    OBVIOUS
  <1>1. PICK t \in Types : updates[t] # None /\ updates[t] # conditions[t]
    BY DEF needUpdates
  <1>2. Reported[t] # conditions[t]
    BY <1>1 DEF Reported
  <1> QED
    BY <1>2
-----------------------------------------------------------------------------
\* Every variable keeps its type through every step.
LEMMA ManagerTypeStep ==
    ManagerTypeOK /\ AttemptsLeft /\ [ManagerNext]_managerVars => ManagerTypeOK'
  <1> SUFFICES ASSUME ManagerTypeOK, AttemptsLeft, [ManagerNext]_managerVars PROVE ManagerTypeOK'
    OBVIOUS
  <1> USE MaxAgeProps, RegisterProps, ManagerAssumption DEF ManagerTypeOK
  <1>1. ASSUME NEW t \in Types, NEW v \in Values, UpdateCondition(t, v) PROVE ManagerTypeOK'
    BY <1>1, Zenon DEF UpdateCondition, client, server
  <1>2. CASE Tick
    BY <1>2 DEF Tick, client, server
  <1>3. CASE CtxDone
    BY <1>3 DEF CtxDone, manager, client, server
  <1>4. CASE WaitForAPIServer
    BY <1>4 DEF WaitForAPIServer, cacheNodeRef, manager, server
  <1>5. CASE HandleTick
    <2>1. sinceTry' \in 0..MaxAge /\ attempts' \in 0..RetrySteps
      BY <1>5 DEF HandleTick
    <2>2. resyncNeeded' \in BOOLEAN /\ tick' \in BOOLEAN
      BY <1>5, Zenon DEF HandleTick
    <2>3. patch' \in Register /\ conditions' \in Register /\ updates' \in Register
      BY <1>5, ReportedProps DEF HandleTick
    <2>4. sync' \in {"wait", "select", "patch", "returned"}
      BY <1>5 DEF HandleTick
    <2> QED
      BY <1>5, <2>1, <2>2, <2>3, <2>4 DEF HandleTick, server
  <1>6. CASE HandleDone
    BY <1>6 DEF HandleDone, manager, server
  <1>7. CASE PatchOK
    BY <1>7 DEF PatchOK, cacheNodeRef, Apply, manager
  <1>8. CASE PatchFailed
    <2>1. attempts' \in 0..RetrySteps
      BY <1>8 DEF PatchFailed, Retry, AttemptsLeft
    <2>2. resyncNeeded' \in BOOLEAN /\ sync' \in {"wait", "select", "patch", "returned"}
      BY <1>8, Zenon DEF PatchFailed, Retry
    <2> QED
      BY <1>8, <2>1, <2>2 DEF PatchFailed, Retry, server
  <1>9. CASE PatchUnacknowledged
    <2>1. attempts' \in 0..RetrySteps
      BY <1>9 DEF PatchUnacknowledged, Retry, AttemptsLeft
    <2>2. resyncNeeded' \in BOOLEAN /\ sync' \in {"wait", "select", "patch", "returned"}
      BY <1>9, Zenon DEF PatchUnacknowledged, Retry
    <2> QED
      BY <1>9, <2>1, <2>2 DEF PatchUnacknowledged, Retry, Apply
  <1>10. CASE PatchAbandoned
    <2>1. attempts' \in 0..RetrySteps
      BY <1>10 DEF PatchAbandoned, Retry, AttemptsLeft
    <2>2. resyncNeeded' \in BOOLEAN /\ sync' \in {"wait", "select", "patch", "returned"}
      BY <1>10, Zenon DEF PatchAbandoned, Retry
    <2> QED
      BY <1>10, <2>1, <2>2 DEF PatchAbandoned, Retry
  <1>11. ASSUME NEW p \in late, ApplyLate(p) PROVE ManagerTypeOK'
    BY <1>11 DEF ApplyLate, Apply, Carried, manager, client
  <1>12. ASSUME NEW t \in Types, NEW v \in Values \cup {None}, ExternalWrite(t, v)
         PROVE  ManagerTypeOK'
    BY <1>12, Zenon DEF ExternalWrite, manager, client
  <1>13. ASSUME NEW uid \in UIDs, RecreateNode(uid) PROVE ManagerTypeOK'
    BY <1>13 DEF RecreateNode, manager, client
  <1>14. CASE Restart
    <2>1. MaxAge \in 0..MaxAge /\ 0 \in 0..RetrySteps
      OBVIOUS
    <2>2. resyncNeeded' \in BOOLEAN /\ tick' \in BOOLEAN /\ ctxDone' \in BOOLEAN
      BY <1>14, Zenon DEF Restart
    <2> QED
      BY <1>14, <2>1, <2>2 DEF Restart
  <1>15. CASE UNCHANGED managerVars
    BY <1>15 DEF managerVars, manager, client, server
  <1> QED
    BY <1>1, <1>2, <1>3, <1>4, <1>5, <1>6, <1>7, <1>8, <1>9, <1>10, <1>11, <1>12,
       <1>13, <1>14, <1>15 DEF ManagerNext, SyncLoop, Disturbance

\* A step of the retry loop that leaves no attempt also leaves the loop.
LEMMA AttemptsStep == ManagerTypeOK /\ AttemptsLeft /\ [ManagerNext]_managerVars => AttemptsLeft'
  BY ManagerAssumption DEF ManagerTypeOK, AttemptsLeft, ManagerNext, SyncLoop, Disturbance,
     UpdateCondition,
     Tick, CtxDone, WaitForAPIServer, HandleTick, HandleDone, PatchOK, PatchFailed, Retry,
     PatchUnacknowledged, PatchAbandoned, ApplyLate, ExternalWrite, RecreateNode, Restart,
     managerVars, client

\* The start has the right types.
LEMMA InitManager == ManagerInit => ManagerTypeOK /\ AttemptsLeft
  <1> SUFFICES ASSUME ManagerInit PROVE ManagerTypeOK /\ AttemptsLeft
    OBVIOUS
  <1>1. MaxAge \in 0..MaxAge /\ 0 \in 0..RetrySteps
    BY MaxAgeProps, ManagerAssumption
  <1>2. resyncNeeded \in BOOLEAN /\ tick \in BOOLEAN /\ ctxDone \in BOOLEAN
    BY Zenon DEF ManagerInit, InitProcess
  <1> QED
    BY <1>1, <1>2, RegisterProps DEF ManagerInit, InitProcess, ManagerTypeOK, AttemptsLeft

\* The variables keep their types (the fields of conditionManager and of the
\* problem client, the retry counter, the Node).
THEOREM ManagerTypeCorrect == ManagerSpec => []ManagerTypeOK
  BY InitManager, ManagerTypeStep, AttemptsStep, PTL DEF ManagerSpec
-----------------------------------------------------------------------------
\* Actions that leave the sync routine's own state alone.
Outside ==
    UNCHANGED <<conditions, sinceTry, resyncNeeded, sync, patch, attempts, cachedNodeRef, tick>>

\* The manager's target and the body of the last patch move together.
LEMMA PatchIsTargetStep ==
    ManagerTypeOK /\ PatchIsTarget /\ [ManagerNext]_managerVars => PatchIsTarget'
  <1> SUFFICES ASSUME ManagerTypeOK, PatchIsTarget, [ManagerNext]_managerVars PROVE PatchIsTarget'
    OBVIOUS
  <1>1. CASE HandleTick
    BY <1>1, NoUpdates DEF HandleTick, PatchIsTarget
  <1>2. CASE ~HandleTick
    BY <1>2 DEF PatchIsTarget, ManagerNext, SyncLoop, Disturbance, UpdateCondition, Tick, CtxDone,
       WaitForAPIServer, HandleDone, PatchOK, PatchFailed, Retry, PatchUnacknowledged,
       PatchAbandoned, ApplyLate, ExternalWrite, RecreateNode, Restart, managerVars, manager, client
  <1> QED
    BY <1>1, <1>2

\* Before the start nothing was tried; inside SetConditions an empty ticker
\* channel means that no time has passed.
LEMMA TimingStep == ManagerTypeOK /\ Timing /\ [ManagerNext]_managerVars => Timing'
  <1> SUFFICES ASSUME ManagerTypeOK, Timing, [ManagerNext]_managerVars PROVE Timing'
    OBVIOUS
  <1> USE DEF Timing
  <1>1. CASE Tick
    BY <1>1, Zenon DEF Tick, client
  <1>2. CASE HandleTick
    BY <1>2 DEF HandleTick
  <1>3. CASE PatchOK
    BY <1>3 DEF PatchOK, manager
  <1>4. CASE Retry
    BY <1>4 DEF Retry
  <1>5. CASE Restart
    BY <1>5 DEF Restart
  <1>6. CASE WaitForAPIServer \/ HandleDone
    BY <1>6 DEF WaitForAPIServer, HandleDone, manager
  <1>7. CASE Outside
    BY <1>7 DEF Outside
  <1> QED
    BY <1>1, <1>2, <1>3, <1>4, <1>5, <1>6, <1>7 DEF Outside, ManagerNext, SyncLoop, Disturbance,
       UpdateCondition, CtxDone, PatchFailed, PatchUnacknowledged, PatchAbandoned, ApplyLate,
       ExternalWrite, RecreateNode, managerVars, manager, client

\* A sync that ends well has put every maintained condition on the Node, and
\* every other end of a sync leaves resyncNeeded set.
LEMMA SyncedStep ==
    ManagerTypeOK /\ PatchIsTarget /\ Timing /\ Synced /\ [ManagerNext]_managerVars => Synced'
  <1> SUFFICES ASSUME ManagerTypeOK, PatchIsTarget, Timing, Synced, [ManagerNext]_managerVars,
                      sync' = "select", ~resyncNeeded',
                      NEW t \in Types, t \notin foreign', conditions'[t] # None
               PROVE  node'[t] = conditions'[t]
    BY DEF Synced
  <1>1. CASE UNCHANGED <<conditions, resyncNeeded, sync, node>> /\ foreign \subseteq foreign'
    BY <1>1 DEF Synced
  <1>2. CASE WaitForAPIServer
    BY <1>2 DEF WaitForAPIServer, Timing, PatchIsTarget, Nothing, manager
  <1>3. CASE HandleTick
    BY <1>3, NoUpdates DEF HandleTick, Synced, server
  <1>4. CASE PatchOK
    <2>1. conditions'[t] = patch[t]
      BY <1>4 DEF PatchOK, PatchIsTarget, manager
    <2> QED
      BY <1>4, <2>1 DEF PatchOK, Apply, Merge
  <1>5. CASE Retry
    BY <1>5 DEF Retry
  <1>6. ASSUME NEW p \in late, ApplyLate(p) PROVE node'[t] = conditions'[t]
    <2>1. t \notin Carried(p) /\ t \notin foreign
      BY <1>6 DEF ApplyLate
    <2>2. node'[t] = node[t]
      BY <1>6, <2>1 DEF ApplyLate, Apply, Merge, Carried
    <2> QED
      BY <1>6, <2>1, <2>2 DEF ApplyLate, Synced, manager, client
  <1>7. ASSUME NEW u \in Types, NEW v \in Values \cup {None}, ExternalWrite(u, v)
        PROVE  node'[t] = conditions'[t]
    BY <1>7 DEF ExternalWrite, Synced, ManagerTypeOK, Register, manager, client
  <1>8. ASSUME NEW uid \in UIDs, RecreateNode(uid) PROVE node'[t] = conditions'[t]
    BY <1>8 DEF RecreateNode
  <1>9. CASE Restart
    BY <1>9 DEF Restart
  <1>10. CASE HandleDone
    BY <1>10 DEF HandleDone
  <1> QED
    BY <1>1, <1>2, <1>3, <1>4, <1>5, <1>6, <1>7, <1>8, <1>9, <1>10 DEF ManagerNext, SyncLoop,
       Disturbance, UpdateCondition, Tick, CtxDone, PatchFailed, PatchUnacknowledged,
       PatchAbandoned, managerVars, manager, client, server

\* A turn of the loop that does not sync leaves nothing overdue, and a sync
\* starts the periods anew.
LEMMA PunctualStep == ManagerTypeOK /\ Timing /\ Punctual /\ [ManagerNext]_managerVars => Punctual'
  <1> SUFFICES ASSUME ManagerTypeOK, Timing, Punctual, [ManagerNext]_managerVars, sync' = "select", ~tick'
               PROVE  /\ resyncNeeded' => sinceTry' < ResyncPeriod
                      /\ patch' # Nothing /\ HeartbeatPeriod > 0 => sinceTry' < HeartbeatPeriod
    BY DEF Punctual
  <1> USE ManagerAssumption
  <1>1. CASE Tick
    BY <1>1, Zenon DEF Tick, client
  <1>2. CASE WaitForAPIServer
    BY <1>2 DEF WaitForAPIServer, Timing, manager
  <1>3. CASE HandleTick
    BY <1>3 DEF HandleTick, needResync, needHeartbeat, ManagerTypeOK
  <1>4. CASE PatchOK
    BY <1>4 DEF PatchOK, Timing, manager
  <1>5. CASE Retry
    BY <1>5 DEF Retry, Timing
  <1>6. CASE Restart \/ HandleDone
    BY <1>6 DEF Restart, HandleDone
  <1>7. CASE Outside
    BY <1>7 DEF Outside, Punctual
  <1> QED
    BY <1>1, <1>2, <1>3, <1>4, <1>5, <1>6, <1>7 DEF Outside, ManagerNext, SyncLoop, Disturbance,
       UpdateCondition, CtxDone, PatchFailed, PatchUnacknowledged, PatchAbandoned, ApplyLate,
       ExternalWrite, RecreateNode, managerVars, manager, client

\* Only a successful patch ends a sync without asking for a resync, and it
\* caches the UID of the Node it was applied to.
LEMMA PatchCachesUIDStep ==
    ManagerTypeOK /\ Timing /\ PatchCachesUID /\ [ManagerNext]_managerVars => PatchCachesUID'
  <1> SUFFICES ASSUME ManagerTypeOK, Timing, PatchCachesUID, [ManagerNext]_managerVars,
                      sync' = "select", patch' # Nothing, ~resyncNeeded'
               PROVE  cachedNodeRef' # None
    BY DEF PatchCachesUID
  <1>1. CASE Tick
    BY <1>1 DEF Tick, client, PatchCachesUID
  <1>2. CASE WaitForAPIServer
    BY <1>2 DEF WaitForAPIServer, Timing, manager
  <1>3. CASE HandleTick
    BY <1>3 DEF HandleTick, PatchCachesUID
  <1>4. CASE PatchOK
    BY <1>4, ManagerAssumption DEF PatchOK, cacheNodeRef, ManagerTypeOK
  <1>5. CASE Retry
    BY <1>5 DEF Retry
  <1>6. CASE Restart \/ HandleDone
    BY <1>6 DEF Restart, HandleDone
  <1>7. CASE Outside
    BY <1>7 DEF Outside, PatchCachesUID
  <1> QED
    BY <1>1, <1>2, <1>3, <1>4, <1>5, <1>6, <1>7 DEF Outside, ManagerNext, SyncLoop, Disturbance,
       UpdateCondition, CtxDone, PatchFailed, PatchUnacknowledged, PatchAbandoned, ApplyLate,
       ExternalWrite, RecreateNode, managerVars, manager, client
-----------------------------------------------------------------------------
\* The inductive invariant holds in every reachable state.
THEOREM ManagerInvariance == ManagerSpec => []ManagerInv
  <1>1. ManagerInit => ManagerTypeOK /\ AttemptsLeft
    BY InitManager
  <1>2. ManagerInit => PatchIsTarget /\ Timing /\ Synced /\ Punctual /\ PatchCachesUID
    BY DEF ManagerInit, InitProcess, PatchIsTarget, Timing, Synced, Punctual, PatchCachesUID
  <1>3. ManagerInv /\ [ManagerNext]_managerVars => ManagerInv'
    BY ManagerTypeStep, AttemptsStep, PatchIsTargetStep, TimingStep, SyncedStep, PunctualStep,
       PatchCachesUIDStep DEF ManagerInv
  <1> QED
    BY <1>1, <1>2, <1>3, PTL DEF ManagerSpec, ManagerInv

\* Whenever the sync routine is idle without a pending resync, the Node shows
\* every maintained condition nobody else has written since (sync,
\* SetConditions): for every number of types, values, retries and lost, late or
\* foreign writes.
THEOREM SyncedAlways == ManagerSpec => []Synced
  BY ManagerInvariance, PTL DEF ManagerInv

\* The idle sync routine is never overdue (needResync, needHeartbeat).
THEOREM PunctualAlways == ManagerSpec => []Punctual
  BY ManagerInvariance, PTL DEF ManagerInv

\* The first successful patch supplies the UID for events (cacheNodeRef).
THEOREM PatchCachesUIDAlways == ManagerSpec => []PatchCachesUID
  BY ManagerInvariance, PTL DEF ManagerInv

\* Equal SetConditions calls are a period apart (needUpdates): the flood
\* protection the manager's comment promises.
THEOREM NoFloodAlways == ManagerSpec => NoFlood
  <1>1. ManagerInv /\ [ManagerNext]_managerVars =>
          [sync = "select" /\ sync' = "patch" /\ patch' = patch =>
             sinceTry >= ResyncPeriod \/ sinceTry >= HeartbeatPeriod]_managerVars
    <2> SUFFICES ASSUME ManagerInv, ManagerNext, sync = "select", sync' = "patch", patch' = patch
                 PROVE  sinceTry >= ResyncPeriod \/ sinceTry >= HeartbeatPeriod
      BY DEF managerVars
    <2>1. HandleTick
      BY DEF ManagerNext, SyncLoop, Disturbance, UpdateCondition, Tick, CtxDone, WaitForAPIServer,
         HandleDone, PatchOK, PatchFailed, Retry, PatchUnacknowledged, PatchAbandoned, ApplyLate,
         ExternalWrite, RecreateNode, Restart, client
    <2>2. patch' = Reported /\ (needUpdates \/ needResync \/ needHeartbeat)
      BY <2>1 DEF HandleTick
    <2>3. ~needUpdates
      BY <2>2, EffectiveUpdates DEF ManagerInv, PatchIsTarget
    <2> QED
      BY <2>2, <2>3 DEF needResync, needHeartbeat
  <1> QED
    BY <1>1, ManagerInvariance, PTL DEF ManagerSpec, NoFlood
-----------------------------------------------------------------------------
\* The abstract registers and operators are the detailed ones.
LEMMA SameOperators ==
    /\ Report!Register = Register
    /\ Report!Nothing = Nothing
    /\ \A a, b : Report!Merge(a, b) = Merge(a, b)
  BY DEF Report!Register, Register, Report!Nothing, Nothing, Report!Merge, Merge

\* A report changes the newest report of its type and no other.
LEMMA ReportedByUpdate ==
    ASSUME ManagerTypeOK, NEW t \in Types, NEW v \in Values, UpdateCondition(t, v)
    PROVE  Reported' = [Reported EXCEPT ![t] = v]
  <1>1. v # None
    BY ManagerAssumption
  <1>2. \A u \in Types : Reported'[u] = [Reported EXCEPT ![t] = v][u]
    BY <1>1 DEF UpdateCondition, Reported, ManagerTypeOK, Register
  <1> QED
    BY <1>2, Zenon DEF Reported

\* Adopting the pending updates leaves the newest reports what they are.
LEMMA ReportedByTick == ASSUME HandleTick PROVE Reported' = Reported
  <1>1. \A u \in Types : Reported'[u] = Reported[u]
    BY DEF HandleTick, Reported, Nothing
  <1> QED
    BY <1>1 DEF Reported

\* Every step of the manager is a step of the three registers, or changes none
\* of them.
LEMMA RefinementStep ==
    ManagerTypeOK /\ PatchIsTarget /\ [ManagerNext]_managerVars => [Report!Next]_Report!rvars
  <1> SUFFICES ASSUME ManagerTypeOK, PatchIsTarget, [ManagerNext]_managerVars
               PROVE  Report!Next \/ UNCHANGED Report!rvars
    OBVIOUS
  <1> USE SameOperators DEF Report!rvars
  <1>1. ASSUME NEW t \in Types, NEW v \in Values, UpdateCondition(t, v) PROVE Report!Next
    <2>1. Report!Report(t, v)
      BY <1>1, ReportedByUpdate, Zenon DEF UpdateCondition, server, Report!Report
    <2> QED
      BY <2>1 DEF Report!Next
  <1>2. CASE UNCHANGED <<updates, conditions, node, foreign>>
    BY <1>2 DEF Reported
  <1>3. CASE HandleTick
    <2>1. Report!Adopt
      BY <1>3, ReportedByTick, Zenon DEF HandleTick, server, Report!Adopt
    <2> QED
      BY <2>1 DEF Report!Next
  <1>4. ASSUME Apply(patch), foreign' = foreign \ Carried(patch),
               UNCHANGED <<updates, conditions>>
        PROVE  Report!Next
    <2>1. foreign' = {t \in foreign : conditions[t] = None}
      BY <1>4 DEF Carried, PatchIsTarget, ManagerTypeOK
    <2>2. Report!Publish
      BY <1>4, <2>1 DEF Apply, PatchIsTarget, Reported, Report!Publish
    <2> QED
      BY <2>2 DEF Report!Next
  <1>5. ASSUME NEW T \in SUBSET Types, node' \in Register,
               \A t \in Types \ T : node'[t] = node[t],
               foreign' = foreign \cup T, UNCHANGED <<updates, conditions>>
        PROVE  Report!Next
    <2>1. Report!Interfere(T)
      BY <1>5 DEF Reported, Report!Interfere
    <2> QED
      BY <2>1 DEF Report!Next
  <1>6. ASSUME NEW p \in late, ApplyLate(p) PROVE Report!Next
    <2>1. Carried(p) \in SUBSET Types
      BY DEF Carried
    <2>2. node' \in Register
      BY <1>6, RegisterProps DEF ApplyLate, Apply, ManagerTypeOK
    <2>3. \A t \in Types \ Carried(p) : node'[t] = node[t]
      BY <1>6 DEF ApplyLate, Apply, Merge, Carried
    <2> QED
      BY <1>5, <1>6, <2>1, <2>2, <2>3 DEF ApplyLate, manager
  <1>7. ASSUME NEW u \in Types, NEW v \in Values \cup {None}, ExternalWrite(u, v)
        PROVE  Report!Next
    <2>1. node' \in Register
      BY <1>7, RegisterProps, Zenon DEF ExternalWrite, ManagerTypeOK
    <2>2. \A t \in Types \ {u} : node'[t] = node[t]
      BY <1>7 DEF ExternalWrite, ManagerTypeOK, Register
    <2> QED
      BY <1>5, <1>7, <2>1, <2>2, Zenon DEF ExternalWrite, manager
  <1>8. ASSUME NEW uid \in UIDs, RecreateNode(uid) PROVE Report!Next
    <2>1. node' \in Register /\ foreign' = foreign \cup Types
      BY <1>8, RegisterProps DEF RecreateNode, ManagerTypeOK
    <2> QED
      BY <1>5, <1>8, <2>1, Zenon DEF RecreateNode, manager
  <1>9. CASE Restart
    <2>1. Reported' = Nothing
      BY <1>9 DEF Restart, Reported, Nothing
    <2>2. Report!Forget
      BY <1>9, <2>1 DEF Restart, Report!Forget
    <2> QED
      BY <2>2 DEF Report!Next
  <1>10. CASE PatchOK
    BY <1>4, <1>10 DEF PatchOK, manager
  <1>11. CASE PatchUnacknowledged
    BY <1>4, <1>11 DEF PatchUnacknowledged, Retry
  <1> QED
    BY <1>1, <1>2, <1>3, <1>6, <1>7, <1>8, <1>9, <1>10, <1>11 DEF ManagerNext, SyncLoop,
       Disturbance, Tick, CtxDone, WaitForAPIServer, HandleDone, PatchFailed, PatchAbandoned,
       Retry, managerVars, manager, client, server

\* The manager with its client implements the three registers: no report is
\* lost or taken apart, and the exporter only ever publishes what it has
\* adopted (UpdateCondition, needUpdates, sync, SetConditions).
THEOREM Refinement == ManagerSpec => ImplementsReport
  <1>1. ManagerInit => Report!Init
    <2> SUFFICES ASSUME ManagerInit PROVE Report!Init
      OBVIOUS
    <2>1. Reported = Nothing
      BY DEF ManagerInit, InitProcess, Reported, Nothing
    <2> QED
      BY <2>1, SameOperators DEF ManagerInit, InitProcess, Report!Init
  <1>2. ManagerInv /\ [ManagerNext]_managerVars => [Report!Next]_Report!rvars
    BY RefinementStep DEF ManagerInv
  <1> QED
    BY <1>1, <1>2, ManagerInvariance, PTL DEF ManagerSpec, ImplementsReport, Report!Spec
-----------------------------------------------------------------------------
(***************************************************************************)
(* The problem detector.                                                   *)
(***************************************************************************)

\* The number of the k-th status after number n.
Nth(n, k) == (n + k) % Modulus

\* Of one monitor, with its forwarder in state f: what the forwarder holds, h, follows
\* the last status exported, e; the output channel, out, continues from there; and the
\* monitor has produced up to its end, p.
Ordered(f, h, out, e, p) ==
    LET k == IF f = "send" THEN 1 ELSE 0
    IN  /\ f = "send" => h = Nth(e, 1)
        /\ \A i \in 1..Len(out) : out[i] = Nth(e, k + i)
        /\ p = Nth(e, k + Len(out))

\* The statuses s follow number e one by one, up to number p.
Consecutive(s, e, p) == s = [i \in 1..Len(s) |-> Nth(e, i)] /\ p = Nth(e, Len(s))

\* StatusesInOrder place by place.
Order == \A m \in Monitors : Ordered(fwd[m], held[m], output[m], exported[m], produced[m])

\* A monitor that has not been started has no goroutine; a tomb is done exactly
\* when its goroutine is gone; a loop only leaves after its watcher.
Goroutines ==
    \A m \in Monitors :
        /\ loop[m] = "off" <=> m \notin started
        /\ m \notin started \/ Kind[m] = "stats" => watcher[m] = "off"
        /\ loop[m] = "send" => pending[m] > 0
        /\ done[m] <=> loop[m] = "exited"
        /\ logClosed[m] => watcherDone[m]
        /\ watcherDone[m] <=> watcher[m] = "exited"
        /\ loop[m] = "exited" => watcher[m] \in {"off", "exited"}

\* How far Run has got: the monitors from cur on are not started, those before
\* cur are stopped.
Progress ==
    /\ pc = "start" => /\ \A m \in Monitors : fwd[m] = "off"
                       /\ \A m \in started : m < cur
    /\ pc = "stop" => \A m \in Monitors : m < cur => done[m]
    /\ pc = "returned" => started = {} \/ \A m \in Monitors : done[m]

\* The inductive invariant.
IInv == TypeOK /\ Order /\ Goroutines /\ Progress
-----------------------------------------------------------------------------
\* Counting on from the status after n is counting on from n.
LEMMA NthShift ==
    ASSUME NEW n \in Numbers, NEW k \in 0..Modulus
    PROVE  Nth(Nth(n, 1), k) = Nth(n, k + 1)
  BY ConstantsAssumption DEF Nth, Numbers

\* The status after the k-th one is the next one.
LEMMA NthNext ==
    ASSUME NEW n \in Numbers, NEW k \in 0..(Modulus - 1)
    PROVE  Following(Nth(n, k)) = Nth(n, k + 1)
  BY ConstantsAssumption DEF Nth, Numbers, Following

\* No status further is the status itself.
LEMMA NthZero == ASSUME NEW n \in Numbers PROVE Nth(n, 0) = n
  BY ConstantsAssumption DEF Nth, Numbers

\* The following number is a number.
LEMMA FollowingType == ASSUME NEW n \in Numbers PROVE Following(n) \in Numbers
  BY ConstantsAssumption DEF Numbers, Following

\* What receiving from a channel, and sending to one with room, leave in it.
LEMMA ReceivedFrom ==
    ASSUME NEW S, NEW c \in Seq(S), c # <<>>, NEW cap \in Nat, Len(c) <= cap
    PROVE  Head(c) \in S /\ Tail(c) \in Seq(S) /\ Len(Tail(c)) <= cap
  OBVIOUS

LEMMA SentTo ==
    ASSUME NEW S, NEW c \in Seq(S), NEW x \in S, NEW cap \in Nat, Len(c) < cap
    PROVE  Append(c, x) \in Seq(S) /\ Len(Append(c, x)) <= cap
  OBVIOUS

\* Before anything is produced.
LEMMA OrderedAtFirst == Ordered("off", 0, <<>>, 0, 0)
  <1>1. 0 \in Numbers
    BY ConstantsAssumption DEF Numbers
  <1> QED
    BY <1>1, NthZero DEF Ordered

\* It does not matter which state the forwarder is in, if it holds nothing.
LEMMA OrderedIdle ==
    ASSUME NEW f, NEW g, f # "send", g # "send", NEW h, NEW out, NEW e, NEW p,
           Ordered(f, h, out, e, p)
    PROVE  Ordered(g, h, out, e, p)
  BY DEF Ordered

\* The status that the forwarder holds is exported.
LEMMA OrderedServe ==
    ASSUME NEW h, NEW out \in Seq(Numbers), Len(out) < Modulus, NEW e \in Numbers, NEW p,
           Ordered("send", h, out, e, p)
    PROVE  Ordered("recv", h, out, h, p)
  <1>1. /\ h = Nth(e, 1) /\ \A i \in 1..Len(out) : out[i] = Nth(e, 1 + i)
        /\ p = Nth(e, 1 + Len(out))
    BY DEF Ordered
  <1>2. ASSUME NEW k \in 0..Len(out) PROVE Nth(h, 0 + k) = Nth(e, 1 + k)
    <2>1. k \in 0..Modulus /\ 0 + k = k /\ 1 + k = k + 1
      BY ConstantsAssumption
    <2> QED
      BY <1>1, <2>1, NthShift
  <1>3. Len(out) \in 0..Len(out) /\ \A i \in 1..Len(out) : i \in 0..Len(out)
    OBVIOUS
  <1>4. (\A i \in 1..Len(out) : out[i] = Nth(h, 0 + i)) /\ p = Nth(h, 0 + Len(out))
    BY <1>1, <1>2, <1>3, Zenon
  <1> QED
    BY <1>4 DEF Ordered

\* The forwarder receives from the output channel.
LEMMA OrderedForward ==
    ASSUME NEW h, NEW out \in Seq(Numbers), out # <<>>, NEW e, NEW p, Ordered("recv", h, out, e, p)
    PROVE  Ordered("send", Head(out), Tail(out), e, p)
  <1>1. (\A i \in 1..Len(out) : out[i] = Nth(e, 0 + i)) /\ p = Nth(e, 0 + Len(out))
    BY DEF Ordered
  <1>2. /\ Head(out) = out[1] /\ Len(Tail(out)) \in Nat /\ Len(out) = Len(Tail(out)) + 1
        /\ \A i \in 1..Len(Tail(out)) : Tail(out)[i] = out[i + 1]
    OBVIOUS
  <1> DEFINE rest == Tail(out)
  <1> HIDE DEF rest
  <1>3. /\ 1 \in 1..Len(out) /\ 0 + 1 = 1 /\ 0 + Len(out) = 1 + Len(rest)
        /\ \A i \in 1..Len(rest) : i + 1 \in 1..Len(out) /\ 0 + (i + 1) = 1 + i
    BY <1>2 DEF rest
  <1>4. Head(out) = Nth(e, 1) /\ p = Nth(e, 1 + Len(rest))
    BY <1>1, <1>2, <1>3
  <1>5. ASSUME NEW i \in 1..Len(rest) PROVE rest[i] = Nth(e, 1 + i)
    <2>1. rest[i] = out[i + 1]
      BY <1>2 DEF rest
    <2> QED
      BY <1>1, <1>3, <2>1
  <1> QED
    BY <1>4, <1>5 DEF Ordered, rest

\* The loop sends the next status to the output channel.
LEMMA OrderedSend ==
    ASSUME NEW f, NEW h, NEW out \in Seq(Numbers), Len(out) < OutputCap, NEW e \in Numbers,
           NEW p \in Numbers, Ordered(f, h, out, e, p)
    PROVE  Ordered(f, h, Append(out, Following(p)), e, Following(p))
  <1> DEFINE k == IF f = "send" THEN 1 ELSE 0
             more == Append(out, Following(p))
  <1>1. /\ f = "send" => h = Nth(e, 1)
        /\ \A i \in 1..Len(out) : out[i] = Nth(e, k + i)
        /\ p = Nth(e, k + Len(out))
    BY DEF Ordered
  <1>2. k \in 0..1 /\ Len(out) \in Nat
    OBVIOUS
  <1>3. /\ Len(more) = Len(out) + 1 /\ \A i \in 1..Len(out) : more[i] = out[i]
        /\ more[Len(out) + 1] = Following(p)
    BY FollowingType
  <1> HIDE DEF k, more
  <1>4. Following(p) = Nth(e, k + (Len(out) + 1))
    <2>1. k + Len(out) \in 0..(Modulus - 1) /\ k + (Len(out) + 1) = (k + Len(out)) + 1
      BY <1>2, ConstantsAssumption
    <2> QED
      BY <1>1, <2>1, NthNext
  <1>5. ASSUME NEW i \in 1..Len(more) PROVE more[i] = Nth(e, k + i)
    <2>1. i \in 1..Len(out) \/ i = Len(out) + 1
      BY <1>2, <1>3
    <2> QED
      BY <1>1, <1>3, <1>4, <2>1, Zenon
  <1>6. Following(p) = Nth(e, k + Len(more))
    BY <1>3, <1>4, Zenon
  <1> QED
    BY <1>1, <1>5, <1>6, Zenon DEF Ordered, k, more

\* What is in flight, in one sequence.
LEMMA OrderedInFlight ==
    ASSUME NEW f, NEW h \in Numbers, NEW out \in Seq(Numbers), NEW e, NEW p, Ordered(f, h, out, e, p),
           NEW s, s = (IF f = "send" THEN <<h>> ELSE <<>>) \o out
    PROVE  Consecutive(s, e, p)
  <1> USE DEF Consecutive
  <1>1. CASE f = "send"
    <2>1. h = Nth(e, 1) /\ (\A i \in 1..Len(out) : out[i] = Nth(e, 1 + i)) /\ p = Nth(e, 1 + Len(out))
      BY <1>1 DEF Ordered
    <2>2. /\ s \in Seq(Numbers) /\ Len(s) = 1 + Len(out) /\ Len(out) \in Nat
          /\ s[1] = h /\ \A i \in 2..Len(s) : s[i] = out[i - 1]
      BY <1>1
    <2>3. ASSUME NEW i \in 1..Len(s) PROVE s[i] = Nth(e, i)
      <3>1. CASE i = 1
        BY <2>1, <2>2, <3>1
      <3>2. CASE i # 1
        <4>1. i \in 2..Len(s) /\ i - 1 \in 1..Len(out) /\ 1 + (i - 1) = i
          BY <2>2, <3>2
        <4> QED
          BY <2>1, <2>2, <4>1, Zenon
      <3> QED
        BY <3>1, <3>2
    <2> QED
      BY <2>1, <2>2, <2>3
  <1>2. CASE f # "send"
    <2>1. (\A i \in 1..Len(out) : out[i] = Nth(e, 0 + i)) /\ p = Nth(e, 0 + Len(out))
      BY <1>2 DEF Ordered
    <2>2. s = out /\ Len(out) \in Nat
      BY <1>2
    <2> QED
      BY <2>1, <2>2
  <1> QED
    BY <1>1, <1>2, Zenon

\* A step that touches one monitor and leaves it in order.
LEMMA OrderOfOne ==
    ASSUME Order, NEW m \in Monitors,
           Ordered(fwd'[m], held'[m], output'[m], exported'[m], produced'[m]),
           \A n \in Monitors \ {m} :
              /\ fwd'[n] = fwd[n] /\ held'[n] = held[n] /\ output'[n] = output[n]
              /\ exported'[n] = exported[n] /\ produced'[n] = produced[n]
    PROVE  Order'
  BY Zenon DEF Order
-----------------------------------------------------------------------------
\* Before Run has started anything.
LEMMA InitInv == Init => IInv
  <1> SUFFICES ASSUME Init PROVE IInv
    OBVIOUS
  <1> USE ConstantsAssumption DEF Init, All
  <1>1. TypeOK
    <2>1. 0 \in Numbers /\ <<>> \in Seq(Numbers) /\ Len(<<>>) = 0
      BY DEF Numbers
    <2>2. /\ outputClosed \in [Monitors -> BOOLEAN] /\ stop \in [Monitors -> BOOLEAN]
          /\ done \in [Monitors -> BOOLEAN] /\ logClosed \in [Monitors -> BOOLEAN]
          /\ watcherStop \in [Monitors -> BOOLEAN] /\ watcherDone \in [Monitors -> BOOLEAN]
      OBVIOUS
    <2>3. /\ held \in [Monitors -> Numbers] /\ exported \in [Monitors -> Numbers]
          /\ produced \in [Monitors -> Numbers] /\ output \in [Monitors -> Seq(Numbers)]
          /\ \A m \in Monitors : Len(output[m]) <= OutputCap
      BY <2>1
    <2>4. /\ pc = "start" /\ cur \in 1..(NumMonitors + 1) /\ cancelled = FALSE /\ started = {}
          /\ fwd \in [Monitors -> {"off"}] /\ loop \in [Monitors -> {"off"}]
          /\ watcher \in [Monitors -> {"off"}]
          /\ pending \in [Monitors -> Nat] /\ logs \in [Monitors -> 0..LogCap]
      OBVIOUS
    <2> HIDE DEF Init
    <2>5. \A m \in Monitors : Len(output[m]) <= OutputCap
      BY <2>3
    <2>6. /\ fwd \in [Monitors -> {"off", "recv", "send", "exited"}]
          /\ loop \in [Monitors -> {"off", "initial", "select", "send", "stop", "exited"}]
          /\ watcher \in [Monitors -> {"off", "read", "send", "exited"}]
      BY <2>4
    <2>7. pc \in {"start", "serve", "stop", "returned"} /\ cancelled \in BOOLEAN /\ started \subseteq Monitors
      BY <2>4, Zenon
    <2> QED
      BY <2>2, <2>3, <2>4, <2>5, <2>6, <2>7 DEF TypeOK
  <1>2. Order
    BY OrderedAtFirst, Zenon DEF Order
  <1>3. Goroutines /\ Progress
    BY DEF Goroutines, Progress
  <1> QED
    BY <1>1, <1>2, <1>3 DEF IInv

\* Every variable keeps its type, and no channel exceeds its capacity.
LEMMA TypeStep == TypeOK /\ Goroutines /\ [Next]_vars => TypeOK'
  <1> SUFFICES ASSUME TypeOK, Goroutines, [Next]_vars PROVE TypeOK'
    OBVIOUS
  <1> USE ConstantsAssumption DEF TypeOK, Numbers, detector, forwarding, looping, watching
  <1>1. ASSUME NEW m \in Monitors, StartMonitor(m) PROVE TypeOK'
    <2>1. cur' \in 1..(NumMonitors + 1)
      BY <1>1 DEF StartMonitor, Monitors
    <2>2. /\ started' \subseteq Monitors
          /\ loop' \in [Monitors -> {"off", "initial", "select", "send", "stop", "exited"}]
          /\ watcher' \in [Monitors -> {"off", "read", "send", "exited"}]
      BY <1>1 DEF StartMonitor
    <2> QED
      BY <1>1, <2>1, <2>2, Zenon DEF StartMonitor
  <1>2. ASSUME NEW m \in Monitors, StartFails(m) PROVE TypeOK'
    <2>1. cur' \in 1..(NumMonitors + 1)
      BY <1>2 DEF StartFails, Monitors
    <2> QED
      BY <1>2, <2>1, Zenon DEF StartFails
  <1>3. CASE StartsDone
    BY <1>3 DEF StartsDone
  <1>4. CASE Leave
    BY <1>4 DEF Leave
  <1>5. ASSUME NEW m \in Monitors, StopMonitor(m) PROVE TypeOK'
    BY <1>5, Zenon DEF StopMonitor
  <1>6. ASSUME NEW m \in Monitors, StopReturns(m) PROVE TypeOK'
    <2>1. cur' \in 1..(NumMonitors + 1)
      BY <1>6 DEF StopReturns, Monitors
    <2> QED
      BY <1>6, <2>1, Zenon DEF StopReturns
  <1>7. CASE Return
    BY <1>7 DEF Return
  <1>8. CASE Cancel
    BY <1>8 DEF Cancel
  <1>9. ASSUME NEW m \in Monitors, Serve(m) PROVE TypeOK'
    BY <1>9, Zenon DEF Serve
  <1>10. ASSUME NEW m \in Monitors, Forward(m) PROVE TypeOK'
    <2>1. /\ Head(output[m]) \in Numbers /\ Tail(output[m]) \in Seq(Numbers)
          /\ Len(Tail(output[m])) <= OutputCap
      <3>1. output[m] \in Seq(Numbers) /\ output[m] # <<>> /\ Len(output[m]) <= OutputCap /\ OutputCap \in Nat
        BY <1>10, Zenon DEF Forward
      <3> QED
        BY <3>1, ReceivedFrom, Zenon
    <2> QED
      BY <1>10, <2>1, Zenon DEF Forward
  <1>11. ASSUME NEW m \in Monitors, ForwardEnds(m) PROVE TypeOK'
    BY <1>11 DEF ForwardEnds
  <1>12. ASSUME NEW m \in Monitors, Send(m) PROVE TypeOK'
    <2>1. Following(produced[m]) \in Numbers
      BY FollowingType, Zenon
    <2>2. /\ Append(output[m], Following(produced[m])) \in Seq(Numbers)
          /\ Len(Append(output[m], Following(produced[m]))) <= OutputCap
      <3>1. output[m] \in Seq(Numbers) /\ Len(output[m]) < OutputCap /\ OutputCap \in Nat
        BY <1>12, Zenon DEF Send
      <3> QED
        BY <2>1, <3>1, SentTo, Zenon
    <2>3. /\ pending' \in [Monitors -> Nat]
          /\ loop' \in [Monitors -> {"off", "initial", "select", "send", "stop", "exited"}]
      <3>1. CASE loop[m] = "initial" \/ pending[m] = 1
        <4>1. loop' = [loop EXCEPT ![m] = "select"] /\ pending' = [pending EXCEPT ![m] = 0]
          BY <1>12, <3>1, Zenon DEF Send
        <4>2. 0 \in Nat
          OBVIOUS
        <4> QED
          BY <4>1, <4>2, Zenon
      <3>2. CASE ~(loop[m] = "initial" \/ pending[m] = 1)
        <4>1. pending[m] - 1 \in Nat
          BY <1>12, <3>2 DEF Send, Goroutines
        <4>2. loop' = loop /\ pending' = [pending EXCEPT ![m] = @ - 1]
          BY <1>12, <3>2, Zenon DEF Send
        <4> QED
          BY <4>1, <4>2, Zenon
      <3> QED
        BY <3>1, <3>2, Zenon
    <2>4. produced' \in [Monitors -> Numbers] /\ output' \in [Monitors -> Seq(Numbers)]
      BY <1>12, <2>1, <2>2, Zenon DEF Send
    <2>5. UNCHANGED <<detector, forwarding, outputClosed, done, stop, watching, watcherStop>>
      BY <1>12, Zenon DEF Send
    <2>6. \A n \in Monitors : Len(output'[n]) <= OutputCap
      BY <1>12, <2>2, Zenon DEF Send
    <2> QED
      BY <2>3, <2>4, <2>5, <2>6, Zenon
  <1>13. ASSUME NEW m \in Monitors, ReceiveLog(m) PROVE TypeOK'
    <2>1. logs[m] - 1 \in 0..LogCap /\ logs' = [logs EXCEPT ![m] = @ - 1]
      BY <1>13 DEF ReceiveLog
    <2>2. PICK n \in (IF Kind[m] = "custom" THEN {1} ELSE 0..MaxMatches) :
             /\ pending' = [pending EXCEPT ![m] = n]
             /\ loop' = [loop EXCEPT ![m] = IF n = 0 THEN "select" ELSE "send"]
      BY <1>13, Zenon DEF ReceiveLog
    <2>3. n \in Nat
      OBVIOUS
    <2>4. pending' \in [Monitors -> Nat] /\ logs' \in [Monitors -> 0..LogCap]
      BY <2>1, <2>2, <2>3, Zenon
    <2>5. loop' \in [Monitors -> {"off", "initial", "select", "send", "stop", "exited"}]
      <3> DEFINE x == IF n = 0 THEN "select" ELSE "send"
      <3>1. x \in {"off", "initial", "select", "send", "stop", "exited"}
        BY Zenon
      <3> HIDE DEF x
      <3> QED
        BY <2>2, <3>1, Zenon DEF x
    <2>6. UNCHANGED <<detector, forwarding, produced, output, outputClosed, done, stop, watcher,
                      logClosed, watcherDone, watcherStop>>
      BY <1>13, Zenon DEF ReceiveLog
    <2> QED
      BY <2>4, <2>5, <2>6, Zenon
  <1>14. ASSUME NEW m \in Monitors, LogsEnd(m) PROVE TypeOK'
    BY <1>14, Zenon DEF LogsEnd, Finish
  <1>15. ASSUME NEW m \in Monitors, LoopStopping(m) PROVE TypeOK'
    BY <1>15, Zenon DEF LoopStopping, Finish
  <1>16. ASSUME NEW m \in Monitors, LoopStopped(m) PROVE TypeOK'
    BY <1>16, Zenon DEF LoopStopped, Finish
  <1>17. ASSUME NEW m \in Monitors, Read(m) PROVE TypeOK'
    BY <1>17, Zenon DEF Read
  <1>18. ASSUME NEW m \in Monitors, ReadFails(m) PROVE TypeOK'
    BY <1>18, Zenon DEF ReadFails, WatcherFinish
  <1>19. ASSUME NEW m \in Monitors, SendLog(m) PROVE TypeOK'
    <2>1. logs[m] + 1 \in 0..LogCap
      BY <1>19 DEF SendLog
    <2> QED
      BY <1>19, <2>1, Zenon DEF SendLog
  <1>20. ASSUME NEW m \in Monitors, WatcherStops(m) PROVE TypeOK'
    BY <1>20, Zenon DEF WatcherStops, WatcherFinish
  <1>21. CASE UNCHANGED vars
    BY <1>21, Zenon DEF vars
  <1> QED
    BY <1>1, <1>2, <1>3, <1>4, <1>5, <1>6, <1>7, <1>8, <1>9, <1>10, <1>11, <1>12, <1>13,
       <1>14, <1>15, <1>16, <1>17, <1>18, <1>19, <1>20, <1>21, Zenon
    DEF Next, RunStep

\* Statuses move from the loop to the exporters without being lost, repeated or
\* overtaken.
LEMMA OrderStep == TypeOK /\ Order /\ Progress /\ [Next]_vars => Order'
  <1> SUFFICES ASSUME TypeOK, Order, Progress, [Next]_vars PROVE Order'
    OBVIOUS
  <1> USE ConstantsAssumption DEF Order, detector, forwarding, looping, watching
  <1>1. ASSUME NEW m \in Monitors, StartMonitor(m) PROVE Order'
    BY <1>1, Zenon DEF StartMonitor
  <1>2. ASSUME NEW m \in Monitors, StartFails(m) PROVE Order'
    BY <1>2, Zenon DEF StartFails
  <1>3. CASE StartsDone
    <2>1. ASSUME NEW m \in Monitors PROVE fwd[m] = "off" /\ fwd'[m] \in {"recv", "off"}
      BY <1>3 DEF StartsDone, Progress
    <2>2. UNCHANGED <<held, output, exported, produced>>
      BY <1>3, Zenon DEF StartsDone
    <2>3. ASSUME NEW m \in Monitors
          PROVE  Ordered(fwd'[m], held[m], output[m], exported[m], produced[m])
      <3>1. fwd[m] # "send" /\ fwd'[m] # "send"
        BY <2>1
      <3> QED
        BY <3>1, OrderedIdle, Zenon
    <2> QED
      BY <2>2, <2>3, Zenon
  <1>4. CASE Leave
    BY <1>4, Zenon DEF Leave
  <1>5. ASSUME NEW m \in Monitors, StopMonitor(m) PROVE Order'
    BY <1>5, Zenon DEF StopMonitor
  <1>6. ASSUME NEW m \in Monitors, StopReturns(m) PROVE Order'
    BY <1>6, Zenon DEF StopReturns
  <1>7. CASE Return
    BY <1>7, Zenon DEF Return
  <1>8. CASE Cancel
    BY <1>8, Zenon DEF Cancel
  <1>9. ASSUME NEW m \in Monitors, Serve(m) PROVE Order'
    <2>1. Ordered(fwd[m], held[m], output[m], exported[m], produced[m])
      BY Zenon
    <2>2. /\ fwd[m] = "send" /\ fwd'[m] = "recv" /\ exported'[m] = held[m]
          /\ held' = held /\ output' = output /\ produced' = produced
          /\ exported[m] \in Numbers /\ output[m] \in Seq(Numbers) /\ Len(output[m]) < Modulus
      BY <1>9 DEF Serve, TypeOK
    <2>3. \A n \in Monitors \ {m} :
             /\ fwd'[n] = fwd[n] /\ held'[n] = held[n] /\ output'[n] = output[n]
             /\ exported'[n] = exported[n] /\ produced'[n] = produced[n]
      BY <1>9 DEF Serve, TypeOK
    <2>4. Ordered(fwd'[m], held'[m], output'[m], exported'[m], produced'[m])
      <3>1. Ordered("recv", held[m], output[m], held[m], produced[m])
        BY <2>1, <2>2, OrderedServe, Zenon
      <3> QED
        BY <2>2, <3>1, Zenon
    <2> QED
      BY <2>3, <2>4, OrderOfOne, Zenon
  <1>10. ASSUME NEW m \in Monitors, Forward(m) PROVE Order'
    <2>1. Ordered(fwd[m], held[m], output[m], exported[m], produced[m])
      BY Zenon
    <2>2. /\ fwd[m] = "recv" /\ fwd'[m] = "send" /\ exported' = exported /\ produced' = produced
          /\ held'[m] = Head(output[m]) /\ output'[m] = Tail(output[m])
          /\ output[m] \in Seq(Numbers) /\ output[m] # <<>>
      BY <1>10 DEF Forward, TypeOK
    <2>3. \A n \in Monitors \ {m} :
             /\ fwd'[n] = fwd[n] /\ held'[n] = held[n] /\ output'[n] = output[n]
             /\ exported'[n] = exported[n] /\ produced'[n] = produced[n]
      BY <1>10 DEF Forward, TypeOK
    <2>4. Ordered(fwd'[m], held'[m], output'[m], exported'[m], produced'[m])
      <3>1. Ordered("send", Head(output[m]), Tail(output[m]), exported[m], produced[m])
        BY <2>1, <2>2, OrderedForward, Zenon
      <3> QED
        BY <2>2, <3>1, Zenon
    <2> QED
      BY <2>3, <2>4, OrderOfOne, Zenon
  <1>11. ASSUME NEW m \in Monitors, ForwardEnds(m) PROVE Order'
    <2>1. Ordered(fwd[m], held[m], output[m], exported[m], produced[m])
      BY Zenon
    <2>2. /\ fwd[m] # "send" /\ fwd'[m] # "send"
          /\ held' = held /\ output' = output /\ exported' = exported /\ produced' = produced
      BY <1>11 DEF ForwardEnds, TypeOK
    <2>3. \A n \in Monitors \ {m} :
             /\ fwd'[n] = fwd[n] /\ held'[n] = held[n] /\ output'[n] = output[n]
             /\ exported'[n] = exported[n] /\ produced'[n] = produced[n]
      BY <1>11 DEF ForwardEnds, TypeOK
    <2>4. Ordered(fwd'[m], held'[m], output'[m], exported'[m], produced'[m])
      BY <2>1, <2>2, OrderedIdle, Zenon
    <2> QED
      BY <2>3, <2>4, OrderOfOne, Zenon
  <1>12. ASSUME NEW m \in Monitors, Send(m) PROVE Order'
    <2>1. Ordered(fwd[m], held[m], output[m], exported[m], produced[m])
      BY Zenon
    <2>2. /\ fwd' = fwd /\ held' = held /\ exported' = exported
          /\ output'[m] = Append(output[m], Following(produced[m]))
          /\ produced'[m] = Following(produced[m])
          /\ output[m] \in Seq(Numbers) /\ Len(output[m]) < OutputCap
          /\ exported[m] \in Numbers /\ produced[m] \in Numbers
      BY <1>12 DEF Send, TypeOK
    <2>3. \A n \in Monitors \ {m} :
             /\ fwd'[n] = fwd[n] /\ held'[n] = held[n] /\ output'[n] = output[n]
             /\ exported'[n] = exported[n] /\ produced'[n] = produced[n]
      BY <1>12 DEF Send, TypeOK
    <2>4. Ordered(fwd'[m], held'[m], output'[m], exported'[m], produced'[m])
      <3>1. Ordered(fwd[m], held[m], Append(output[m], Following(produced[m])), exported[m],
                    Following(produced[m]))
        BY <2>1, <2>2, OrderedSend, Zenon
      <3> QED
        BY <2>2, <3>1, Zenon
    <2> QED
      BY <2>3, <2>4, OrderOfOne, Zenon
  <1>13. ASSUME NEW m \in Monitors, ReceiveLog(m) PROVE Order'
    BY <1>13, Zenon DEF ReceiveLog
  <1>14. ASSUME NEW m \in Monitors, LogsEnd(m) PROVE Order'
    BY <1>14, Zenon DEF LogsEnd, Finish
  <1>15. ASSUME NEW m \in Monitors, LoopStopping(m) PROVE Order'
    BY <1>15, Zenon DEF LoopStopping, Finish
  <1>16. ASSUME NEW m \in Monitors, LoopStopped(m) PROVE Order'
    BY <1>16, Zenon DEF LoopStopped, Finish
  <1>17. ASSUME NEW m \in Monitors, Read(m) PROVE Order'
    BY <1>17, Zenon DEF Read
  <1>18. ASSUME NEW m \in Monitors, ReadFails(m) PROVE Order'
    BY <1>18, Zenon DEF ReadFails, WatcherFinish
  <1>19. ASSUME NEW m \in Monitors, SendLog(m) PROVE Order'
    BY <1>19, Zenon DEF SendLog
  <1>20. ASSUME NEW m \in Monitors, WatcherStops(m) PROVE Order'
    BY <1>20, Zenon DEF WatcherStops, WatcherFinish
  <1>21. CASE UNCHANGED vars
    BY <1>21, Zenon DEF vars
  <1> QED
    BY <1>1, <1>2, <1>3, <1>4, <1>5, <1>6, <1>7, <1>8, <1>9, <1>10, <1>11, <1>12, <1>13,
       <1>14, <1>15, <1>16, <1>17, <1>18, <1>19, <1>20, <1>21, Zenon
    DEF Next, RunStep

\* Loops and watchers end in the order their tombs impose.
LEMMA GoroutinesStep == TypeOK /\ Goroutines /\ Progress /\ [Next]_vars => Goroutines'
  <1> SUFFICES ASSUME TypeOK, Goroutines, Progress, [Next]_vars PROVE Goroutines'
    OBVIOUS
  <1> USE ConstantsAssumption DEF TypeOK, Goroutines, detector, forwarding, looping, watching
  <1>1. ASSUME NEW m \in Monitors, StartMonitor(m) PROVE Goroutines'
    BY <1>1 DEF StartMonitor, Progress
  <1>2. ASSUME NEW m \in Monitors, StartFails(m) PROVE Goroutines'
    BY <1>2 DEF StartFails
  <1>3. CASE StartsDone
    BY <1>3 DEF StartsDone
  <1>4. CASE Leave
    BY <1>4 DEF Leave
  <1>5. ASSUME NEW m \in Monitors, StopMonitor(m) PROVE Goroutines'
    BY <1>5 DEF StopMonitor
  <1>6. ASSUME NEW m \in Monitors, StopReturns(m) PROVE Goroutines'
    BY <1>6 DEF StopReturns
  <1>7. CASE Return
    BY <1>7 DEF Return
  <1>8. CASE Cancel
    BY <1>8 DEF Cancel
  <1>9. ASSUME NEW m \in Monitors, Serve(m) PROVE Goroutines'
    BY <1>9 DEF Serve
  <1>10. ASSUME NEW m \in Monitors, Forward(m) PROVE Goroutines'
    BY <1>10 DEF Forward
  <1>11. ASSUME NEW m \in Monitors, ForwardEnds(m) PROVE Goroutines'
    BY <1>11 DEF ForwardEnds
  <1>12. ASSUME NEW m \in Monitors, Send(m) PROVE Goroutines'
    <2>1. loop[m] \in {"initial", "send"} /\ UNCHANGED <<started, done, watching>>
      BY <1>12 DEF Send
    <2>2. CASE loop[m] = "initial" \/ pending[m] = 1
      <3>1. loop' = [loop EXCEPT ![m] = "select"]
        BY <1>12, <2>2 DEF Send
      <3>2. pending' = [pending EXCEPT ![m] = 0]
        BY <1>12, <2>2 DEF Send
      <3> QED
        BY <2>1, <3>1, <3>2
    <2>3. CASE ~(loop[m] = "initial" \/ pending[m] = 1)
      <3>1. loop' = loop
        BY <1>12, <2>3 DEF Send
      <3>2. pending' = [pending EXCEPT ![m] = pending[m] - 1]
        BY <1>12, <2>3 DEF Send
      <3>3. pending[m] - 1 > 0
        BY <2>1, <2>3
      <3>4. \A n \in Monitors : loop[n] = "send" => pending'[n] > 0
        BY <3>2, <3>3
      <3> QED
        BY <2>1, <3>1, <3>4
    <2> QED
      BY <2>2, <2>3, Zenon
  <1>13. ASSUME NEW m \in Monitors, ReceiveLog(m) PROVE Goroutines'
    BY <1>13 DEF ReceiveLog
  <1>14. ASSUME NEW m \in Monitors, LogsEnd(m) PROVE Goroutines'
    BY <1>14, Zenon DEF LogsEnd, Finish
  <1>15. ASSUME NEW m \in Monitors, LoopStopping(m) PROVE Goroutines'
    BY <1>15 DEF LoopStopping, Finish
  <1>16. ASSUME NEW m \in Monitors, LoopStopped(m) PROVE Goroutines'
    BY <1>16, Zenon DEF LoopStopped, Finish
  <1>17. ASSUME NEW m \in Monitors, Read(m) PROVE Goroutines'
    BY <1>17, Zenon DEF Read
  <1>18. ASSUME NEW m \in Monitors, ReadFails(m) PROVE Goroutines'
    BY <1>18 DEF ReadFails, WatcherFinish
  <1>19. ASSUME NEW m \in Monitors, SendLog(m) PROVE Goroutines'
    BY <1>19, Zenon DEF SendLog
  <1>20. ASSUME NEW m \in Monitors, WatcherStops(m) PROVE Goroutines'
    BY <1>20 DEF WatcherStops, WatcherFinish
  <1>21. CASE UNCHANGED vars
    BY <1>21, Zenon DEF vars
  <1> QED
    BY <1>1, <1>2, <1>3, <1>4, <1>5, <1>6, <1>7, <1>8, <1>9, <1>10, <1>11, <1>12, <1>13,
       <1>14, <1>15, <1>16, <1>17, <1>18, <1>19, <1>20, <1>21, Zenon
    DEF Next, RunStep

\* Run starts its monitors one after the other, and waits for each as it stops it.
LEMMA ProgressStep == TypeOK /\ Goroutines /\ Progress /\ [Next]_vars => Progress'
  <1> SUFFICES ASSUME TypeOK, Goroutines, Progress, [Next]_vars PROVE Progress'
    OBVIOUS
  <1> USE ConstantsAssumption DEF TypeOK, Progress, detector, forwarding, looping, watching
  <1>1. ASSUME NEW m \in Monitors, StartMonitor(m) PROVE Progress'
    BY <1>1 DEF StartMonitor
  <1>2. ASSUME NEW m \in Monitors, StartFails(m) PROVE Progress'
    BY <1>2 DEF StartFails
  <1>3. CASE StartsDone
    BY <1>3, Zenon DEF StartsDone
  <1>4. CASE Leave
    <2>1. pc' = "stop" /\ \A m \in Monitors : ~(m < cur')
      BY <1>4 DEF Leave, Monitors
    <2> QED
      BY <2>1
  <1>5. ASSUME NEW m \in Monitors, StopMonitor(m) PROVE Progress'
    BY <1>5, Zenon DEF StopMonitor
  <1>6. ASSUME NEW m \in Monitors, StopReturns(m) PROVE Progress'
    BY <1>6 DEF StopReturns
  <1>7. CASE Return
    <2>1. pc' = "returned" /\ done' = done
      BY <1>7, Zenon DEF Return
    <2>2. \A m \in Monitors : m < cur
      BY <1>7 DEF Return, Monitors
    <2> QED
      BY <1>7, <2>1, <2>2, Zenon DEF Return
  <1>8. CASE Cancel
    BY <1>8, Zenon DEF Cancel
  <1>9. ASSUME NEW m \in Monitors, Serve(m) PROVE Progress'
    BY <1>9, Zenon DEF Serve
  <1>10. ASSUME NEW m \in Monitors, Forward(m) PROVE Progress'
    BY <1>10, Zenon DEF Forward
  <1>11. ASSUME NEW m \in Monitors, ForwardEnds(m) PROVE Progress'
    BY <1>11, Zenon DEF ForwardEnds
  <1>12. ASSUME NEW m \in Monitors, Send(m) PROVE Progress'
    BY <1>12, Zenon DEF Send
  <1>13. ASSUME NEW m \in Monitors, ReceiveLog(m) PROVE Progress'
    BY <1>13, Zenon DEF ReceiveLog
  <1>14. ASSUME NEW m \in Monitors, LogsEnd(m) PROVE Progress'
    BY <1>14, Zenon DEF LogsEnd, Finish
  <1>15. ASSUME NEW m \in Monitors, LoopStopping(m) PROVE Progress'
    <2>1. UNCHANGED <<pc, cur, started, fwd>>
      BY <1>15, Zenon DEF LoopStopping
    <2>2. \A n \in Monitors : done[n] => done'[n]
      <3>1. CASE Kind[m] = "stats"
        <4>1. done' = [done EXCEPT ![m] = TRUE]
          BY <1>15, <3>1, Zenon DEF LoopStopping, Finish
        <4> QED
          BY <4>1, Zenon
      <3>2. CASE Kind[m] # "stats"
        <4>1. done' = done
          BY <1>15, <3>2, Zenon DEF LoopStopping
        <4> QED
          BY <4>1, Zenon
      <3> QED
        BY <3>1, <3>2, Zenon
    <2> QED
      BY <2>1, <2>2, Zenon
  <1>16. ASSUME NEW m \in Monitors, LoopStopped(m) PROVE Progress'
    BY <1>16, Zenon DEF LoopStopped, Finish
  <1>17. ASSUME NEW m \in Monitors, Read(m) PROVE Progress'
    BY <1>17, Zenon DEF Read
  <1>18. ASSUME NEW m \in Monitors, ReadFails(m) PROVE Progress'
    BY <1>18, Zenon DEF ReadFails, WatcherFinish
  <1>19. ASSUME NEW m \in Monitors, SendLog(m) PROVE Progress'
    BY <1>19, Zenon DEF SendLog
  <1>20. ASSUME NEW m \in Monitors, WatcherStops(m) PROVE Progress'
    BY <1>20, Zenon DEF WatcherStops, WatcherFinish
  <1>21. CASE UNCHANGED vars
    BY <1>21, Zenon DEF vars
  <1> QED
    BY <1>1, <1>2, <1>3, <1>4, <1>5, <1>6, <1>7, <1>8, <1>9, <1>10, <1>11, <1>12, <1>13,
       <1>14, <1>15, <1>16, <1>17, <1>18, <1>19, <1>20, <1>21, Zenon
    DEF Next, RunStep
-----------------------------------------------------------------------------
\* The invariant holds in every reachable state.
THEOREM Invariance == Spec => []IInv
  <1>1. IInv /\ [Next]_vars => IInv'
    BY TypeStep, OrderStep, GoroutinesStep, ProgressStep DEF IInv
  <1> QED
    BY InitInv, <1>1, PTL DEF Spec

\* Every variable has its type; in particular no channel exceeds its capacity.
THEOREM TypeCorrect == Spec => []TypeOK
  <1>1. IInv => TypeOK
    BY DEF IInv
  <1> QED
    BY Invariance, <1>1, PTL

\* Neither the output channel nor the goroutine of groupChannel loses, repeats or
\* reorders a status of any monitor, also while NPD starts or stops.
THEOREM StatusesInOrderAlways == Spec => []StatusesInOrder
  <1>1. IInv => StatusesInOrder
    <2> SUFFICES ASSUME IInv, NEW m \in Monitors
                 PROVE  Consecutive(InFlight(m), exported[m], produced[m])
      BY DEF StatusesInOrder, Consecutive, Nth
    <2>1. held[m] \in Numbers /\ output[m] \in Seq(Numbers)
      BY Zenon DEF IInv, TypeOK
    <2>2. Ordered(fwd[m], held[m], output[m], exported[m], produced[m])
      BY Zenon DEF IInv, Order
    <2>3. InFlight(m) = (IF fwd[m] = "send" THEN <<held[m]>> ELSE <<>>) \o output[m]
      BY Zenon DEF InFlight
    <2> QED
      BY <2>1, <2>2, <2>3, OrderedInFlight, Zenon
  <1> QED
    BY Invariance, <1>1, PTL

\* When Run returns, no loop of a monitor and no watch loop of its watcher is left running:
\* Run waits for each loop in turn, and each loop for that of its watcher.
THEOREM ReturnedIsQuietAlways == Spec => []ReturnedIsQuiet
  <1>1. IInv => ReturnedIsQuiet
    BY Zenon DEF IInv, Goroutines, Progress, ReturnedIsQuiet
  <1> QED
    BY Invariance, <1>1, PTL
==============================================================================
