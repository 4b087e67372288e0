-------------------------- MODULE ConditionManager --------------------------
(***************************************************************************)
(* The condition manager of the Kubernetes exporter together with the      *)
(* problem client it calls and the API server behind it.                   *)
(*                                                                         *)
(* Goroutines: callers of UpdateCondition (the problem detector), and one  *)
(* sync routine, woken by a ticker of period updatePeriod.  The clock is   *)
(* counted in update periods and kept as the age of latestTry, which is    *)
(* all the code ever reads of it; the age saturates where both of its      *)
(* comparisons have become true for good.                                  *)
(*                                                                         *)
(* The API server may reject a patch, apply it and lose the answer, or     *)
(* apply it long after the client gave up on it; other clients may write   *)
(* the same conditions or delete and re-create the Node object; the        *)
(* process may be cancelled or restarted at any moment.                    *)
(***************************************************************************)
EXTENDS Integers, FiniteSets

CONSTANTS Types,            \* condition types
          Values,           \* condition contents (status, reason, message, transition)
          UIDs,             \* UIDs a Node object of this name may get
          None,             \* absent condition, absent UID
          ResyncPeriod,     \* resyncPeriod, in update periods
          HeartbeatPeriod,  \* heartbeatPeriod, in update periods
          RetrySteps,       \* retry.DefaultRetry.Steps
          MaxLate           \* bound: abandoned patches the server may still apply

ASSUME ManagerAssumption ==
    /\ None \notin Values \cup UIDs
    /\ UIDs # {}
    /\ ResyncPeriod \in Nat \ {0}
    /\ HeartbeatPeriod \in Nat
    /\ RetrySteps \in Nat \ {0}
    /\ MaxLate \in Nat

VARIABLES
    updates,        \* pending reports by type
    conditions,     \* conditions the sync routine maintains
    sinceTry,       \* age of latestTry
    resyncNeeded,
    sync,           \* sync routine: "wait" (exporter not built), "select", "patch", "returned"
    patch,          \* body of the last SetConditions call
    attempts,       \* attempts left in retry.OnError
    cachedNodeRef,  \* UID in the cached node reference
    tick,           \* ticker channel holds a tick
    ctxDone,        \* ctx is done
    node,           \* conditions of the Node object
    nodeUID,        \* its UID
    late,           \* patches the client gave up on that the server may still apply
    foreign         \* history: types of node last written by somebody else

manager == <<updates, conditions, sinceTry, resyncNeeded>>
client == <<sync, patch, attempts, cachedNodeRef>>
server == <<node, nodeUID, late, foreign>>
managerVars == <<manager, client, tick, ctxDone, server>>

Register == [Types -> Values \cup {None}]
Nothing == [t \in Types |-> None]
MaxAge == IF ResyncPeriod > HeartbeatPeriod THEN ResyncPeriod ELSE HeartbeatPeriod

\* What the problem daemons reported last: a pending update hides the
\* condition it will replace.
Reported == [t \in Types |-> IF updates[t] # None THEN updates[t] ELSE conditions[t]]

ManagerTypeOK ==
    /\ updates \in Register /\ conditions \in Register /\ patch \in Register
    /\ sinceTry \in 0..MaxAge
    /\ resyncNeeded \in BOOLEAN /\ tick \in BOOLEAN /\ ctxDone \in BOOLEAN
    /\ sync \in {"wait", "select", "patch", "returned"}
    /\ attempts \in 0..RetrySteps
    /\ cachedNodeRef \in UIDs \cup {None} /\ nodeUID \in UIDs
    /\ node \in Register
    /\ late \in SUBSET Register
    /\ foreign \in SUBSET Types
-----------------------------------------------------------------------------
(* API server: strategic merge patch of the status, keyed by condition type. *)

Merge(old, new) == [t \in Types |-> IF new[t] = None THEN old[t] ELSE new[t]]

Carried(p) == {t \in Types : p[t] # None}

Apply(p) == node' = Merge(node, p)
-----------------------------------------------------------------------------
(* Start.                                                                   *)

\* NewConditionManager, after NewClientOrDie; latestTry is the zero time, so
\* its age is beyond every period.
InitProcess ==
    /\ updates = Nothing
    /\ conditions = Nothing
    /\ sinceTry = MaxAge
    /\ resyncNeeded = FALSE
    /\ sync = "wait"
    /\ patch = Nothing
    /\ attempts = 0
    /\ cachedNodeRef = None
    /\ tick = FALSE
    /\ ctxDone = FALSE

ManagerInit ==
    /\ InitProcess
    /\ node \in Register
    /\ nodeUID \in UIDs
    /\ late = {}
    /\ foreign = Types

\* The UID is stored only while there is none.
cacheNodeRef(uid) == cachedNodeRef' = IF cachedNodeRef = None THEN uid ELSE cachedNodeRef

\* waitForAPIServerReadyWithTimeout: the poll ends with the first answer of
\* GetNode, good or bad; the exporter is built and its sync routine started
\* either way.
WaitForAPIServer ==
    /\ sync = "wait"
    /\ \/ cacheNodeRef(nodeUID)
       \/ UNCHANGED cachedNodeRef
    /\ sync' = "select"
    /\ UNCHANGED <<manager, patch, attempts, tick, ctxDone, server>>
-----------------------------------------------------------------------------
(* Callers of the manager.                                                  *)

UpdateCondition(t, v) ==
    /\ sync # "wait"
    /\ updates' = [updates EXCEPT ![t] = v]
    /\ UNCHANGED <<conditions, sinceTry, resyncNeeded, client, tick, ctxDone, server>>

\* The ticker's channel has room for one tick, later ones are dropped; it is
\* created when the sync routine starts and stopped when it returns.
Tick ==
    /\ sinceTry' = IF sinceTry < MaxAge THEN sinceTry + 1 ELSE MaxAge
    /\ tick' = (tick \/ sync \in {"select", "patch"})
    /\ UNCHANGED <<updates, conditions, resyncNeeded, client, ctxDone, server>>

CtxDone ==
    /\ ~ctxDone
    /\ ctxDone' = TRUE
    /\ UNCHANGED <<manager, client, tick, server>>
-----------------------------------------------------------------------------
(* The sync routine.                                                        *)

\* Mutant of needUpdates: any pending update counts, equal or not.
needUpdatesAny == \E t \in Types : updates[t] # None

\* Some pending update differs from the condition it replaces.
needUpdates == \E t \in Types : updates[t] # None /\ updates[t] # conditions[t]

\* Mutant of needResync: the period must be exceeded.
needResyncLater == sinceTry > ResyncPeriod /\ resyncNeeded

needResync == sinceTry >= ResyncPeriod /\ resyncNeeded

\* Mutant of needHeartbeat: heartbeats only while a resync is needed.
needHeartbeatIfFailed == sinceTry >= HeartbeatPeriod /\ resyncNeeded

needHeartbeat == sinceTry >= HeartbeatPeriod

\* One turn of the loop: pending updates move to conditions under the lock,
\* whether or not they change anything; if one of the three reasons holds,
\* sync() records the try and hands all conditions to SetConditions, which
\* marshals them once, before its retries.
HandleTick ==
    /\ sync = "select"
    /\ tick
    /\ tick' = FALSE
    /\ conditions' = Reported
    /\ updates' = Nothing
    /\ IF needUpdates \/ needResync \/ needHeartbeat
         THEN /\ sinceTry' = 0
              /\ resyncNeeded' = FALSE
              /\ patch' = Reported
              /\ attempts' = RetrySteps
              /\ sync' = "patch"
         ELSE UNCHANGED <<sinceTry, resyncNeeded, patch, attempts, sync>>
    /\ UNCHANGED <<cachedNodeRef, ctxDone, server>>

\* ctx.Done is selected; with a tick pending as well the choice is random.
HandleDone ==
    /\ sync = "select"
    /\ ctxDone
    /\ sync' = "returned"
    /\ UNCHANGED <<manager, patch, attempts, cachedNodeRef, tick, ctxDone, server>>

\* Mutant of PatchOK: reports that came in during the call count as sent.
PatchOKClearsUpdates ==
    /\ sync = "patch"
    /\ Apply(patch)
    /\ foreign' = foreign \ Carried(patch)
    /\ cacheNodeRef(nodeUID)
    /\ updates' = Nothing
    /\ sync' = "select"
    /\ attempts' = 0
    /\ UNCHANGED <<conditions, sinceTry, resyncNeeded, patch, tick, ctxDone, nodeUID, late>>

\* Mutant of PatchOK: the UID in the answer is ignored.
PatchOKNoUID ==
    /\ sync = "patch"
    /\ Apply(patch)
    /\ foreign' = foreign \ Carried(patch)
    /\ sync' = "select"
    /\ attempts' = 0
    /\ UNCHANGED <<manager, patch, cachedNodeRef, tick, ctxDone, nodeUID, late>>

\* PatchStatus succeeds: the server applied the patch and its answer names the
\* Node's UID.
PatchOK ==
    /\ sync = "patch"
    /\ Apply(patch)
    /\ foreign' = foreign \ Carried(patch)
    /\ cacheNodeRef(nodeUID)
    /\ sync' = "select"
    /\ attempts' = 0
    /\ UNCHANGED <<manager, patch, tick, ctxDone, nodeUID, late>>

\* Mutant of Retry: the final error is only logged.
RetryNoResync ==
    /\ sync = "patch"
    /\ attempts' = attempts - 1
    /\ sync' = IF attempts > 1 THEN sync ELSE "select"
    /\ UNCHANGED <<manager, patch, cachedNodeRef, tick, ctxDone>>

\* An error of PatchStatus: every error is retried until the steps run out,
\* then SetConditions fails and sync() asks for a resync.
Retry ==
    /\ sync = "patch"
    /\ attempts' = attempts - 1
    /\ IF attempts > 1
         THEN UNCHANGED <<sync, resyncNeeded>>
         ELSE sync' = "select" /\ resyncNeeded' = TRUE
    /\ UNCHANGED <<updates, conditions, sinceTry, patch, cachedNodeRef, tick, ctxDone>>

\* The request was refused, or never reached the server.
PatchFailed ==
    /\ Retry
    /\ UNCHANGED server

\* The server applied the patch but the answer was lost.
PatchUnacknowledged ==
    /\ Retry
    /\ Apply(patch)
    /\ foreign' = foreign \ Carried(patch)
    /\ UNCHANGED <<nodeUID, late>>

\* The client sees an error while the request is still on its way.
PatchAbandoned ==
    /\ Retry
    /\ Cardinality(late \cup {patch}) <= MaxLate
    /\ late' = late \cup {patch}
    /\ UNCHANGED <<node, nodeUID, foreign>>
-----------------------------------------------------------------------------
(* The rest of the cluster, and restarts.                                   *)

ApplyLate(p) ==
    /\ p \in late
    /\ Apply(p)
    /\ late' = late \ {p}
    /\ foreign' = foreign \cup Carried(p)
    /\ UNCHANGED <<manager, client, tick, ctxDone, nodeUID>>

ExternalWrite(t, v) ==
    /\ node' = [node EXCEPT ![t] = v]
    /\ foreign' = foreign \cup {t}
    /\ UNCHANGED <<manager, client, tick, ctxDone, nodeUID, late>>

RecreateNode(uid) ==
    /\ uid # nodeUID
    /\ nodeUID' = uid
    /\ node' = Nothing
    /\ foreign' = Types
    /\ UNCHANGED <<manager, client, tick, ctxDone, late>>

Restart ==
    /\ updates' = Nothing
    /\ conditions' = Nothing
    /\ sinceTry' = MaxAge
    /\ resyncNeeded' = FALSE
    /\ sync' = "wait"
    /\ patch' = Nothing
    /\ attempts' = 0
    /\ cachedNodeRef' = None
    /\ tick' = FALSE
    /\ ctxDone' = FALSE
    /\ foreign' = Types
    /\ UNCHANGED <<node, nodeUID, late>>
-----------------------------------------------------------------------------
SyncLoop ==
    \/ WaitForAPIServer
    \/ HandleTick
    \/ HandleDone
    \/ PatchOK
    \/ PatchFailed
    \/ PatchUnacknowledged
    \/ PatchAbandoned

\* What somebody else does to the Node or to the process.
Disturbance ==
    \/ CtxDone
    \/ \E p \in late : ApplyLate(p)
    \/ \E t \in Types, v \in Values \cup {None} : ExternalWrite(t, v)
    \/ \E uid \in UIDs : RecreateNode(uid)
    \/ Restart

ManagerNext ==
    \/ \E t \in Types, v \in Values : UpdateCondition(t, v)
    \/ Tick
    \/ SyncLoop
    \/ Disturbance

ManagerSpec == ManagerInit /\ [][ManagerNext]_managerVars

\* Time passes, the sync routine is scheduled, and an API server that is asked
\* again and again answers some time.
ManagerFairness ==
    /\ WF_managerVars(Tick)
    /\ WF_managerVars(SyncLoop)
    /\ SF_managerVars(PatchOK)

ManagerFairSpec == ManagerSpec /\ ManagerFairness
-----------------------------------------------------------------------------
(* Properties.                                                              *)

\* When the sync routine is idle and no resync is pending, the Node shows
\* every condition the manager maintains, unless somebody else wrote it since:
\* a failed, half-failed or superseded SetConditions never goes unnoticed
\* (sync, SetConditions).
Synced ==
    sync = "select" /\ ~resyncNeeded =>
        \A t \in Types \ foreign : conditions[t] # None => node[t] = conditions[t]

\* With its ticks consumed, the idle sync routine is never overdue: a failed
\* sync is repeated as soon as ResyncPeriod has passed and any sync as soon as
\* HeartbeatPeriod has, however long the retries before took (needResync,
\* needHeartbeat).
Punctual ==
    sync = "select" /\ ~tick =>
        /\ resyncNeeded => sinceTry < ResyncPeriod
        /\ patch # Nothing /\ HeartbeatPeriod > 0 => sinceTry < HeartbeatPeriod

\* Two consecutive SetConditions calls with the same conditions are at least
\* the shorter of the two periods apart: reports that change nothing do not
\* reach the API server ("won't flood apiserver").
NoFlood ==
    [][sync = "select" /\ sync' = "patch" /\ patch' = patch =>
          sinceTry >= ResyncPeriod \/ sinceTry >= HeartbeatPeriod]_managerVars

\* If GetNode failed at start, the first successful patch supplies the UID that
\* events refer to (comment in waitForAPIServerReadyWithTimeout).
PatchCachesUID ==
    sync = "select" /\ patch # Nothing /\ ~resyncNeeded => cachedNodeRef # None

\* The manager implements the three registers of ConditionReport: every report
\* is kept until adopted or replaced by a newer one of its type, whatever the
\* sync routine is doing; reports are adopted together; and whatever the
\* exporter makes visible is exactly what it has adopted.
Report == INSTANCE ConditionReport
            WITH reported <- Reported, target <- conditions, visible <- node
ImplementsReport == Report!Spec

\* Once the outside world leaves the Node and the process alone, a report that
\* is not replaced ends up on the Node for good, whatever was lost, late or
\* overwritten before.
Convergence ==
    \A t \in Types, v \in Values :
        /\ <>[][~Disturbance]_managerVars
        /\ <>[]~ctxDone
        /\ <>[](Reported[t] = v)
        => <>[](node[t] = v)
=============================================================================
