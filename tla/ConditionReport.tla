--------------------------- MODULE ConditionReport ---------------------------
(***************************************************************************)
(* What the Kubernetes exporter promises about node conditions, without    *)
(* the machinery that delivers it (pending map, lock, retries, resyncs):   *)
(* three registers per condition type.  reported is what a problem daemon  *)
(* said last, target is what the exporter has adopted as the state it      *)
(* wants the API server to show, visible is what the Node object shows.    *)
(* Outstanding reports are adopted together, the whole target is published *)
(* at once, and nothing but a publication changes what is visible unless   *)
(* it is on record in foreign as somebody else's write.                    *)
(***************************************************************************)
CONSTANTS Types,   \* condition types maintained by the exporter
          Values,  \* contents of a condition: status, reason, message, transition
          None     \* no condition of that type

VARIABLES reported, target, visible,
          foreign  \* types whose visible value somebody else wrote last

rvars == <<reported, target, visible, foreign>>

Register == [Types -> Values \cup {None}]
Nothing == [t \in Types |-> None]

\* Strategic merge by condition type: a type the patch does not carry is kept.
Merge(old, new) == [t \in Types |-> IF new[t] = None THEN old[t] ELSE new[t]]

\* What the node shows at the start was written by somebody else.
Init ==
    /\ reported = Nothing
    /\ target = Nothing
    /\ visible \in Register
    /\ foreign = Types

\* A problem daemon reports v for t.
Report(t, v) ==
    /\ reported' = [reported EXCEPT ![t] = v]
    /\ UNCHANGED <<target, visible, foreign>>

\* The exporter adopts everything reported so far.
Adopt ==
    /\ target' = reported
    /\ UNCHANGED <<reported, visible, foreign>>

\* The Node object shows the whole target.
Publish ==
    /\ visible' = Merge(visible, target)
    /\ foreign' = {t \in foreign : target[t] = None}
    /\ UNCHANGED <<reported, target>>

\* Another client, or an abandoned patch of the past that arrives late, writes
\* the conditions of the types in T.
Interfere(T) ==
    /\ visible' \in Register
    /\ \A t \in Types \ T : visible'[t] = visible[t]
    /\ foreign' = foreign \cup T
    /\ UNCHANGED <<reported, target>>

\* The process restarts and knows nothing until the daemons report again.
Forget ==
    /\ reported' = Nothing
    /\ target' = Nothing
    /\ foreign' = Types
    /\ UNCHANGED visible

Next ==
    \/ \E t \in Types, v \in Values : Report(t, v)
    \/ Adopt
    \/ Publish
    \/ \E T \in SUBSET Types : Interfere(T)
    \/ Forget

Spec == Init /\ [][Next]_rvars
=============================================================================
