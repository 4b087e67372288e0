---------------------------- MODULE MCLogMonitor ----------------------------
(* Small instances of LogMonitor. *)
EXTENDS LogMonitor

One(l) == [letters |-> l, star |-> FALSE]
Many(l) == [letters |-> l, star |-> TRUE]
A == {"a"}
B == {"b"}
Dot == {"a", "b"}
Alt(classes) == [start |-> FALSE, classes |-> classes]

\* a;  a\nb;  ^.*a;  bb|ba, where the end binds to ba only;  b
MCRules ==
    <<[perm |-> FALSE, condition |-> "none", reason |-> "r1", pattern |-> <<Alt(<<One(A)>>)>>],
      [perm |-> TRUE, condition |-> "C", reason |-> "r2",
       pattern |-> <<Alt(<<One(A), One({Newline}), Many(Dot), One(B)>>)>>],
      [perm |-> TRUE, condition |-> "C", reason |-> "r3",
       pattern |-> <<[start |-> TRUE, classes |-> <<Many(Dot), One(A)>>]>>],
      [perm |-> TRUE, condition |-> "D", reason |-> "r4",
       pattern |-> <<Alt(<<One(B), One(B)>>), Alt(<<One(B), One(A)>>)>>],
      [perm |-> TRUE, condition |-> "C", reason |-> "r2", pattern |-> <<Alt(<<One(B)>>)>>]>>

MCConditions == <<[type |-> "C", reason |-> "ok"]>>

E(m, c) == [message |-> m, class |-> c]
MCEntries ==
    [kmsg |-> {E(<<"a">>, "ok"), E(<<"b", "b">>, "old")},
     filelog |-> {E(<<"a">>, "ok"), E(<<"b">>, "skip")},
     journald |-> {E(<<>>, "ok"), E(<<"b", "a">>, "ok"), E(<<"b", "b">>, "ok")}]
\* Metrics and conditions are switched off under one of the watchers.
On == [reporting |-> TRUE, updateConditions |-> TRUE]
Off == [reporting |-> FALSE, updateConditions |-> FALSE]
MCSettings == [kmsg |-> {On}, filelog |-> {On}, journald |-> {On, Off}]
MCMaxEntries == [kmsg |-> 3, filelog |-> 2, journald |-> 3]
=============================================================================
