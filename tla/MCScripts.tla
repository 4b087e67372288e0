------------------------------ MODULE MCScripts ------------------------------
(* Small instances of Scripts. *)
EXTENDS Scripts

Checker ==
    [component |-> "kubelet", service |-> "", enableRepair |-> TRUE, crictlPath |-> TRUE,
     criSocketPath |-> TRUE, endpointURL |-> TRUE, logPatterns |-> <<>>,
     loopBackTime |-> 0, commandsFail |-> FALSE, dies |-> FALSE]
Item(p, n) == [pattern |-> p, count |-> n]
Repairing == {Checker, [Checker EXCEPT !.dies = TRUE, !.commandsFail = TRUE]}
Reading ==
    {[Checker EXCEPT !.component = "cri", !.logPatterns = <<Item("p", 3), Item("p", 1)>>,
                     !.loopBackTime = 1],
     [Checker EXCEPT !.component = "docker", !.enableRepair = FALSE, !.commandsFail = TRUE,
                     !.logPatterns = <<Item("p", 1), Item("q", 1)>>],
     [Checker EXCEPT !.component = "cri", !.crictlPath = FALSE],
     [Checker EXCEPT !.endpointURL = FALSE],
     [Checker EXCEPT !.component = "other"],
     [Checker EXCEPT !.logPatterns = <<Item("p", 0)>>]}

Writes(out, err) == [stdout |-> out, stderr |-> err]
Run(script, deadline, faulty, writes, forks, options_) ==
    [script |-> script, deadline |-> deadline, faulty |-> faulty, writes |-> writes,
     forks |-> forks, options |-> options_]
MCPlans ==
    {Run("plain", TRUE, FALSE, Writes(1, 0), TRUE, {Checker}),
     Run("plain", TRUE, TRUE, Writes(1, 1), FALSE, {Checker}),
     Run("plain", FALSE, FALSE, Writes(4, 3), FALSE, {Checker}),
     Run("plain", FALSE, FALSE, Writes(0, 1), TRUE, {Checker}),
     Run("health", FALSE, FALSE, Writes(0, 0), FALSE, Reading \cup {Checker}),
     Run("health", TRUE, FALSE, Writes(0, 0), FALSE, Repairing),
     Run("counter", TRUE, FALSE, Writes(0, 0), FALSE, {Checker})}

One(l) == [letters |-> l, star |-> FALSE]
Alt(classes) == <<[start |-> FALSE, classes |-> classes]>>
\* a, reverted by b;  a\\nb;  and a journal that cannot be watched
MCCounterOptions ==
    {[pattern |-> Alt(<<One({"a"})>>), revertPattern |-> Alt(<<One({"b"})>>), count |-> 1,
      watchFails |-> FALSE],
     [pattern |-> Alt(<<One({"a"}), One({Newline}), One({"b"})>>), revertPattern |-> <<>>,
      count |-> 2, watchFails |-> FALSE],
     [pattern |-> Alt(<<One({"a"})>>), revertPattern |-> <<>>, count |-> 1, watchFails |-> TRUE]}
MCLogLines == {<<"a">>, <<"b">>}
=============================================================================
