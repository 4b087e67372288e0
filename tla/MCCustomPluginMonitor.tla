----------------------- MODULE MCCustomPluginMonitor -----------------------
(* Instances of CustomPluginMonitor for TLC.                                *)
EXTENDS CustomPluginMonitor, TLC

\* Reasons are interchangeable, and so are messages.
Symmetry == Permutations(Reasons) \cup Permutations(Messages)
=============================================================================
