------------------------- MODULE MCProblemDetector -------------------------
(* Instances of ProblemDetector for TLC.                                    *)
EXTENDS ProblemDetector

FilePlugin == <<"filelog", "custom">>
LogStats == <<"kmsg", "stats">>
=============================================================================
