------------------------- MODULE MCStartupWorkflow -------------------------
(* Instances of StartupWorkflow for TLC. *)
EXTENDS StartupWorkflow

\* Bound: over two connections no deadline of a step passes and the finder stays
\* as it is; MCParts has both, over one.
OnTimeSpec == Init /\ [][OnTime]_vars /\ Fairness
=============================================================================
