--------------------------- MODULE MCProcessManager ---------------------------
(* Instances of ProcessManager for TLC. *)
EXTENDS ProcessManager, TLC

CONSTANTS p1, p2, p3, p4, c1, c2

MCPids == {p1, p2, p3, p4}
MCThreePids == {p1, p2, p3}
MCOneCaller == {c1}
MCTwoCallers == {c1, c2}

\* Pids are interchangeable, and so are callers.
MCSymmetry == Permutations(MCPids) \cup Permutations(MCTwoCallers)
=============================================================================
