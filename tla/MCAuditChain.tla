---------------------------- MODULE MCAuditChain -----------------------------
(* Two processes and two keys, so one rotation; no file yet, or one with a *)
(* line of the old format, and three lines appended to it.                 *)
EXTENDS AuditChain, TLC

CONSTANTS p1, p2, k1, k2

MCProcesses == {p1, p2}
MCFresh == {k1, k2}
ChainSymmetry == Permutations(MCProcesses) \cup Permutations(MCFresh)
=============================================================================
