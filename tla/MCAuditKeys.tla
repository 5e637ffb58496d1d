---------------------------- MODULE MCAuditKeys -----------------------------
(* Three processes, two fresh keys, and a document of two keys, one or     *)
(* none of which is current.                                               *)
EXTENDS AuditKeys, TLC

CONSTANTS p1, p2, p3, k1, k2, old, older

MCProcesses == {p1, p2, p3}
MCFresh == {k1, k2}
MCLegacy == {old, older}
KeySymmetry ==
  Permutations(MCProcesses) \cup Permutations(MCFresh) \cup Permutations(MCLegacy)
=============================================================================
