-------------------------- MODULE OneTimeApproval ---------------------------
(***************************************************************************)
(* What an approval boundary promises: the host grants approvals, and each *)
(* approval is spent by at most one use, after it was granted.             *)
(***************************************************************************)

CONSTANTS
  Approvals,  \* what the host can grant
  Uses        \* what can spend an approval

VARIABLES
  granted,    \* the approvals granted so far
  spent       \* which use spent which approval

vars == <<granted, spent>>

Init == granted = {} /\ spent = {}

Grant ==
  /\ granted \subseteq granted'
  /\ granted' \subseteq Approvals
  /\ UNCHANGED spent

Spend(u, a) ==
  /\ a \in granted
  /\ \A s \in spent : s.approval # a
  /\ spent' = spent \cup {[use |-> u, approval |-> a]}
  /\ UNCHANGED granted

Next ==
  \/ Grant
  \/ \E u \in Uses, a \in Approvals : Spend(u, a)

Spec == Init /\ [][Next]_vars
=============================================================================
