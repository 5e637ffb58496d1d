-------------------------- MODULE MCAgentExecution --------------------------
(* Two threads of one process share an authority while the process may     *)
(* die and start again.  A token has two spellings.                        *)
EXTENDS AgentExecution, TLC

CONSTANTS t1, t2, p1, pay, send, edit, ghost, bad, lower, upper

MCThreads == {t1, t2}
MCProcesses == {p1}
MCProcessOf == [t \in MCThreads |-> p1]
MCActions == {pay, send, edit, ghost, bad}
MCRisk == (pay :> "money") @@ (send :> "represent") @@ (edit :> "write")
           @@ (ghost :> "read") @@ (bad :> "read")
MCUnregistered == {ghost}
MCMalformed == {bad}
MCSpellings == {lower, upper}
ThreadSymmetry == Permutations(MCThreads)
=============================================================================
