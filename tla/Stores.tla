-------------------------------- MODULE Stores --------------------------------
(* The three stores that read, change and replace without a lock around    *)
(* it, one of them in each behaviour.                                      *)
EXTENDS MemoryStore, TaskStore, Credentials

VARIABLE store

Init ==
  /\ store \in {"memory", "tasks", "credentials"}
  /\ MemoryInit /\ TaskInit /\ CredentialsInit
  /\ store # "memory" => drawn = {}

Next ==
  /\ UNCHANGED store
  /\ \/ store = "memory" /\ MemoryNext /\ UNCHANGED <<taskVars, credentialVars>>
     \/ store = "tasks" /\ TaskNext /\ UNCHANGED <<memoryVars, credentialVars>>
     \/ store = "credentials" /\ CredentialsNext /\ UNCHANGED <<memoryVars, taskVars>>

vars == <<store, memoryVars, taskVars, credentialVars>>

Spec == Init /\ [][Next]_vars

(* Each store is well typed, and file descriptors, locks and budgets are   *)
(* held as the store's code holds them.                                    *)
StoresTypeOK == MemoryTypeOK /\ TaskTypeOK /\ CredentialsTypeOK
=============================================================================
