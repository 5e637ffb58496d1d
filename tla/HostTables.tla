----------------------------- MODULE HostTables -----------------------------
(* The two SQLite tables that several host processes share and that make   *)
(* something happen once: the jobs of the scheduler and the events of the  *)
(* replay store, one of them in each behaviour.                            *)
EXTENDS JobScheduler, HostEvents

VARIABLE table

tableVars == <<table, vars, eventVars>>

TablesInit ==
  /\ table \in {"jobs", "events"}
  /\ Init /\ EventInit

TablesNext ==
  /\ UNCHANGED table
  /\ \/ table = "jobs" /\ Next /\ UNCHANGED eventVars
     \/ table = "events" /\ EventNext /\ UNCHANGED vars

TablesSpec == TablesInit /\ [][TablesNext]_tableVars
=============================================================================
