---------------------------- MODULE MCHostTables ----------------------------
(* The instances of MCJobScheduler and MCHostEvents, side by side.         *)
EXTENDS HostTables, MCJobScheduler, MCHostEvents

TableSymmetry == WorkerSymmetry \cup EndpointSymmetry
=============================================================================
