--------------------------- MODULE MCMaintenance ---------------------------
(* MaintenanceOperations with the operations of one host. *)
EXTENDS MaintenanceOperations

CONSTANTS o1, o2, h1

OneHost == [o \in Ops |-> h1]
=============================================================================
