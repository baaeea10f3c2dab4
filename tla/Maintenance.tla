---------------------------- MODULE Maintenance ----------------------------
(***************************************************************************)
(* The offline programs beside the server: the builders write the          *)
(* reference file, the migrator and the boots of the server read it.       *)
(***************************************************************************)
EXTENDS RefBuilders, Migration

ASSUME MaintenanceAssumption == RowKeys = Keys

vars == <<builderVars, ops, migrationVars>>

Init == BuilderInit /\ ops = 0 /\ MigrationInit

\* Somebody starts the migrator, or the server.
Launch ==
  /\ ops < MaxOps /\ ops' = ops + 1
  /\ MigStart \/ BootCreates
  /\ UNCHANGED builderVars

Next ==
  \/ BuilderNext /\ UNCHANGED migrationVars
  \/ Launch
  \/ MigrationStep(file["reference"]) /\ UNCHANGED <<builderVars, ops>>

Spec == Init /\ [][Next]_vars

-----------------------------------------------------------------------------
\* Every variable has its type, and without a table there are no rows.
TypeOK == BuilderTypeOK /\ MigrationTypeOK
=============================================================================
