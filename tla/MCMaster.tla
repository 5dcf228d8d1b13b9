------------------------------ MODULE MCMaster ------------------------------
(***************************************************************************)
(* The master with its pool, and with what partition makes of a dataset.   *)
(***************************************************************************)
EXTENDS MasterRefinement, TaskPartition
=============================================================================
