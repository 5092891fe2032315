------------------------------ MODULE MCMcfTask ------------------------------
(***************************************************************************)
(* Small instances of McfTask.                                             *)
(***************************************************************************)
EXTENDS McfTask
=============================================================================
