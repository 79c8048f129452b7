----------------------------- MODULE MCRunOrder -----------------------------
(***************************************************************************)
(* The instances of Pipeline with the order of their runs.                 *)
(***************************************************************************)
EXTENDS MCPipeline, RunOrder
=============================================================================
