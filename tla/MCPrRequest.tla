----------------------------- MODULE MCPrRequest -----------------------------
(***************************************************************************)
(* PrRequest for TLC.  The hosts are interchangeable where no liveness is  *)
(* checked.                                                                *)
(***************************************************************************)
EXTENDS PrRequest, TLC

HostSymmetry == Permutations(Hosts)
=============================================================================
