----------------------------- MODULE MCPipeline -----------------------------
(***************************************************************************)
(* Values for the constants of Pipeline.                                   *)
(***************************************************************************)
EXTENDS Pipeline, TLC

CONSTANTS h1, u1, k1, standard, custom

OneKey == k1 :> u1

\* The host has not reported yet; hosts without an owner are MCControlPlane's.
NoLegacy == << >>
=============================================================================
