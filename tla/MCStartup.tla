----------------------------- MODULE MCStartup -----------------------------
(***************************************************************************)
(* Pods that start together on every database an earlier release left.      *)
(***************************************************************************)
EXTENDS Startup, TLC

CONSTANTS a, b, c

MCPods == {a, b, c}
=============================================================================
