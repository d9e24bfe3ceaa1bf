-------------------------- MODULE MC_DaemonLifecycle --------------------------
(* Instances: up to three processes; one or two clients of each kind.      *)
EXTENDS DaemonLifecycle

CONSTANTS d1, d2, d3, a, b
=============================================================================
