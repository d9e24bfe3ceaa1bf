---------------------------- MODULE MC_AskCoalesce ----------------------------
(* Instances: two callers.                                               *)
EXTENDS AskCoalesce

CONSTANTS c1, c2
=============================================================================
