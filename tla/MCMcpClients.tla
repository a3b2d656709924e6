---------------------------- MODULE MCMcpClients ----------------------------
(***************************************************************************)
(* The instance of McpClients that TLC checks: one key whose configuration *)
(* is edited, beside one that keeps its own.                               *)
(***************************************************************************)
EXTENDS McpClients

CONSTANTS k1, k2, v1, v2

MCKeys == {k1, k2}
MCVersions == {v1, v2}
MCConfigs == {[k \in MCKeys |-> IF k = k1 THEN a ELSE v1] : a \in {v1, v2, Off}}
MCInitial == {[k \in MCKeys |-> v1]}
=============================================================================
