--------------------------- MODULE MCAgentReload ---------------------------
(***************************************************************************)
(* AgentReload with two callers, so that a reload meets another reload, a  *)
(* removal or a lazy start.                                                *)
(***************************************************************************)
EXTENDS AgentReload
=============================================================================
