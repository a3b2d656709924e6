-------------------------- MODULE MCRetryChatModel --------------------------
(***************************************************************************)
(* RetryChatModel with one permit for two callers, of which one streams,   *)
(* and a window that two requests fill.                                    *)
(***************************************************************************)
EXTENDS RetryChatModel
=============================================================================
