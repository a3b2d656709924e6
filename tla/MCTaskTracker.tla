--------------------------- MODULE MCTaskTracker ---------------------------
(***************************************************************************)
(* One chat, two runs and three connections: a chat that is started again  *)
(* after its run ended, failed, was stopped or died before its first step, *)
(* with readers that joined early, late, or by starting the second run.    *)
(* An event and an error event are enough to see a gap, a repetition or a  *)
(* wrong order.                                                            *)
(***************************************************************************)
EXTENDS TaskTracker
=============================================================================
