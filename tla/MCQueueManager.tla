--------------------------- MODULE MCQueueManager ---------------------------
(***************************************************************************)
(* QueueManager on two keys: one of normal priority, one of control        *)
(* commands, or two chats of normal priority.                              *)
(***************************************************************************)
EXTENDS QueueManager

CONSTANTS k1, k2

\* Three messages for the first key around one for the second.
MCKeyOf == [m \in 1..MaxMsg |-> IF m = 2 THEN k2 ELSE k1]
=============================================================================
