---------------------------- MODULE MCChannelReload ----------------------------
(* A built-in channel and a plug-in, two versions of the section of each, and *)
(* three of the heartbeat's, one of them broken; the channel objects are      *)
(* enough for both tables, a clone in hand and one that was cut off.          *)
EXTENDS ChannelReload

CONSTANTS n1, n2

MCNames == {n1, n2}
MCOptional == {n2}
MCVersions == 1 .. 2
MCBeats == 1 .. 3
MCBroken == {3}
MCChannels == 1 .. 4
MCFirst == [n \in MCNames |-> IF n = n1 THEN 1 ELSE 2]
================================================================================
