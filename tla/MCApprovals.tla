---------------------------- MODULE MCApprovals ----------------------------
(***************************************************************************)
(* The instance of Approvals that TLC checks: two calls with one input and *)
(* two with others, in which the guards of their tool find something, and  *)
(* a harmless call of the same tool. Once two runs overlapped or one was   *)
(* stopped, only three calls are made, none of them the fifth: an approval *)
(* can meet an equal input, another one and a sibling. A refusal that is   *)
(* taken for a result needs all five, of runs that follow one another.     *)
(***************************************************************************)
EXTENDS Approvals

CONSTANTS c1, c2, other, fifth, safe

MCCall == {c1, c2, other, fifth, safe}
MCRisky == {c1, c2, other, fifth}
MCTwin == {c1, c2}
MCSymmetry == Permutations(MCTwin)
MCBound == disturbed => fifth \notin used /\ Cardinality(used) <= 3
=============================================================================
