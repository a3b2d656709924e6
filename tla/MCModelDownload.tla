-------------------------- MODULE MCModelDownload --------------------------
(***************************************************************************)
(* Three downloads, one after the other or over each other's monitors: the *)
(* second may overlap the first, and the third shows whether the first     *)
(* took the second's place in the controller.  Two of them may be          *)
(* cancelled, each time beside other monitors or alone.                    *)
(***************************************************************************)
EXTENDS ModelDownload
=============================================================================
