------------------------- MODULE MCTextChecker -------------------------
(* The comparison over every two texts of the sizes of its configurations. *)
EXTENDS TextChecker
=============================================================================
