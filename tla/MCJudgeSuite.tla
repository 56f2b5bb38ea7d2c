------------------------- MODULE MCJudgeSuite -------------------------
(* The judging of a suite with the bounds of its configurations.           *)
EXTENDS JudgeSuite
=============================================================================
