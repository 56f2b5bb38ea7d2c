---------------------------- MODULE MCJudgeQueue ----------------------------
(* The judge queue on small instances.                                     *)
EXTENDS JudgeQueue
=============================================================================
