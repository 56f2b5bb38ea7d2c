---------------------------- MODULE MCFtpServer ----------------------------
(* Instances of FtpServer for TLC.  The connections are interchangeable.   *)
EXTENDS FtpServer, TLC

ConnSymmetry == Permutations(Conns)
=============================================================================
