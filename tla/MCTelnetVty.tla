---------------------------- MODULE MCTelnetVty ----------------------------
(* The vty pool and its sessions on small instances.                       *)
EXTENDS TelnetVty
=============================================================================
