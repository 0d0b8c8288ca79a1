------------------------------ MODULE MCMailbox ------------------------------
(* CommandMailbox on small instances for TLC.                              *)
EXTENDS CommandMailbox
==============================================================================
