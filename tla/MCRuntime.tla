------------------------------ MODULE MCRuntime ------------------------------
(* BrainstemRuntime with the sets of sensors and commands of each run.     *)
EXTENDS BrainstemRuntime
==============================================================================
