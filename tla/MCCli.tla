-------------------------------- MODULE MCCli --------------------------------
(* One run of the program for TLC: two targets, every flag that matters, every *)
(* finding of a probe.                                                       *)
EXTENDS Cli

AllOutcomes == {"none", "tcp", "config", "tls", "http"}
=============================================================================
