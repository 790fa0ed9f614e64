---------------------------- MODULE MCPtpMonitor ----------------------------
(* The numbers of the command line's defaults are given in the configuration. *)
EXTENDS PtpMonitor
=============================================================================
