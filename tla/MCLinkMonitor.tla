---------------------------- MODULE MCLinkMonitor ----------------------------
(* LinkMonitor for TLC. *)
EXTENDS LinkMonitor
===============================================================================
