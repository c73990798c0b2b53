------------------------------- MODULE MCSyslog -------------------------------
(* Syslog for TLC: interchangeable blocks. *)
EXTENDS Syslog, TLC

BlockSymmetry == Permutations(Blocks)
===============================================================================
