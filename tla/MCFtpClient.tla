----------------------------- MODULE MCFtpClient -----------------------------
(* TLC instance of FtpClient. *)
EXTENDS FtpClient
=============================================================================
