------------------------------ MODULE MCSshFs ------------------------------
(* SshFs for TLC.                                                           *)
EXTENDS SshFs, TLC
============================================================================
