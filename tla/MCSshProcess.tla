--------------------------- MODULE MCSshProcess ---------------------------
(* SshProcess for TLC.                                                      *)
EXTENDS SshProcess, TLC
============================================================================
