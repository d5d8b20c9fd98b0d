-------------------------- MODULE MCSessionMirror --------------------------
(* SessionMirror for TLC.                                                   *)
EXTENDS SessionMirror, TLC
============================================================================
