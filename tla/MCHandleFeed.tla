---------------------------- MODULE MCHandleFeed ----------------------------
(* HandleFeed for TLC.                                                      *)
EXTENDS HandleFeed, TLC

Symmetry == Permutations(Handles)
============================================================================
