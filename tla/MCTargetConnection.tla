------------------------- MODULE MCTargetConnection -------------------------
(* TargetConnection for TLC.  Its run checks liveness, for which symmetry    *)
(* reduction is not sound, so there is no symmetry set.                      *)
EXTENDS TargetConnection, TLC
=============================================================================
