------------------------ MODULE MCInteractionBridge ------------------------
(* InteractionBridge for TLC.  Its run checks liveness, for which symmetry   *)
(* reduction is not sound, so there is no symmetry set.                      *)
EXTENDS InteractionBridge, TLC
============================================================================
