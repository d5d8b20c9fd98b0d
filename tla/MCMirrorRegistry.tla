------------------------- MODULE MCMirrorRegistry -------------------------
(* Two sessions, two overlapping reconciles and one caller. *)
EXTENDS MirrorRegistry
CONSTANTS s1, s2, r1, r2, o1
MCSessions == {s1, s2}
MCReconciles == {r1, r2}
MCOwners == {o1}
Sym == Permutations(MCSessions) \cup Permutations(MCReconciles)
=============================================================================
