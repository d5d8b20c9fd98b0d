-------------------------- MODULE MCSessionBroker --------------------------
(* SessionBroker for TLC, with the abstract session it implements.          *)
EXTENDS SessionBroker, TLC

Symmetry == Permutations(Clients) \union Permutations(Sessions)
============================================================================
