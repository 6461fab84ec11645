--------------------------- MODULE MCMatchingEngines ---------------------------
(* Instances of MatchingEngines for TLC.                                      *)
EXTENDS MatchingEngines

\* Orders are interchangeable but for the moment they are sent.
Symmetry == Permutations(Order)
=============================================================================
