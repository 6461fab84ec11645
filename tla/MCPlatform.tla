------------------------------ MODULE MCPlatform ------------------------------
(* Instances of Platform for TLC.                                             *)
EXTENDS Platform, TLC

\* Submissions, runs and request slots are interchangeable: no property names
\* one of them.
Symmetry == Permutations(Sub) \cup Permutations(Run) \cup Permutations(Client)
=============================================================================
