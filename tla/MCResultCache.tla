--------------------------- MODULE MCResultCache ---------------------------
(***************************************************************************)
(* Instances of ResultCache for TLC: clients are model values.             *)
(***************************************************************************)
EXTENDS ResultCache, TLC

ClientSymmetry == Permutations(Clients)

\* The properties of ResultCache say nothing once a gap was hit, and raced never
\* shrinks: what comes after is not explored.
NoRaceYet == raced = {}
=============================================================================
