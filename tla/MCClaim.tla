------------------------------- MODULE MCClaim -------------------------------
(* Small instances of Claim for TLC. Agents are interchangeable: no action   *)
(* names one, so the safety runs use their permutations as a symmetry set.   *)
EXTENDS Claim, TLC

Symmetry == Permutations(Agents)
=============================================================================
