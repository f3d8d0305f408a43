------------------------------- MODULE MCPool -------------------------------
(* Small instances of the scheduler pool.                                  *)
EXTENDS PoolProperties, TLC

Symmetry == Permutations(VerifiedBanks) \cup Permutations(ProducedBanks)
=============================================================================
