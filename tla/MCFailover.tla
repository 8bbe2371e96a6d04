----------------------------- MODULE MCFailover -----------------------------
(* Small instances of Failover.                                            *)
EXTENDS Failover, TLC

SessionSymmetry == Permutations(Sessions)
=============================================================================
