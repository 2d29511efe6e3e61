---------------------------- MODULE MCInstances ----------------------------
(* Small instances of OrbitInstances for TLC: see the .cfg files.           *)
EXTENDS OrbitInstances, TLC

Symmetry == Permutations(Threads) \cup Permutations(Users) \cup Permutations(Ports)
=============================================================================
