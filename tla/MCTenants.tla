----------------------------- MODULE MCTenants -----------------------------
(* A small instance of OrbitTenants for TLC: see tenants.cfg.               *)
EXTENDS OrbitTenants, TLC

Symmetry == Permutations(Threads) \cup Permutations(Keys) \cup Permutations(Images)
            \cup Permutations(Plans)
=============================================================================
