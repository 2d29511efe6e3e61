--------------------------- MODULE MCCredentials ---------------------------
(* Small instances of OrbitCredentials for TLC: see the .cfg files.         *)
EXTENDS OrbitCredentials
=============================================================================
