--------------------------- MODULE MCOptimizeTrial ---------------------------
(* Small instances of OptimizeTrial.  Processes are interchangeable, and so   *)
(* are trial IDs; liveness runs do without the symmetry.                      *)
EXTENDS OptimizeTrial, TLC

Symmetry == Permutations(Servers) \cup Permutations(Ids)
=============================================================================
