-------------------------- MODULE MCExperimentState --------------------------
(* Small instances of ExperimentState.  Profiles other than the baseline and  *)
(* the broken one are interchangeable, and so are processes.                  *)
EXTENDS ExperimentState, TLC

Symmetry == Permutations(Procs) \cup Permutations(Profiles \ {Baseline, Broken})
=============================================================================
