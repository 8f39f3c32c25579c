-------------------------------- MODULE MCScripts --------------------------------
(* A small instance of Scripts: two runs of each script, two sources.        *)
EXTENDS Scripts, TLC

MCSymmetry == Permutations(Generators) \cup Permutations(Builders)
=============================================================================
