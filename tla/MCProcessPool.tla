--------------------------- MODULE MCProcessPool ---------------------------
(* ProcessPool on small instances.  Workers and temporary keys are UUIDs:  *)
(* no decision compares them, so the safety runs may permute them.         *)
EXTENDS ProcessPool, TLC

Symmetry == Permutations(Workers) \cup Permutations(TempKeys)
============================================================================
