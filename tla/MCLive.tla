------------------------------- MODULE MCLive -------------------------------
(* LiveHistory on small instances: the application's processes are alike.  *)
EXTENDS LiveHistory, TLC

Symmetry == Permutations(Proc) \cup Permutations(Port)
=============================================================================
