--------------------------- MODULE MCQubitMemory ---------------------------
(* QubitMemory on small instances: the applications are interchangeable.     *)
EXTENDS QubitMemory, TLC

AppSymmetry == Permutations(Apps)
=============================================================================
