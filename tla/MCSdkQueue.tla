------------------------------ MODULE MCSdkQueue ------------------------------
(* Model values and symmetry for the runs of SdkQueue. *)
EXTENDS SdkQueue, TLC

CONSTANTS t1, t2, e1, e2

Symmetry == Permutations(Loads)
===============================================================================
