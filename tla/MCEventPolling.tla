--------------------------- MODULE MCEventPolling ---------------------------
(* EventPolling for TLC: the processes are interchangeable.                  *)
EXTENDS EventPolling, TLC

Symmetry == Permutations(Instances)
=============================================================================
