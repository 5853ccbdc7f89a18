------------------------------ MODULE MCRuntime -----------------------------
(* Instances of the runtime for TLC.                                       *)
EXTENDS RuntimeProps, TLC

WorkerSymmetry == Permutations(Workers)
MemorySymmetry == Permutations(Workers) \cup Permutations(Connectors)
=============================================================================
