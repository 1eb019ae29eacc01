-------------------------- MODULE MCEventRetention --------------------------
(* Instances of EventRetention for TLC. *)
EXTENDS EventRetention, TLC

\* Replicas, and generations, are interchangeable.
Interchangeable == Permutations(Replicas) \cup Permutations(Generations)
=============================================================================
