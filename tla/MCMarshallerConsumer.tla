------------------------ MODULE MCMarshallerConsumer ------------------------
(* Instances of MarshallerConsumer for TLC. *)
EXTENDS MarshallerConsumer, TLC

\* Members are interchangeable where no liveness is checked.
Interchangeable == Permutations(Members)
=============================================================================
