------------------------ MODULE MCSearchProjection ------------------------
(* Model values and symmetry for the runs of SearchProjection.            *)
EXTENDS SearchProjection, TLC

\* Handlers are interchangeable.
HandlerSymmetry == Permutations(Handlers)
=============================================================================
