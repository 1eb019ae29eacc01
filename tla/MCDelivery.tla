----------------------------- MODULE MCDelivery -----------------------------
(***************************************************************************)
(* From the row of the outbox to the search index: the outbox, whose       *)
(* instance the cfg file gives, and the convergence of the index.  Each    *)
(* behaviour belongs to one of them: `part` says which.                    *)
(***************************************************************************)
EXTENDS Outbox, TLC

VARIABLE part   \* "outbox" or "search"

\* The search index, named as in SearchProjection.
VARIABLES fact, acked, applied, alias, built, live, docs, stray, handler, run,
          uncovered, faults

Search == INSTANCE SearchProjection WITH
            Posts <- {1}, MaxRev <- 2, Handlers <- {1}, MaxIndices <- 2, Batch <- 1,
            MaxFaults <- 1

searchVars == <<fact, acked, applied, alias, built, live, docs, stray, handler, run,
                uncovered, faults>>

AllInit == part \in {"outbox", "search"} /\ Init /\ Search!Init

AllNext ==
  \/ part = "outbox" /\ Next /\ UNCHANGED <<part, searchVars>>
  \/ part = "search" /\ Search!Next /\ UNCHANGED <<part, vars>>

AllSpec == AllInit /\ [][AllNext]_<<part, vars, searchVars>>

\* Replicas and slots are interchangeable.  The states of the search index, the only ones
\* with a liveness property, hold neither.
Interchangeable == Permutations(Dispatchers) \cup Permutations(Slots)

-----------------------------------------------------------------------------
\* service.go, indexer.go: in the end the index behind the alias shows every post as the
\* database has it, whatever was delivered twice or late, failed or crashed on the way, unless
\* the alias moved without its second copy.
Converges == part = "search" /\ Search!Fairness => Search!Converges
=============================================================================
