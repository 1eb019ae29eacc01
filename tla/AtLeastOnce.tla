---------------------------- MODULE AtLeastOnce ----------------------------
(***************************************************************************)
(* What the transactional outbox promises to the code that commits         *)
(* business events: an event that was submitted stays owed until the       *)
(* message broker has taken responsibility for it, and only then may it be *)
(* settled.  Nothing is promised about duplicates or about order: the      *)
(* broker may take the same event again, even after it was settled.        *)
(***************************************************************************)
CONSTANT Events

VARIABLES phase,      \* what the outbox still owes for each event
          accepted    \* the events the broker took at least once

vars == <<phase, accepted>>

Phases == {"none", "owed", "settled"}

TypeOK == /\ phase \in [Events -> Phases]
          /\ accepted \subseteq Events

Init == /\ phase = [e \in Events |-> "none"]
        /\ accepted = {}

\* A business transaction commits together with its event.
Submit(e) == /\ phase[e] = "none"
             /\ phase' = [phase EXCEPT ![e] = "owed"]
             /\ UNCHANGED accepted

\* The broker takes a copy of the event.
Accept(e) == /\ phase[e] # "none"
             /\ accepted' = accepted \cup {e}
             /\ UNCHANGED phase

\* One acknowledgement settles any number of events the broker has taken.
Settle(S) == /\ \A e \in S : phase[e] = "owed" /\ e \in accepted
             /\ phase' = [e \in Events |-> IF e \in S THEN "settled" ELSE phase[e]]
             /\ UNCHANGED accepted

Next == \/ \E e \in Events : Submit(e) \/ Accept(e)
        \/ \E S \in SUBSET Events : Settle(S)

Spec == Init /\ [][Next]_vars
=============================================================================
