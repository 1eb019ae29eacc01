--------------------------- MODULE EventRetention ---------------------------
(***************************************************************************)
(* How long the business backend keeps what it knows about an event: the   *)
(* outbox row, the requirement of the search consumer, its application     *)
(* results, the receipt of the command that made it, and the budget        *)
(* counters that all replicas share (business_async_budget).               *)
(*                                                                         *)
(* Every replica runs the cleanup loop of outbox.Dispatcher with a cursor  *)
(* of its own over the published rows, in the order of (published_at, id). *)
(* That order is the sequence "published"; a cutoff is the number of its   *)
(* first elements that are older than the retention.  One data epoch; the  *)
(* retained bytes are charged and released with the retained groups and    *)
(* are left out; receipts without an event are never written by the        *)
(* commands of this version and are left out.                              *)
(***************************************************************************)
EXTENDS Integers, Sequences, FiniteSets

CONSTANTS Events,        \* committed business events
          Searched,      \* the events the search consumer must apply
          Commanded,     \* the events of a command that has an idempotency receipt
          Legacy,        \* requirements older than the reservation of retention
          Generations,   \* projection generations that may apply an event
          Replicas,      \* processes that run the cleanup
          Batch,         \* the cleanup batch
          OpenLimit,     \* open requirements the budget admits
          GroupLimit,    \* retained groups the budget admits
          MaxFaults      \* bound on failed cleanups and restarts

ASSUME RetentionAssumption ==
  /\ IsFiniteSet(Events)
  /\ Commanded \subseteq Searched /\ Searched \subseteq Events
  /\ Legacy \subseteq Searched \ Commanded
  /\ Batch \in Nat \ {0} /\ MaxFaults \in Nat
  /\ OpenLimit \in Nat /\ GroupLimit \in Nat

VARIABLES
  row,        \* the event's outbox row
  published,  \* events in the order of (published_at, id)
  aged,       \* how many of them are older than the retention
  need,       \* the requirement of the search consumer
  retained,   \* its retain_until has passed
  receipt,    \* the command's receipt
  results,    \* the generations with an application result
  open,       \* open_requirements
  groups,     \* retained_groups
  cleaner,    \* what the cleanup of each replica is doing
  cursor,     \* cleanupAt, cleanupID: the position the next scan starts after
  faults

evidence == <<need, retained, receipt, results>>
budget == <<open, groups>>
replica == <<cleaner, cursor>>
vars == <<row, published, aged, need, retained, receipt, results, open, groups,
          cleaner, cursor, faults>>

Needs == {"none", "open", "closed", "released", "gone"}
Cleaners == [at : {"idle", "scan", "delete", "expire"},
             cutoff : Nat, batch : SUBSET Nat, more : BOOLEAN]
Idle == [at |-> "idle", cutoff |-> 0, batch |-> {}, more |-> FALSE]

TypeOK ==
  /\ row \in [Events -> {"absent", "owed", "published", "deleted"}]
  /\ published \in Seq(Events)
  /\ aged \in 0..Len(published)
  /\ need \in [Events -> Needs]
  /\ retained \in [Events -> BOOLEAN]
  /\ receipt \in [Events -> {"none", "live", "expired", "gone"}]
  /\ results \in [Events -> SUBSET Generations]
  /\ open \in Nat /\ groups \in Nat
  /\ cleaner \in [Replicas -> Cleaners]
  /\ cursor \in [Replicas -> Nat]
  /\ faults \in 0..MaxFaults

\* Requirements that were open when the reservation came are not charged for retention.
Init ==
  /\ row = [e \in Events |-> IF e \in Legacy THEN "owed" ELSE "absent"]
  /\ published = <<>> /\ aged = 0
  /\ need = [e \in Events |-> IF e \in Legacy THEN "open" ELSE "none"]
  /\ retained = [e \in Events |-> FALSE]
  /\ receipt = [e \in Events |-> "none"]
  /\ results = [e \in Events |-> {}]
  /\ open = Cardinality(Legacy) /\ groups = 0
  /\ cleaner = [r \in Replicas |-> Idle]
  /\ cursor = [r \in Replicas |-> 0]
  /\ faults = 0

-----------------------------------------------------------------------------
(* Business transactions, delivery and the search consumer                  *)

\* (bug) The limit is compared after the charge instead of before it.
HasRoomLate == open <= OpenLimit /\ groups <= GroupLimit

\* The limits, read under the lock of the budget rows.
HasRoom == open < OpenLimit /\ groups < GroupLimit

\* A business transaction: the outbox row, the requirement with its charge, and the
\* receipt; a transaction the budget refuses leaves nothing.
Commit(e) ==
  /\ row[e] = "absent"
  /\ row' = [row EXCEPT ![e] = "owed"]
  /\ IF e \in Searched
     THEN /\ HasRoom
          /\ need' = [need EXCEPT ![e] = "open"]
          /\ open' = open + 1
          /\ groups' = groups + 1
     ELSE UNCHANGED <<need, open, groups>>
  /\ receipt' = [receipt EXCEPT ![e] = IF e \in Commanded THEN "live" ELSE "none"]
  /\ UNCHANGED <<published, aged, retained, results, cleaner, cursor, faults>>

\* The dispatcher marks the row published.
Publish(e) ==
  /\ row[e] = "owed"
  /\ row' = [row EXCEPT ![e] = "published"]
  /\ published' = Append(published, e)
  /\ UNCHANGED <<aged, evidence, budget, replica, faults>>

\* (bug) Every new result closes the requirement, as if closed_at were not looked at.
RecordEveryApplication(e, g) ==
  /\ need[e] \in {"open", "closed", "released"}
  /\ g \notin results[e]
  /\ results' = [results EXCEPT ![e] = @ \cup {g}]
  /\ need' = [need EXCEPT ![e] = "closed"]
  /\ open' = IF open > 0 THEN open - 1 ELSE 0
  /\ groups' = IF e \in Legacy THEN groups + 1 ELSE groups
  /\ UNCHANGED <<row, published, aged, retained, receipt, replica, faults>>

\* The result of a generation; the first one closes the requirement, a repeated
\* delivery changes nothing, and without a requirement it is refused.
RecordApplication(e, g) ==
  /\ need[e] \in {"open", "closed", "released"}
  /\ g \notin results[e]
  /\ results' = [results EXCEPT ![e] = @ \cup {g}]
  /\ IF need[e] = "open"
     THEN /\ need' = [need EXCEPT ![e] = "closed"]
          /\ open' = IF open > 0 THEN open - 1 ELSE 0
          /\ groups' = IF e \in Legacy THEN groups + 1 ELSE groups
     ELSE UNCHANGED <<need, open, groups>>
  /\ UNCHANGED <<row, published, aged, retained, receipt, replica, faults>>

\* retain_until passes, seven days after the first result.
RetentionPasses(e) ==
  /\ need[e] = "closed" /\ ~retained[e]
  /\ retained' = [retained EXCEPT ![e] = TRUE]
  /\ UNCHANGED <<row, published, aged, need, receipt, results, budget, replica, faults>>

\* retained_until of the receipt passes.
ReceiptExpires(e) ==
  /\ receipt[e] = "live"
  /\ receipt' = [receipt EXCEPT ![e] = "expired"]
  /\ UNCHANGED <<row, published, aged, need, retained, results, budget, replica, faults>>

\* The next published row becomes older than the outbox retention.
Age ==
  /\ aged < Len(published)
  /\ aged' = aged + 1
  /\ UNCHANGED <<row, published, evidence, budget, replica, faults>>

-----------------------------------------------------------------------------
(* The cleanup of one replica                                               *)

\* The smallest n elements of a set of positions.
FirstOf(S, n) == {p \in S : Cardinality({q \in S : q < p}) < n}

\* The positions a scan of r reads: published, older than its cutoff, past its cursor.
Candidates(r) ==
  FirstOf({p \in (cursor[r] + 1)..cleaner[r].cutoff : row[published[p]] = "published"}, Batch)

\* What keeps the row of e: open work, evidence to retain, or a live receipt.
Protected(e) == \/ need[e] = "open"
                \/ (need[e] = "closed" /\ ~retained[e])
                \/ receipt[e] = "live"

\* CleanupOnce fixes its cutoff and enters the loop.
StartCycle(r) ==
  /\ cleaner[r].at = "idle"
  /\ cleaner' = [cleaner EXCEPT ![r] = [at |-> "scan", cutoff |-> aged,
                                            batch |-> {}, more |-> FALSE]]
  /\ UNCHANGED <<row, published, aged, evidence, budget, cursor, faults>>

\* The candidate query; without candidates the next scan starts from the beginning.
Scan(r) ==
  /\ cleaner[r].at = "scan"
  /\ IF Candidates(r) = {}
     THEN /\ cursor' = [cursor EXCEPT ![r] = 0]
          /\ cleaner' = [cleaner EXCEPT ![r].at = "expire", ![r].more = FALSE]
     ELSE /\ cleaner' = [cleaner EXCEPT ![r].at = "delete", ![r].batch = Candidates(r)]
          /\ UNCHANGED cursor
  /\ UNCHANGED <<row, published, aged, evidence, budget, faults>>

\* (bug) Every row counts twice, as if the receipt had a charge of its own.
ReleaseTwice(D) ==
  LET released == {e \in D : need[e] = "closed" /\ retained[e]} IN
  /\ need' = [e \in Events |-> IF e \in released THEN "released" ELSE need[e]]
  /\ groups' = groups - 2 * Cardinality(released)

\* (bug) The counters go down, retention_released is not set.
ReleaseCountersOnly(D) ==
  LET released == {e \in D : need[e] = "closed" /\ retained[e]} IN
  /\ UNCHANGED need
  /\ groups' = IF groups > Cardinality(released) THEN groups - Cardinality(released) ELSE 0

\* ReleaseRetentionTx for the events of D: the counters never go below zero.
ReleaseRetention(D) ==
  LET released == {e \in D : need[e] = "closed" /\ retained[e]} IN
  /\ need' = [e \in Events |-> IF e \in released THEN "released" ELSE need[e]]
  /\ groups' = IF groups > Cardinality(released) THEN groups - Cardinality(released) ELSE 0

\* (bug) The transaction trusts the candidate query.
DeletableUnchecked(r) == {published[p] : p \in cleaner[r].batch}

\* The candidates the transaction may still delete, read again under lock.
Deletable(r) == {e \in {published[p] : p \in cleaner[r].batch} :
                   row[e] = "published" /\ ~Protected(e)}

\* The tables after a cleanup transaction: rows deleted and their charges released.
DeleteRows(r) ==
  /\ row' = [e \in Events |-> IF e \in Deletable(r) THEN "deleted" ELSE row[e]]
  /\ ReleaseRetention(Deletable(r))
  /\ UNCHANGED <<published, aged, retained, receipt, results, open>>

\* (bug) A batch that deleted nothing does not move the cursor.
CursorAfterKept(r) ==
  IF Deletable(r) = {} THEN cursor[r]
  ELSE IF Cardinality(cleaner[r].batch) < Batch THEN 0
  ELSE CHOOSE p \in cleaner[r].batch : \A q \in cleaner[r].batch : q <= p

\* The cursor after a batch: its last candidate, or the beginning if it was not full.
CursorAfter(r) ==
  IF Cardinality(cleaner[r].batch) < Batch THEN 0
  ELSE CHOOSE p \in cleaner[r].batch : \A q \in cleaner[r].batch : q <= p

\* The cleanup transaction commits and the cursor moves, protected rows or not.
Delete(r) ==
  /\ cleaner[r].at = "delete"
  /\ DeleteRows(r)
  /\ cursor' = [cursor EXCEPT ![r] = CursorAfter(r)]
  /\ cleaner' = [cleaner EXCEPT ![r].at = "expire", ![r].batch = {},
                                ![r].more = Cardinality(cleaner[r].batch) = Batch]
  /\ UNCHANGED faults

\* The transaction fails, or its answer is lost after the commit: the cycle ends and
\* the cursor stays.
DeleteFails(r) ==
  /\ cleaner[r].at = "delete" /\ faults < MaxFaults
  /\ faults' = faults + 1
  /\ \/ UNCHANGED <<row, published, aged, evidence, budget>>
     \/ DeleteRows(r)
  /\ cleaner' = [cleaner EXCEPT ![r] = Idle]
  /\ UNCHANGED cursor

\* The events whose evidence businessstate.CleanupExpired may delete.
Expired == {e \in Events : /\ need[e] = "released" /\ retained[e]
                           /\ row[e] = "deleted"
                           /\ receipt[e] # "live"}

\* Whether the cycle goes on after a batch of expired evidence.
More(r, S) == cleaner[r].more \/ Cardinality(S) >= Batch

\* CleanupExpired: results, requirement and receipt go in one transaction.
Evict(r, S) ==
  /\ cleaner[r].at = "expire"
  /\ S \subseteq Expired
  /\ Cardinality(S) <= Batch /\ (Cardinality(S) < Batch => S = Expired)
  /\ need' = [e \in Events |-> IF e \in S THEN "gone" ELSE need[e]]
  /\ results' = [e \in Events |-> IF e \in S THEN {} ELSE results[e]]
  /\ receipt' = [e \in Events |-> IF e \in S /\ receipt[e] # "none" THEN "gone" ELSE receipt[e]]
  /\ cleaner' = [cleaner EXCEPT ![r] = IF More(r, S)
                                       THEN [@ EXCEPT !.at = "scan", !.more = FALSE]
                                       ELSE Idle]
  /\ UNCHANGED <<row, published, aged, retained, budget, cursor, faults>>

\* CleanupExpired fails: the cycle ends.
EvictFails(r) ==
  /\ cleaner[r].at = "expire" /\ faults < MaxFaults
  /\ faults' = faults + 1
  /\ cleaner' = [cleaner EXCEPT ![r] = Idle]
  /\ UNCHANGED <<row, published, aged, evidence, budget, cursor>>

\* The process restarts: a new repository looks from the beginning again.
Restart(r) ==
  /\ faults < MaxFaults
  /\ faults' = faults + 1
  /\ cleaner' = [cleaner EXCEPT ![r] = Idle]
  /\ cursor' = [cursor EXCEPT ![r] = 0]
  /\ UNCHANGED <<row, published, aged, evidence, budget>>

Next ==
  \/ \E e \in Events : \/ Commit(e) \/ Publish(e) \/ RetentionPasses(e) \/ ReceiptExpires(e)
                       \/ \E g \in Generations : RecordApplication(e, g)
  \/ Age
  \/ \E r \in Replicas : \/ StartCycle(r) \/ Scan(r) \/ Delete(r) \/ DeleteFails(r)
                         \/ \E S \in SUBSET Events : Evict(r, S)
                         \/ EvictFails(r) \/ Restart(r)

Spec == Init /\ [][Next]_vars

\* The cleanup timer and the loop of every replica keep going.
Cleanup(r) == \/ StartCycle(r) \/ Scan(r) \/ Delete(r)
              \/ \E S \in SUBSET Events : Evict(r, S)

Fairness == \A r \in Replicas : WF_vars(Cleanup(r))

FairSpec == Spec /\ Fairness

-----------------------------------------------------------------------------
(* Properties                                                               *)

\* Requirements that count as open, and those whose retention is charged.
OpenWork == {e \in Events : need[e] = "open"}
Charged == {e \in Events : need[e] = "closed" \/ (need[e] = "open" /\ e \notin Legacy)}

\* The shared counters say exactly how much open work and how many charged groups
\* there are: no replay, no second generation and no lost commit answer makes the
\* budget drift, and the floor at zero in the SQL is never what decides.
CountersExact == open = Cardinality(OpenWork) /\ groups = Cardinality(Charged)

\* Admission keeps the new work within the limits, however it is interleaved with
\* closings and cleanups; requirements from before the reservation may exceed them
\* when they close.
WithinBudget == Cardinality(Charged \ Legacy) <= GroupLimit

\* The cleanup never outruns what it must wait for: an event with open work, evidence
\* still to be retained or a live receipt keeps its outbox row.
ProtectedRowsStay == \A e \in Events : Protected(e) => row[e] # "deleted"

\* repository.go: the cleanup deletes no row that somebody may still need.
RetentionSafe == TypeOK /\ ProtectedRowsStay

\* Nothing that may be deleted stays for ever: an event whose row is old and
\* unprotected is deleted although rows before it stay protected.
Deletables == {e \in Events : /\ row[e] = "published" /\ ~Protected(e)
                              /\ \E p \in 1..aged : published[p] = e}
OldRowsGo == \A e \in Events : (e \in Deletables) ~> (row[e] = "deleted")

\* And once the row is deleted, requirement, results and receipt follow: nothing that
\* was charged or kept for the event is left behind.
EvidenceGoes == \A e \in Searched : (row[e] = "deleted") ~> (need[e] = "gone")
=============================================================================
