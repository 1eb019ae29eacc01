--------------------------- MODULE BusinessProofs ---------------------------
(***************************************************************************)
(* Proofs about four components of the business service, for any values of *)
(* their constants.                                                        *)
(*                                                                         *)
(* EventRetention: the shared counters are exact, admission keeps new work *)
(* within the budget and the cleanup deletes no row that is still needed.  *)
(*                                                                         *)
(* PostCommands: one key makes one post, the events of a post tell its     *)
(* row, the budget counts the open requirements, and no event is committed *)
(* outside its epoch.                                                      *)
(*                                                                         *)
(* Alerts: a rule and its incident agree, and a trigger needs a condition  *)
(* that lasted, seen by evaluations of one revision without a gap.         *)
(*                                                                         *)
(* PostReads: a cached body is that of its revision, no slot leaks, and a  *)
(* request serves what the database holds at its last query.               *)
(***************************************************************************)
EXTENDS MCBusiness, CountingFacts, SequenceTheorems, TLAPS

\* The cutoff of a cycle lies among the aged rows, and a batch among the published ones.
PositionsExist ==
  \A r \in Replicas : /\ cleaner[r].cutoff <= aged
                      /\ cleaner[r].batch \subseteq 1..Len(published)

\* A requirement comes with its row, and those older than the reservation have theirs.
NeedsCommitted ==
  \A e \in Events : /\ row[e] = "absent" => need[e] = "none"
                    /\ e \in Legacy => row[e] # "absent"

Shape == TypeOK /\ PositionsExist

IInv == /\ Shape
        /\ NeedsCommitted
        /\ CountersExact
        /\ WithinBudget
        /\ ProtectedRowsStay

USE RetentionAssumption

-----------------------------------------------------------------------------
\* The events are finite, and so is what the counters count.
LEMMA CountedFinite ==
  /\ IsFiniteSet(OpenWork) /\ IsFiniteSet(Charged) /\ IsFiniteSet(Charged \ Legacy)
  /\ Cardinality(OpenWork) \in Nat /\ Cardinality(Charged) \in Nat
  /\ Cardinality(Charged \ Legacy) \in Nat
  /\ Cardinality(Charged \ Legacy) <= Cardinality(Charged)
<1>1. OpenWork \in SUBSET Events /\ Charged \in SUBSET Events
  BY DEF OpenWork, Charged
<1>2. IsFiniteSet(OpenWork) /\ IsFiniteSet(Charged)
  BY <1>1, FS_Subset
<1>3. Charged \ Legacy \in SUBSET Charged
  OBVIOUS
<1>4. IsFiniteSet(Charged \ Legacy) /\ Cardinality(Charged \ Legacy) <= Cardinality(Charged)
  BY <1>2, <1>3, FS_Subset
<1>5. QED
  BY <1>2, <1>4, FS_CardinalityType

-----------------------------------------------------------------------------
(* The type invariant                                                       *)

\* The cursor after a batch is a position.
LEMMA CursorAfterType ==
  ASSUME Shape, NEW r \in Replicas
  PROVE  CursorAfter(r) \in Nat
<1> DEFINE B == cleaner[r].batch
<1>1. Len(published) \in Nat /\ B \in SUBSET (1..Len(published))
  BY DEF Shape, TypeOK, PositionsExist
<1>2. CASE Cardinality(B) < Batch
  BY <1>2 DEF CursorAfter
<1>3. CASE ~(Cardinality(B) < Batch)
  <2>1. B # {}
    BY <1>3, FS_EmptySet
  <2>2. \E p \in B : \A q \in B : q <= p
    BY <1>1, <2>1, LargestPosition
  <2>3. (CHOOSE p \in B : \A q \in B : q <= p) \in B
    BY <2>2
  <2>4. QED
    BY <1>1, <1>3, <2>3 DEF CursorAfter
<1>4. QED
  BY <1>2, <1>3

\* What a replica is doing has the fields of Cleaners.
LEMMA CleanerFields ==
  ASSUME TypeOK, NEW r \in Replicas
  PROVE  /\ cleaner[r] \in Cleaners
         /\ cleaner[r].at \in {"idle", "scan", "delete", "expire"}
         /\ cleaner[r].cutoff \in Nat /\ cleaner[r].batch \in SUBSET Nat
         /\ cleaner[r].more \in BOOLEAN
<1>1. cleaner[r] \in Cleaners
  BY DEF TypeOK
<1>2. QED
  BY <1>1 DEF Cleaners

\* The sequence of published rows has a length, and the aged ones are a part of it.
LEMMA Lengths ==
  ASSUME TypeOK
  PROVE  Len(published) \in Nat /\ aged \in Nat /\ aged <= Len(published)
<1>1. published \in Seq(Events) /\ aged \in 0..Len(published)
  BY DEF TypeOK
<1>2. Len(published) \in Nat
  BY <1>1, LenProperties
<1>3. QED
  BY <1>1, <1>2

\* An idle cleanup.
LEMMA IdleShape == Idle \in Cleaners /\ Idle.cutoff = 0 /\ Idle.batch = {}
  BY DEF Idle, Cleaners

\* A change of what one replica does keeps the shape of all of them.
LEMMA CleanerStep ==
  ASSUME Shape, NEW r \in Replicas, NEW c \in Cleaners,
         c.cutoff <= aged, c.batch \subseteq 1..Len(published),
         cleaner' = [cleaner EXCEPT ![r] = c],
         published' = published, aged' = aged
  PROVE  cleaner' \in [Replicas -> Cleaners] /\ PositionsExist'
<1>1. cleaner \in [Replicas -> Cleaners]
  BY DEF Shape, TypeOK
<1>2. cleaner'[r] = c /\ \A x \in Replicas : x # r => cleaner'[x] = cleaner[x]
  BY <1>1
<1>3. QED
  BY <1>1, <1>2 DEF Shape, PositionsExist

\* The cleanup of one replica ends.
LEMMA IdleStep ==
  ASSUME Shape, NEW r \in Replicas, cleaner' = [cleaner EXCEPT ![r] = Idle],
         published' = published, aged' = aged
  PROVE  cleaner' \in [Replicas -> Cleaners] /\ PositionsExist'
<1>1. Idle.cutoff <= aged /\ Idle.batch \subseteq 1..Len(published)
  BY IdleShape, Lengths DEF Shape
<1>2. QED
  BY <1>1, IdleShape, CleanerStep

\* The initial states satisfy the invariant.
LEMMA InitIInv == Init => IInv
<1> SUFFICES ASSUME Init PROVE IInv
  OBVIOUS
<1>1. Legacy \in SUBSET Events /\ IsFiniteSet(Legacy) /\ Cardinality(Legacy) \in Nat
  BY FS_Subset, FS_CardinalityType
<1>2. Shape
  BY <1>1, IdleShape, EmptySeq DEF Init, Shape, TypeOK, PositionsExist, Cleaners, Needs
<1>3. NeedsCommitted
  BY DEF Init, NeedsCommitted
<1>4. OpenWork = Legacy /\ Charged = {}
  BY DEF Init, OpenWork, Charged
<1>5. CountersExact /\ WithinBudget
  BY <1>4, FS_EmptySet DEF Init, CountersExact, WithinBudget
<1>6. ProtectedRowsStay
  BY DEF Init, ProtectedRowsStay
<1>7. QED
  BY <1>2, <1>3, <1>5, <1>6 DEF IInv

-----------------------------------------------------------------------------
(* What the actions do                                                      *)

\* The rows a cleanup transaction deletes are published rows nobody needs any more.
LEMMA DeletableRows ==
  ASSUME Shape, NEW r \in Replicas
  PROVE  /\ Deletable(r) \subseteq Events
         /\ \A e \in Deletable(r) : row[e] = "published" /\ ~Protected(e)
<1>1. \A p \in cleaner[r].batch : published[p] \in Events
  BY DEF Shape, TypeOK, PositionsExist
<1>2. QED
  BY <1>1 DEF Deletable

\* Deleting rows keeps the types, whichever rows they are.
LEMMA DeleteRowsType ==
  ASSUME Shape, NEW r \in Replicas, DeleteRows(r)
  PROVE  /\ row' \in [Events -> {"absent", "owed", "published", "deleted"}]
         /\ need' \in [Events -> Needs]
         /\ groups' \in Nat
<1> DEFINE R == {e \in Deletable(r) : need[e] = "closed" /\ retained[e]}
<1>1. IsFiniteSet(R) /\ Cardinality(R) \in Nat
  BY DeletableRows, FS_Subset, FS_CardinalityType
<1>2. groups' = IF groups > Cardinality(R) THEN groups - Cardinality(R) ELSE 0
  BY DEF DeleteRows, ReleaseRetention
<1>3. groups' \in Nat
  BY <1>1, <1>2 DEF Shape, TypeOK
<1>4. row' \in [Events -> {"absent", "owed", "published", "deleted"}]
  BY DEF DeleteRows, Shape, TypeOK
<1>5. need' \in [Events -> Needs]
  BY DEF DeleteRows, ReleaseRetention, Shape, TypeOK, Needs
<1>6. QED
  BY <1>3, <1>4, <1>5

\* Every step keeps the types, and the positions stay within the sequence of rows.
LEMMA ShapeStep == Shape /\ [Next]_vars => Shape'
<1> SUFFICES ASSUME Shape, [Next]_vars PROVE Shape'
  OBVIOUS
<1> USE DEF Shape
<1>1. CASE UNCHANGED vars
  BY <1>1 DEF vars, TypeOK, PositionsExist
<1>2. ASSUME NEW e \in Events, Commit(e) PROVE Shape'
  <2>1. /\ row' = [row EXCEPT ![e] = "owed"]
        /\ receipt' = [receipt EXCEPT ![e] = IF e \in Commanded THEN "live" ELSE "none"]
        /\ UNCHANGED published /\ UNCHANGED aged /\ UNCHANGED retained /\ UNCHANGED results
        /\ UNCHANGED cleaner /\ UNCHANGED cursor /\ UNCHANGED faults
    BY <1>2 DEF Commit
  <2>2. /\ need' \in [Events -> Needs] /\ open' \in Nat /\ groups' \in Nat
    <3>1. CASE e \in Searched
      BY <1>2, <3>1 DEF Commit, TypeOK, Needs
    <3>2. CASE e \notin Searched
      BY <1>2, <3>2 DEF Commit, TypeOK
    <3>3. QED
      BY <3>1, <3>2
  <2>3. /\ row' \in [Events -> {"absent", "owed", "published", "deleted"}]
        /\ receipt' \in [Events -> {"none", "live", "expired", "gone"}]
    BY <2>1 DEF TypeOK
  <2>4. QED
    BY <2>1, <2>2, <2>3 DEF TypeOK, PositionsExist
<1>3. ASSUME NEW e \in Events, Publish(e) PROVE Shape'
  <2>1. /\ published' \in Seq(Events) /\ Len(published') = Len(published) + 1
        /\ Len(published) \in Nat
    BY <1>3, AppendProperties, LenProperties DEF Publish, TypeOK
  <2>2. PositionsExist'
    BY <1>3, <2>1 DEF Publish, PositionsExist, replica
  <2>3. TypeOK'
    BY <1>3, <2>1 DEF Publish, TypeOK, evidence, budget, replica
  <2>4. QED
    BY <2>2, <2>3
<1>4. ASSUME NEW e \in Events, RetentionPasses(e) \/ ReceiptExpires(e) PROVE Shape'
  BY <1>4 DEF RetentionPasses, ReceiptExpires, TypeOK, PositionsExist, budget, replica
<1>5. ASSUME NEW e \in Events, NEW g \in Generations, RecordApplication(e, g) PROVE Shape'
  <2>1. PositionsExist'
    BY <1>5 DEF RecordApplication, PositionsExist, replica
  <2>2. need' \in [Events -> Needs] /\ results' \in [Events -> SUBSET Generations]
    BY <1>5 DEF RecordApplication, TypeOK, Needs
  <2>3. open' \in Nat /\ groups' \in Nat
    BY <1>5 DEF RecordApplication, TypeOK
  <2>4. QED
    BY <1>5, <2>1, <2>2, <2>3 DEF RecordApplication, TypeOK, replica
<1>6. CASE Age
  <2>1. published' = published /\ cleaner' = cleaner /\ aged' = aged + 1 /\ aged < Len(published)
    BY <1>6 DEF Age, replica
  <2>2. aged' \in 0..Len(published') /\ \A n \in Nat : n <= aged => n <= aged'
    BY <2>1, Lengths
  <2>3. PositionsExist'
    BY <2>1, <2>2, CleanerFields DEF PositionsExist
  <2>4. QED
    BY <1>6, <2>1, <2>2, <2>3 DEF Age, TypeOK, evidence, budget, replica
<1>7. ASSUME NEW r \in Replicas, StartCycle(r) PROVE Shape'
  <2> DEFINE c == [at |-> "scan", cutoff |-> aged, batch |-> {}, more |-> FALSE]
  <2>1. c \in Cleaners /\ c.cutoff = aged /\ c.batch = {} /\ aged <= aged
    <3>1. aged \in Nat /\ aged <= aged
      BY Lengths
    <3>2. QED
      BY <3>1 DEF Cleaners
  <2>2. cleaner' \in [Replicas -> Cleaners] /\ PositionsExist'
    BY <1>7, <2>1, CleanerStep DEF StartCycle
  <2>3. QED
    BY <1>7, <2>2 DEF StartCycle, TypeOK, evidence, budget
<1>8. ASSUME NEW r \in Replicas, Scan(r) PROVE Shape'
  <2> DEFINE c == cleaner[r]
             i == [c EXCEPT !.at = "expire", !.more = FALSE]
             d == [c EXCEPT !.at = "delete", !.batch = Candidates(r)]
  <2>1. /\ aged \in Nat /\ aged <= Len(published) /\ Len(published) \in Nat
        /\ cursor[r] \in Nat /\ c.cutoff \in Nat /\ c.cutoff <= aged
        /\ c.batch \subseteq 1..Len(published)
    BY Lengths, CleanerFields DEF TypeOK, PositionsExist
  <2>2. Candidates(r) \subseteq 1..Len(published)
    BY <2>1 DEF Candidates, FirstOf
  <2>3. /\ i \in Cleaners /\ i.cutoff = c.cutoff /\ i.batch = c.batch
        /\ d \in Cleaners /\ d.cutoff = c.cutoff /\ d.batch = Candidates(r)
    <3>1. Candidates(r) \in SUBSET Nat
      BY <2>1, <2>2
    <3>2. QED
      BY <3>1, CleanerFields DEF Cleaners
  <2>4. cleaner' = [cleaner EXCEPT ![r] = i] \/ cleaner' = [cleaner EXCEPT ![r] = d]
    BY <1>8 DEF Scan
  <2>5. cleaner' \in [Replicas -> Cleaners] /\ PositionsExist'
    <3> HIDE DEF c, i, d
    <3>1. published' = published /\ aged' = aged
      BY <1>8 DEF Scan
    <3>2. CASE cleaner' = [cleaner EXCEPT ![r] = i]
      BY <2>1, <2>3, <3>1, <3>2, CleanerStep
    <3>3. CASE cleaner' = [cleaner EXCEPT ![r] = d]
      BY <2>1, <2>2, <2>3, <3>1, <3>3, CleanerStep
    <3>4. QED
      BY <2>4, <3>2, <3>3
  <2>6. cursor' \in [Replicas -> Nat]
    <3>1. cursor' = [cursor EXCEPT ![r] = 0] \/ cursor' = cursor
      BY <1>8, Zenon DEF Scan
    <3>2. QED
      BY <3>1 DEF TypeOK
  <2>7. QED
    BY <1>8, <2>5, <2>6 DEF Scan, TypeOK, evidence, budget
<1>9. ASSUME NEW r \in Replicas, Delete(r) PROVE Shape'
  <2> DEFINE c == cleaner[r]
             d == [c EXCEPT !.at = "expire", !.batch = {},
                            !.more = Cardinality(cleaner[r].batch) = Batch]
  <2>1. d \in Cleaners /\ d.cutoff = c.cutoff /\ d.batch = {} /\ c.cutoff <= aged
    BY CleanerFields DEF Cleaners, PositionsExist
  <2>2. cleaner' = [cleaner EXCEPT ![r] = d]
    BY <1>9 DEF Delete
  <2>3. cleaner' \in [Replicas -> Cleaners] /\ PositionsExist'
    <3> HIDE DEF c, d
    <3>1. QED
      BY <1>9, <2>1, <2>2, CleanerStep DEF Delete, DeleteRows
  <2>4. cursor' \in [Replicas -> Nat]
    BY <1>9, CursorAfterType DEF Delete, TypeOK
  <2>5. QED
    BY <1>9, <2>3, <2>4, DeleteRowsType DEF Delete, DeleteRows, TypeOK
<1>10. ASSUME NEW r \in Replicas, DeleteFails(r) PROVE Shape'
  <2>1. published' = published /\ aged' = aged
    BY <1>10 DEF DeleteFails, DeleteRows
  <2>2. cleaner' \in [Replicas -> Cleaners] /\ PositionsExist'
    BY <1>10, <2>1, IdleStep DEF DeleteFails
  <2>3. CASE DeleteRows(r)
    BY <1>10, <2>2, <2>3, DeleteRowsType DEF DeleteFails, DeleteRows, TypeOK
  <2>4. CASE UNCHANGED <<row, published, aged, evidence, budget>>
    BY <1>10, <2>2, <2>4 DEF DeleteFails, TypeOK, evidence, budget
  <2>5. QED
    BY <1>10, <2>3, <2>4 DEF DeleteFails
<1>11. ASSUME NEW r \in Replicas, NEW S \in SUBSET Events, Evict(r, S) PROVE Shape'
  <2> DEFINE c == cleaner[r]
             a == [c EXCEPT !.at = "scan", !.more = FALSE]
             d == IF More(r, S) THEN a ELSE Idle
  <2>1. /\ d \in Cleaners /\ d.cutoff <= aged /\ d.batch \subseteq 1..Len(published)
    <3>1. aged \in Nat /\ c.cutoff <= aged /\ c.batch \subseteq 1..Len(published)
      BY Lengths DEF PositionsExist, TypeOK
    <3>2. a \in Cleaners /\ a.cutoff = c.cutoff /\ a.batch = c.batch
      BY CleanerFields DEF Cleaners
    <3>3. QED
      BY <3>1, <3>2, IdleShape
  <2>2. cleaner' = [cleaner EXCEPT ![r] = d]
    BY <1>11 DEF Evict
  <2>3. cleaner' \in [Replicas -> Cleaners] /\ PositionsExist'
    <3> HIDE DEF c, a, d
    <3>1. QED
      BY <1>11, <2>1, <2>2, CleanerStep DEF Evict
  <2>4. /\ need' \in [Events -> Needs]
        /\ results' \in [Events -> SUBSET Generations]
        /\ receipt' \in [Events -> {"none", "live", "expired", "gone"}]
    BY <1>11 DEF Evict, TypeOK, Needs
  <2>5. QED
    BY <1>11, <2>3, <2>4 DEF Evict, TypeOK, budget
<1>12. ASSUME NEW r \in Replicas, EvictFails(r) \/ Restart(r) PROVE Shape'
  <2>1. cleaner' \in [Replicas -> Cleaners] /\ PositionsExist'
    BY <1>12, IdleStep DEF EvictFails, Restart
  <2>2. QED
    BY <1>12, <2>1 DEF EvictFails, Restart, TypeOK, evidence, budget
<1>13. QED
  BY <1>1, <1>2, <1>3, <1>4, <1>5, <1>6, <1>7, <1>8, <1>9, <1>10, <1>11, <1>12 DEF Next

-----------------------------------------------------------------------------
(* The counters                                                             *)

\* When neither the open work nor the charged groups change, nothing is to be counted.
LEMMA SameCharges ==
  ASSUME IInv, OpenWork' = OpenWork, Charged' = Charged, open' = open, groups' = groups
  PROVE  CountersExact' /\ WithinBudget'
  BY DEF IInv, CountersExact, WithinBudget

\* A commit opens a requirement that was not counted, if there is room for it.
LEMMA CommitCounts ==
  ASSUME IInv, NEW e \in Events, Commit(e)
  PROVE  CountersExact' /\ WithinBudget'
<1>1. need[e] = "none" /\ e \notin Legacy /\ need \in [Events -> Needs]
  BY DEF Commit, IInv, NeedsCommitted, Shape, TypeOK
<1>2. CASE e \notin Searched
  <2>1. UNCHANGED <<need, open, groups>>
    BY <1>2 DEF Commit
  <2>2. QED
    BY <2>1, SameCharges DEF OpenWork, Charged
<1>3. CASE e \in Searched
  <2>1. HasRoom /\ need' = [need EXCEPT ![e] = "open"] /\ open' = open + 1 /\ groups' = groups + 1
    BY <1>3 DEF Commit
  <2>2. /\ e \notin OpenWork /\ e \notin Charged
        /\ OpenWork' = OpenWork \cup {e} /\ Charged' = Charged \cup {e}
    BY <1>1, <2>1 DEF OpenWork, Charged, Needs
  <2>3. /\ Cardinality(OpenWork') = Cardinality(OpenWork) + 1
        /\ Cardinality(Charged') = Cardinality(Charged) + 1
    BY <2>2, CountedFinite, FS_AddElement
  <2>4. (Charged \ Legacy)' = (Charged \ Legacy) \cup {e} /\ e \notin Charged \ Legacy
    BY <1>1, <2>2
  <2>5. Cardinality((Charged \ Legacy)') = Cardinality(Charged \ Legacy) + 1
    BY <2>4, CountedFinite, FS_AddElement
  <2>6. Cardinality(Charged \ Legacy) < GroupLimit
    BY <2>1, CountedFinite DEF HasRoom, IInv, CountersExact
  <2>7. QED
    BY <2>1, <2>3, <2>5, <2>6, CountedFinite DEF IInv, CountersExact, WithinBudget
<1>4. QED
  BY <1>2, <1>3

\* The first result of a generation closes the requirement, later ones count for nothing.
LEMMA ApplicationCounts ==
  ASSUME IInv, NEW e \in Events, NEW g \in Generations, RecordApplication(e, g)
  PROVE  CountersExact' /\ WithinBudget'
<1>1. need \in [Events -> Needs]
  BY DEF IInv, Shape, TypeOK
<1>2. CASE need[e] # "open"
  <2>1. UNCHANGED <<need, open, groups>>
    BY <1>2 DEF RecordApplication
  <2>2. QED
    BY <2>1, SameCharges DEF OpenWork, Charged
<1>3. CASE need[e] = "open"
  <2>1. /\ need' = [need EXCEPT ![e] = "closed"]
        /\ open' = IF open > 0 THEN open - 1 ELSE 0
        /\ groups' = IF e \in Legacy THEN groups + 1 ELSE groups
    BY <1>3 DEF RecordApplication
  <2>2. /\ e \in OpenWork /\ OpenWork' = OpenWork \ {e}
        /\ Charged' = Charged \cup {e} /\ (e \in Charged <=> e \notin Legacy)
        /\ (Charged \ Legacy)' = Charged \ Legacy
    BY <1>1, <1>3, <2>1 DEF OpenWork, Charged, Needs
  <2>3. /\ Cardinality(OpenWork') = Cardinality(OpenWork) - 1 /\ Cardinality(OpenWork) # 0
        /\ Cardinality(Charged') = IF e \in Legacy THEN Cardinality(Charged) + 1
                                                   ELSE Cardinality(Charged)
    BY <2>2, CountedFinite, FS_AddElement, FS_RemoveElement, FS_EmptySet
  <2>4. CountersExact'
    BY <2>1, <2>3, CountedFinite DEF IInv, CountersExact
  <2>5. WithinBudget'
    BY <2>2 DEF IInv, WithinBudget
  <2>6. QED
    BY <2>4, <2>5
<1>4. QED
  BY <1>2, <1>3

\* A cleanup transaction releases what it had charged, never more: the floor at zero
\* does not decide.
LEMMA DeleteCounts ==
  ASSUME IInv, NEW r \in Replicas, DeleteRows(r)
  PROVE  CountersExact' /\ WithinBudget'
<1> DEFINE R == {e \in Deletable(r) : need[e] = "closed" /\ retained[e]}
<1>1. /\ need' = [e \in Events |-> IF e \in R THEN "released" ELSE need[e]]
      /\ groups' = IF groups > Cardinality(R) THEN groups - Cardinality(R) ELSE 0
      /\ open' = open
  BY DEF DeleteRows, ReleaseRetention
<1>2. Deletable(r) \subseteq Events
  BY DeletableRows DEF IInv
<1>3. /\ R \in SUBSET Charged
      /\ OpenWork' = OpenWork /\ Charged' = Charged \ R
      /\ (Charged \ Legacy)' \in SUBSET (Charged \ Legacy)
  BY <1>1, <1>2 DEF OpenWork, Charged, IInv, Shape, TypeOK, Needs
<1> HIDE DEF R
<1>4. /\ Cardinality(R) \in Nat /\ Cardinality(R) <= Cardinality(Charged)
      /\ Cardinality(Charged \ R) = Cardinality(Charged) - Cardinality(R)
  <2>1. Charged \cap R = R
    BY <1>3
  <2>2. QED
    BY <1>3, <2>1, CountedFinite, FS_Subset, FS_CardinalityType, FS_Difference
<1>5. Cardinality((Charged \ Legacy)') <= Cardinality(Charged \ Legacy)
  BY <1>3, CountedFinite, FS_Subset
<1>6. CountersExact'
  BY <1>1, <1>3, <1>4, CountedFinite DEF IInv, CountersExact
<1>7. WithinBudget'
  <2>1. IsFiniteSet((Charged \ Legacy)') /\ Cardinality((Charged \ Legacy)') \in Nat
    BY <1>3, CountedFinite, FS_Subset, FS_CardinalityType
  <2>2. QED
    BY <1>5, <2>1, CountedFinite DEF IInv, WithinBudget
<1>8. QED
  BY <1>6, <1>7

\* Evicting released evidence changes no count.
LEMMA EvictCounts ==
  ASSUME IInv, NEW r \in Replicas, NEW S \in SUBSET Events, Evict(r, S)
  PROVE  CountersExact' /\ WithinBudget'
<1>1. /\ need' = [e \in Events |-> IF e \in S THEN "gone" ELSE need[e]]
      /\ open' = open /\ groups' = groups
      /\ \A e \in S : need[e] = "released"
  BY DEF Evict, Expired, budget
<1>2. OpenWork' = OpenWork /\ Charged' = Charged
  BY <1>1 DEF OpenWork, Charged
<1>3. QED
  BY <1>1, <1>2, SameCharges

\* Every step keeps the counters exact and the new work within the budget.
LEMMA CountersStep == IInv /\ [Next]_vars => CountersExact' /\ WithinBudget'
<1> SUFFICES ASSUME IInv, [Next]_vars PROVE CountersExact' /\ WithinBudget'
  OBVIOUS
<1>1. CASE UNCHANGED <<need, open, groups>>
  BY <1>1, SameCharges DEF OpenWork, Charged
<1>2. CASE UNCHANGED vars
  BY <1>1, <1>2 DEF vars
<1>3. ASSUME NEW e \in Events, Publish(e) \/ RetentionPasses(e) \/ ReceiptExpires(e)
      PROVE  UNCHANGED <<need, open, groups>>
  BY <1>3 DEF Publish, RetentionPasses, ReceiptExpires, evidence, budget
<1>4. CASE Age
  BY <1>1, <1>4 DEF Age, evidence, budget
<1>5. ASSUME NEW r \in Replicas, StartCycle(r) \/ Scan(r) \/ EvictFails(r) \/ Restart(r)
      PROVE  UNCHANGED <<need, open, groups>>
  BY <1>5 DEF StartCycle, Scan, EvictFails, Restart, evidence, budget
<1>6. ASSUME NEW r \in Replicas, Delete(r) \/ DeleteFails(r)
      PROVE  DeleteRows(r) \/ UNCHANGED <<need, open, groups>>
  BY <1>6 DEF Delete, DeleteFails, evidence, budget
<1>7. QED
  BY <1>1, <1>2, <1>3, <1>4, <1>5, <1>6, CommitCounts, ApplicationCounts, DeleteCounts,
     EvictCounts DEF Next

-----------------------------------------------------------------------------
(* The rows that are still needed                                           *)

\* Every step keeps requirements with their rows.
LEMMA CommittedStep == IInv /\ [Next]_vars => NeedsCommitted'
<1> SUFFICES ASSUME IInv, [Next]_vars, NEW e \in Events
             PROVE  /\ row'[e] = "absent" => need'[e] = "none"
                    /\ e \in Legacy => row'[e] # "absent"
  BY DEF NeedsCommitted
<1> USE DEF IInv, NeedsCommitted, Shape, TypeOK
<1>1. CASE UNCHANGED vars
  BY <1>1 DEF vars
<1>2. ASSUME NEW x \in Events, Commit(x) PROVE row'[e] # "absent" \/ UNCHANGED <<row[e], need[e]>>
  BY <1>2 DEF Commit
<1>3. ASSUME NEW x \in Events, Publish(x) \/ RetentionPasses(x) \/ ReceiptExpires(x)
      PROVE  row'[e] # "absent" \/ UNCHANGED <<row[e], need[e]>>
  BY <1>3 DEF Publish, RetentionPasses, ReceiptExpires, evidence
<1>4. ASSUME NEW x \in Events, NEW g \in Generations, RecordApplication(x, g)
      PROVE  row'[e] = row[e] /\ (need'[e] = need[e] \/ need[e] = "open")
  BY <1>4 DEF RecordApplication
<1>5. CASE Age
  BY <1>5 DEF Age, evidence
<1>6. ASSUME NEW r \in Replicas, StartCycle(r) \/ Scan(r) \/ EvictFails(r) \/ Restart(r)
      PROVE  UNCHANGED <<row[e], need[e]>>
  BY <1>6 DEF StartCycle, Scan, EvictFails, Restart, evidence
<1>7. ASSUME NEW r \in Replicas, DeleteRows(r)
      PROVE  row'[e] # "absent" \/ UNCHANGED <<row[e], need[e]>>
  BY <1>7, DeletableRows DEF DeleteRows, ReleaseRetention
<1>8. ASSUME NEW r \in Replicas, Delete(r) \/ DeleteFails(r)
      PROVE  DeleteRows(r) \/ UNCHANGED <<row[e], need[e]>>
  BY <1>8 DEF Delete, DeleteFails, evidence
<1>9. ASSUME NEW r \in Replicas, NEW S \in SUBSET Events, Evict(r, S)
      PROVE  row'[e] = row[e] /\ (need'[e] = need[e] \/ need[e] = "released")
  BY <1>9 DEF Evict, Expired
<1>10. QED
  BY <1>1, <1>2, <1>3, <1>4, <1>5, <1>6, <1>7, <1>8, <1>9 DEF Next

\* Every step keeps the rows that are still needed.
LEMMA ProtectedStep == IInv /\ [Next]_vars => ProtectedRowsStay'
<1> SUFFICES ASSUME IInv, [Next]_vars, NEW e \in Events, Protected(e)'
             PROVE  row'[e] # "deleted"
  BY DEF ProtectedRowsStay
<1> USE DEF IInv, ProtectedRowsStay, Shape, TypeOK, Protected
<1>1. CASE UNCHANGED vars
  BY <1>1 DEF vars
<1>2. ASSUME NEW x \in Events, Commit(x) PROVE row'[e] # "deleted"
  BY <1>2 DEF Commit
<1>3. ASSUME NEW x \in Events, Publish(x) \/ RetentionPasses(x) \/ ReceiptExpires(x)
      PROVE  row'[e] # "deleted"
  BY <1>3 DEF Publish, RetentionPasses, ReceiptExpires, evidence
<1>4. ASSUME NEW x \in Events, NEW g \in Generations, RecordApplication(x, g)
      PROVE  row'[e] # "deleted"
  BY <1>4 DEF RecordApplication
<1>5. CASE Age
  BY <1>5 DEF Age, evidence
<1>6. ASSUME NEW r \in Replicas, StartCycle(r) \/ Scan(r) \/ EvictFails(r) \/ Restart(r)
      PROVE  row'[e] # "deleted"
  BY <1>6 DEF StartCycle, Scan, EvictFails, Restart, evidence
<1>7. ASSUME NEW r \in Replicas, DeleteRows(r) PROVE row'[e] # "deleted"
  BY <1>7, DeletableRows DEF DeleteRows, ReleaseRetention
<1>8. ASSUME NEW r \in Replicas, Delete(r) \/ DeleteFails(r) PROVE row'[e] # "deleted"
  BY <1>7, <1>8 DEF Delete, DeleteFails, evidence
<1>9. ASSUME NEW r \in Replicas, NEW S \in SUBSET Events, Evict(r, S)
      PROVE  row'[e] # "deleted"
  BY <1>9 DEF Evict
<1>10. QED
  BY <1>1, <1>2, <1>3, <1>4, <1>5, <1>6, <1>7, <1>8, <1>9 DEF Next

\* The invariant holds in every reachable state.
THEOREM RetentionInvariant == Spec => []IInv
<1>1. IInv /\ [Next]_vars => IInv'
  BY ShapeStep, CountersStep, CommittedStep, ProtectedStep DEF IInv
<1>2. QED
  BY <1>1, InitIInv, PTL DEF Spec

\* The shared counters count exactly the open work and the charged groups: closing,
\* releasing and their floors at zero never make the budget drift
\* (budget.go, application.go, CleanupOnce).
THEOREM CountersStayExact == Spec => []CountersExact
<1>1. IInv => CountersExact
  BY DEF IInv
<1>2. QED
  BY <1>1, RetentionInvariant, PTL

\* Admission keeps the work of this version within the limit of retained groups,
\* whatever requirements of before the reservation add to the counter.
THEOREM BudgetKept == Spec => []WithinBudget
<1>1. IInv => WithinBudget
  BY DEF IInv
<1>2. QED
  BY <1>1, RetentionInvariant, PTL

\* The types are kept, and the cleanup of any number of replicas deletes no outbox row
\* that has open work, evidence to retain or a live receipt.
THEOREM NeededRowsStay == Spec => []RetentionSafe
<1>1. IInv => RetentionSafe
  BY DEF IInv, Shape, RetentionSafe
<1>2. QED
  BY <1>1, RetentionInvariant, PTL

-----------------------------------------------------------------------------
(* Post commands.                                                           *)

\* Steps at which a transaction has inserted its row of the command's key.
Holding == {"event", "account", "commit"}

\* What a transaction found under its locks still holds at its later steps.
Sound(x) ==
  x.at # "idle" =>
    /\ environment.ready /\ environment.mode = "v2" /\ x.epoch = environment.epoch
    /\ x.op = "create" => x.key \in Clients /\ x.digest \in Digests
    /\ x.at \in {"post", "reserve"} => x.op = "create"
    /\ x.at = "post" => x.post = 0
    /\ x.at # "post" => x.post \in Commands!Numbers
    /\ x.op = "create" /\ x.at # "post" => x.rev = 1 /\ \A e \in postEvents : e.post # x.post
    /\ x.op # "create" => /\ x.op \in {"update", "delete"} /\ posts[x.post] # Commands!Gone
                          /\ x.rev = posts[x.post] + 1
    /\ x.op = "create" /\ x.at \in Holding => Commands!Found(x.epoch, x.key) = {}
    /\ x.at = "commit" => openCount[x.epoch] < MaxOpen

\* Two transactions share no post's row, no key they inserted and no budget row.
Apart(x, y) ==
  x.at # "idle" /\ y.at # "idle" =>
    /\ x.post # 0 => x.post # y.post
    /\ x.op = "create" /\ y.op = "create" /\ x.at \in Holding /\ y.at \in Holding =>
         x.key # y.key
    /\ ~(x.at = "commit" /\ y.at = "commit")

WritersSound == \A t \in Writers : Sound(writer[t])
WritersApart == \A t, u \in Writers : t # u => Apart(writer[t], writer[u])

\* A row is at the revision of its last event.
RowsLead == \A e \in postEvents : posts[e.post] # Commands!Gone => e.rev <= posts[e.post]

CommandsInv ==
  /\ Commands!TypeOK /\ Commands!OncePerKey /\ Commands!EventsTellThePost
  /\ Commands!OpenExact
  /\ WritersSound /\ WritersApart /\ RowsLead /\ IsFiniteSet(openNeeds)

-----------------------------------------------------------------------------
\* Counting in the instance is counting.
LEMMA CommandCount == \A S : Commands!Cardinality(S) = Cardinality(S)
BY DEF Commands!Cardinality, Cardinality

USE CommandsAssumption

Record == [at : {"idle", "post", "reserve", "event", "account", "commit"},
           op : Commands!Ops \cup {"none"}, epoch : 0 .. MaxEpochs,
           key : Clients \cup {Commands!NoKey}, digest : Digests \cup {0},
           post : 0 .. MaxCommands, rev : 0 .. MaxRevision]

LEMMA CommandsStart == Commands!Init => CommandsInv
<1> SUFFICES ASSUME Commands!Init PROVE CommandsInv
  OBVIOUS
<1>1. Commands!TypeOK
    <2>1. commandFaults \in 0 .. CommandFaults /\ legacyRows \in 0 .. 1
    BY DEF Commands!Init
  <2>2. openCount \in [Commands!Epochs -> Nat] /\ posts \in [Commands!Numbers -> 0 .. MaxRevision]
    BY DEF Commands!Init, Commands!Gone
  <2>3. environment \in [epoch : Commands!Epochs, ready : BOOLEAN, mode : {"legacy", "v2"}]
    <3>1. PICK m \in {"legacy", "v2"} : environment = [epoch |-> 1, ready |-> TRUE, mode |-> m]
      BY DEF Commands!Init
    <3>2. 1 \in Commands!Epochs
      BY DEF Commands!Epochs
    <3>3. QED
      BY <3>1, <3>2
  <2>4. writer \in [Writers -> Record]
    BY DEF Commands!Init, Commands!Idle, Record
  <2>5. QED
    BY <2>1, <2>2, <2>3, <2>4 DEF Record, Commands!Init, Commands!TypeOK, Commands!Facts
<1>2. Commands!OncePerKey /\ Commands!EventsTellThePost /\ RowsLead
  BY DEF Commands!Init, Commands!OncePerKey, Commands!EventsTellThePost, RowsLead
<1>3. IsFiniteSet(openNeeds)
  BY FS_EmptySet DEF Commands!Init
<1>4. Commands!OpenExact
  <2>1. \A e \in Commands!Epochs : {n \in openNeeds : n.epoch = e} = {}
    BY DEF Commands!Init
  <2>2. Cardinality({}) = 0
    BY FS_EmptySet
  <2>3. QED
    BY <2>1, <2>2, CommandCount DEF Commands!Init, Commands!OpenExact
<1>5. WritersSound /\ WritersApart
  BY DEF Commands!Init, Commands!Idle, WritersSound, WritersApart, Sound, Apart
<1>6. QED
  BY <1>1, <1>2, <1>3, <1>4, <1>5 DEF CommandsInv

-----------------------------------------------------------------------------
(* Statements before the commit change the record of one transaction.       *)

tables == <<environment, posts, commands, postEvents, openNeeds, openCount, legacyRows>>

\* A record fit to follow the one of t.
Fit(t, x) ==
  x \in Record /\ Sound(x)
  /\ \A u \in Writers : u # t => Apart(x, writer[u]) /\ Apart(writer[u], x)

\* The last record of t is x.
Writes(t, x) == writer' = [writer EXCEPT ![t] = x]

LEMMA WriterType ==
  ASSUME CommandsInv, NEW t \in Writers
  PROVE  writer[t] \in Record /\ Sound(writer[t]) /\ writer \in [Writers -> Record]
<1>1. writer \in [Writers -> Record]
  BY DEF CommandsInv, Commands!TypeOK, Record
<1>2. QED
  BY <1>1 DEF CommandsInv, WritersSound

LEMMA OthersStay ==
  ASSUME CommandsInv, NEW t \in Writers, NEW x, Writes(t, x)
  PROVE  writer'[t] = x /\ \A u \in Writers : u # t => writer'[u] = writer[u]
BY WriterType DEF Writes

\* Facts of the tables do not change with the transactions, and the answers may only grow
\* by what the tables hold.
LEMMA Advance ==
  ASSUME CommandsInv, NEW t \in Writers, NEW x, Writes(t, x), Fit(t, x), UNCHANGED tables,
         answers' \subseteq commands, commandFaults' \in 0 .. CommandFaults
  PROVE  CommandsInv'
<1>1. /\ UNCHANGED environment /\ UNCHANGED posts /\ UNCHANGED commands
      /\ UNCHANGED postEvents /\ UNCHANGED openNeeds /\ UNCHANGED openCount
      /\ UNCHANGED legacyRows
  BY DEF tables
<1>2. writer'[t] = x /\ \A u \in Writers : u # t => writer'[u] = writer[u]
  BY OthersStay
<1>3. writer' \in [Writers -> Record]
  BY WriterType DEF Writes, Fit
<1>4. Commands!TypeOK'
  BY <1>1, <1>3 DEF CommandsInv, Commands!TypeOK, Record
<1>5. Commands!OncePerKey'
  BY <1>1 DEF CommandsInv, Commands!OncePerKey
<1>6. Commands!EventsTellThePost'
  BY <1>1 DEF CommandsInv, Commands!EventsTellThePost
<1>7. Commands!OpenExact'
  BY <1>1 DEF CommandsInv, Commands!OpenExact, Commands!Cardinality
<1>9. WritersSound'
  <2> SUFFICES ASSUME NEW u \in Writers PROVE Sound(writer[u])'
    BY DEF WritersSound
  <2>1. PICK y : y = writer'[u]
    OBVIOUS
  <2>2. Sound(y)
    BY <1>2, <2>1 DEF Fit, CommandsInv, WritersSound
  <2>3. QED
    BY <2>1, <2>2, <1>1 DEF Sound, Commands!Found
<1>10. WritersApart'
  BY <1>2 DEF WritersApart, Fit, CommandsInv, Apart
<1>11. RowsLead' /\ IsFiniteSet(openNeeds)'
  BY <1>1 DEF CommandsInv, RowsLead
<1>12. QED
  BY <1>4, <1>5, <1>6, <1>7, <1>9, <1>10, <1>11 DEF CommandsInv

\* Who waits for whom: no other transaction has what t may take.
LEMMA Held ==
  ASSUME CommandsInv, NEW t \in Writers, NEW u \in Writers, u # t
  PROVE  /\ ~Commands!BudgetHeld(t) => writer[u].at # "commit"
         /\ \A n : ~Commands!RowHeld(n, t) /\ writer[u].at # "idle" => writer[u].post # n
         /\ \A k, e : /\ ~Commands!KeyHeld(k, e, t) /\ writer[u].at \in Holding
                      /\ writer[u].epoch = e
                      => writer[u].key # k
BY DEF Commands!BudgetHeld, Commands!RowHeld, Commands!KeyHeld, Commands!Live, Holding

\* An idle record fits anywhere.
LEMMA IdleFits ==
  ASSUME CommandsInv, NEW t \in Writers
  PROVE  Fit(t, Commands!Idle)
BY DEF Fit, Commands!Idle, Sound, Apart, Record

\* A replay answers with the command found.
LEMMA ReplayTells ==
  ASSUME CommandsInv, NEW k, NEW d, Commands!Found(environment.epoch, k) # {},
         Commands!Replay(k, d, CHOOSE x \in Commands!Found(environment.epoch, k) : TRUE)
  PROVE  answers' \subseteq commands /\ commandFaults' \in 0 .. CommandFaults
<1>1. PICK c \in commands :
        /\ c.epoch = environment.epoch /\ c.key = k
        /\ c = CHOOSE x \in Commands!Found(environment.epoch, k) : TRUE
  BY DEF Commands!Found
<1>2. c = [epoch |-> c.epoch, key |-> c.key, digest |-> c.digest, post |-> c.post]
  BY DEF CommandsInv, Commands!TypeOK
<1>3. answers \subseteq commands /\ commandFaults \in 0 .. CommandFaults
  BY DEF CommandsInv, Commands!OncePerKey, Commands!TypeOK
<1>4. Commands!Replay(k, d, c)
  BY <1>1
<1>5. CASE c.digest = d /\ Commands!Told(k, d, c.post) /\ UNCHANGED commandFaults
  BY <1>1, <1>2, <1>3, <1>5 DEF Commands!Told
<1>6. CASE UNCHANGED <<answers, commandFaults>>
  BY <1>3, <1>6
<1>7. CASE Commands!Fault /\ UNCHANGED answers
  BY <1>3, <1>7 DEF Commands!Fault
<1>8. QED
  BY <1>4, <1>5, <1>6, <1>7 DEF Commands!Replay

LEMMA BeginKeeps ==
  ASSUME CommandsInv, NEW t \in Writers, NEW c \in Clients, NEW d \in Digests,
         Commands!Begin(t, c, d)
  PROVE  CommandsInv'
<1>1. UNCHANGED tables /\ writer[t] = Commands!Idle /\ environment.ready
      /\ environment.mode = "v2"
  BY DEF Commands!Begin, tables
<1>2. CASE Commands!Found(environment.epoch, c) # {}
  <2>1. UNCHANGED writer /\ answers' \subseteq commands
        /\ commandFaults' \in 0 .. CommandFaults
    BY <1>2, ReplayTells DEF Commands!Begin
  <2>2. Writes(t, Commands!Idle)
    BY <1>1, <2>1, WriterType DEF Writes
  <2>3. QED
    BY <1>1, <2>1, <2>2, IdleFits, Advance
<1>3. CASE Commands!Found(environment.epoch, c) = {}
  <2>1. PICK x : x = [Commands!Idle EXCEPT !.at = "post", !.op = "create", !.key = c,
                                           !.epoch = environment.epoch, !.digest = d]
    OBVIOUS
  <2>2. Writes(t, x) /\ UNCHANGED <<answers, commandFaults>>
    BY <1>3, <2>1 DEF Commands!Begin, Writes
  <2>3. x = [at |-> "post", op |-> "create", epoch |-> environment.epoch, key |-> c,
             digest |-> d, post |-> 0, rev |-> 0]
    BY <2>1 DEF Commands!Idle
  <2>4. environment.epoch \in 1 .. MaxEpochs
    BY DEF CommandsInv, Commands!TypeOK, Commands!Epochs
  <2>5. x \in Record
    BY <2>3, <2>4 DEF Record, Commands!Ops
  <2>6. Sound(x) /\ \A u \in Writers : Apart(x, writer[u]) /\ Apart(writer[u], x)
    BY <1>1, <2>3 DEF Sound, Apart, Holding
  <2>7. answers' \subseteq commands /\ commandFaults' \in 0 .. CommandFaults
    BY <2>2 DEF CommandsInv, Commands!OncePerKey, Commands!TypeOK
  <2>8. QED
    BY <1>1, <2>2, <2>5, <2>6, <2>7, Advance DEF Fit
<1>4. QED
  BY <1>2, <1>3

\* The steps that neither answer nor fail.
LEMMA QuietlyOn ==
  ASSUME CommandsInv, NEW t \in Writers, NEW x, Writes(t, x), Fit(t, x), UNCHANGED tables,
         UNCHANGED <<answers, commandFaults>>
  PROVE  CommandsInv'
<1>1. answers' \subseteq commands /\ commandFaults' \in 0 .. CommandFaults
  BY DEF CommandsInv, Commands!OncePerKey, Commands!TypeOK
<1>2. QED
  BY <1>1, Advance

LEMMA InsertPostKeeps ==
  ASSUME CommandsInv, NEW t \in Writers, Commands!InsertPost(t)
  PROVE  CommandsInv'
<1>1. PICK n \in Commands!Numbers \ Commands!Used :
        writer' = [writer EXCEPT ![t].at = "reserve", ![t].post = n, ![t].rev = 1]
  BY DEF Commands!InsertPost
<1>2. PICK p : p = writer[t]
  OBVIOUS
<1>3. p \in Record /\ Sound(p) /\ p.at = "post"
  BY <1>2, WriterType DEF Commands!InsertPost
<1>4. PICK x : x = [p EXCEPT !.at = "reserve", !.post = n, !.rev = 1]
  OBVIOUS
<1>5. Writes(t, x)
  BY <1>1, <1>2, <1>4, WriterType DEF Writes
<1>6. x \in Record /\ x.at = "reserve" /\ x.post = n /\ x.rev = 1 /\ x.op = p.op
      /\ x.key = p.key /\ x.digest = p.digest /\ x.epoch = p.epoch
  <2>1. n \in 0 .. MaxCommands /\ 1 \in 0 .. MaxRevision
    BY DEF Commands!Numbers
  <2>2. QED
    BY <1>3, <1>4, <2>1 DEF Record
<1>7. Sound(x)
  BY <1>3, <1>6 DEF Sound, Commands!Used, Holding
<1>8. n # 0 /\ \A u \in Writers : writer[u].at # "idle" => writer[u].post # n
  BY DEF Commands!Used, Commands!Live, Commands!Numbers
<1>9. \A u \in Writers : Apart(x, writer[u]) /\ Apart(writer[u], x)
  BY <1>6, <1>8 DEF Apart, Holding
<1>10. UNCHANGED tables /\ UNCHANGED <<answers, commandFaults>>
  BY DEF Commands!InsertPost, tables
<1>11. QED
  BY <1>5, <1>6, <1>7, <1>9, <1>10, QuietlyOn DEF Fit

LEMMA ReserveKeeps ==
  ASSUME CommandsInv, NEW t \in Writers, Commands!Reserve(t)
  PROVE  CommandsInv'
<1> DEFINE p == writer[t]
<1>1. p \in Record /\ Sound(p) /\ p.at = "reserve"
  BY WriterType DEF Commands!Reserve
<1>2. p.epoch = environment.epoch /\ UNCHANGED tables
  BY <1>1 DEF Sound, Commands!Reserve, tables
<1>3. CASE Commands!Found(p.epoch, p.key) # {}
  <2>1. writer' = [writer EXCEPT ![t] = Commands!Idle]
        /\ Commands!Replay(p.key, p.digest, CHOOSE x \in Commands!Found(p.epoch, p.key) : TRUE)
    BY <1>3 DEF Commands!Reserve
  <2>2. answers' \subseteq commands /\ commandFaults' \in 0 .. CommandFaults
    BY <1>2, <1>3, <2>1, ReplayTells
  <2>3. QED
    BY <1>2, <2>1, <2>2, IdleFits, Advance DEF Writes
<1>4. CASE Commands!Found(p.epoch, p.key) = {}
  <2>1. PICK x : x = [p EXCEPT !.at = "event"]
    OBVIOUS
  <2>2. Writes(t, x) /\ UNCHANGED <<answers, commandFaults>> /\ ~Commands!KeyHeld(p.key, p.epoch, t)
    BY <1>4, <2>1, WriterType DEF Commands!Reserve, Writes
  <2>3. x \in Record /\ x.at = "event" /\ x.post = p.post /\ x.rev = p.rev /\ x.op = p.op
        /\ x.key = p.key /\ x.digest = p.digest /\ x.epoch = p.epoch
    BY <1>1, <2>1 DEF Record
  <2>4. Sound(x)
    BY <1>1, <1>4, <2>3 DEF Sound, Holding
  <2>5. ASSUME NEW u \in Writers, u # t PROVE Apart(x, writer[u]) /\ Apart(writer[u], x)
    <3>1. Apart(p, writer[u]) /\ Apart(writer[u], p) /\ Sound(writer[u])
      BY <2>5 DEF CommandsInv, WritersApart, WritersSound
    <3>2. writer[u].at \in Holding => writer[u].key # p.key
      BY <1>2, <2>2, <2>5, <3>1, Held DEF Sound, Holding
    <3>3. QED
      BY <1>1, <2>3, <3>1, <3>2 DEF Apart
  <2>6. QED
    BY <1>2, <2>2, <2>3, <2>4, <2>5, QuietlyOn DEF Fit
<1>5. QED
  BY <1>3, <1>4

LEMMA InsertEventKeeps ==
  ASSUME CommandsInv, NEW t \in Writers, Commands!InsertEvent(t)
  PROVE  CommandsInv'
<1> DEFINE p == writer[t]
<1>1. p \in Record /\ Sound(p) /\ p.at = "event"
  BY WriterType DEF Commands!InsertEvent
<1>2. PICK x : x = [p EXCEPT !.at = "account"]
  OBVIOUS
<1>3. Writes(t, x) /\ UNCHANGED <<answers, commandFaults>> /\ UNCHANGED tables
  BY <1>2, WriterType DEF Commands!InsertEvent, Writes, tables
<1>4. x \in Record /\ x.at = "account" /\ x.post = p.post /\ x.rev = p.rev /\ x.op = p.op
      /\ x.key = p.key /\ x.digest = p.digest /\ x.epoch = p.epoch
  BY <1>1, <1>2 DEF Record
<1>5. Sound(x)
  BY <1>1, <1>4 DEF Sound, Holding
<1>6. ASSUME NEW u \in Writers, u # t PROVE Apart(x, writer[u]) /\ Apart(writer[u], x)
  <2>1. Apart(p, writer[u]) /\ Apart(writer[u], p)
    BY <1>6 DEF CommandsInv, WritersApart
  <2>2. QED
    BY <1>1, <1>4, <2>1 DEF Apart, Holding
<1>7. QED
  BY <1>3, <1>4, <1>5, <1>6, QuietlyOn DEF Fit

LEMMA AccountKeeps ==
  ASSUME CommandsInv, NEW t \in Writers, Commands!Account(t)
  PROVE  CommandsInv'
<1> DEFINE p == writer[t]
<1>1. p \in Record /\ Sound(p) /\ p.at = "account" /\ ~Commands!BudgetHeld(t)
  BY WriterType DEF Commands!Account
<1>2. UNCHANGED <<answers, commandFaults>> /\ UNCHANGED tables
  BY DEF Commands!Account, tables
<1>3. CASE openCount[p.epoch] >= MaxOpen
  <2>1. Writes(t, Commands!Idle)
    BY <1>3 DEF Commands!Account, Writes
  <2>2. QED
    BY <1>2, <2>1, IdleFits, QuietlyOn
<1>4. CASE ~(openCount[p.epoch] >= MaxOpen)
  <2>1. PICK x : x = [p EXCEPT !.at = "commit"]
    OBVIOUS
  <2>2. Writes(t, x)
    BY <1>4, <2>1, WriterType DEF Commands!Account, Writes
  <2>3. x \in Record /\ x.at = "commit" /\ x.post = p.post /\ x.rev = p.rev /\ x.op = p.op
        /\ x.key = p.key /\ x.digest = p.digest /\ x.epoch = p.epoch
    BY <1>1, <2>1 DEF Record
  <2>4. openCount[p.epoch] < MaxOpen
    <3>1. p.epoch \in Commands!Epochs /\ openCount \in [Commands!Epochs -> Nat]
      BY <1>1 DEF Sound, CommandsInv, Commands!TypeOK
    <3>2. openCount[p.epoch] \in Nat
      BY <3>1
    <3>3. QED
      BY <1>4, <3>2
  <2>5. Sound(x)
    BY <1>1, <2>3, <2>4 DEF Sound, Holding
  <2>6. ASSUME NEW u \in Writers, u # t PROVE Apart(x, writer[u]) /\ Apart(writer[u], x)
    <3>1. Apart(p, writer[u]) /\ Apart(writer[u], p) /\ writer[u].at # "commit"
      BY <1>1, <2>6, Held DEF CommandsInv, WritersApart
    <3>2. QED
      BY <1>1, <2>3, <3>1 DEF Apart, Holding
  <2>7. QED
    BY <1>2, <2>2, <2>3, <2>5, <2>6, QuietlyOn DEF Fit
<1>5. QED
  BY <1>3, <1>4

LEMMA ChangeKeeps ==
  ASSUME CommandsInv, NEW t \in Writers, NEW n \in Commands!Numbers,
         NEW op \in {"update", "delete"}, Commands!Change(t, n, op)
  PROVE  CommandsInv'
<1>1. PICK x : x = [Commands!Idle EXCEPT !.at = "event", !.op = op, !.epoch = environment.epoch,
                                         !.post = n, !.rev = posts[n] + 1]
  OBVIOUS
<1>2. /\ Writes(t, x) /\ UNCHANGED <<answers, commandFaults>> /\ UNCHANGED tables
      /\ environment.ready /\ environment.mode = "v2" /\ posts[n] # Commands!Gone
      /\ posts[n] < MaxRevision /\ ~Commands!RowHeld(n, t)
  BY <1>1 DEF Commands!Change, Writes, tables
<1>3. x = [at |-> "event", op |-> op, epoch |-> environment.epoch, key |-> Commands!NoKey,
           digest |-> 0, post |-> n, rev |-> posts[n] + 1]
  BY <1>1 DEF Commands!Idle
<1>4. environment.epoch \in 0 .. MaxEpochs /\ n \in 0 .. MaxCommands
      /\ posts[n] + 1 \in 0 .. MaxRevision
  <2>1. posts[n] \in 0 .. MaxRevision
    BY DEF CommandsInv, Commands!TypeOK
  <2>2. environment.epoch \in 1 .. MaxEpochs
    BY DEF CommandsInv, Commands!TypeOK, Commands!Epochs
  <2>3. QED
    BY <1>2, <2>1, <2>2 DEF Commands!Numbers
<1>5. x \in Record
  BY <1>3, <1>4 DEF Record, Commands!Ops
<1>6. Sound(x)
  BY <1>2, <1>3 DEF Sound, Holding
<1>7. ASSUME NEW u \in Writers, u # t PROVE Apart(x, writer[u]) /\ Apart(writer[u], x)
  <2>1. writer[u].at # "idle" => writer[u].post # n
    BY <1>2, <1>7, Held
  <2>2. QED
    BY <1>3, <2>1 DEF Apart
<1>8. QED
  BY <1>2, <1>5, <1>6, <1>7, QuietlyOn DEF Fit

\* What the rows of a commit are.
Fact(x) == [epoch |-> x.epoch, post |-> x.post, rev |-> x.rev, op |-> x.op]
Row(x) == IF x.op = "delete" THEN Commands!Gone ELSE x.rev

\* The event of a commit is the post's latest, and no event has it yet.
LEMMA FactIsNew ==
  ASSUME CommandsInv, NEW t \in Writers, writer[t].at = "commit"
  PROVE  /\ Fact(writer[t]) \in Commands!Facts
         /\ \A f \in postEvents : f.post = writer[t].post => f.rev < writer[t].rev
         /\ Fact(writer[t]) \notin postEvents /\ Row(writer[t]) \in 0 .. MaxRevision
         /\ writer[t].op # "delete" => Row(writer[t]) # Commands!Gone
<1> DEFINE p == writer[t]
<1>1. p \in Record /\ Sound(p) /\ p.at = "commit"
  BY WriterType
<1>2. p.post \in Commands!Numbers /\ p.epoch \in Commands!Epochs /\ p.op \in Commands!Ops
  BY <1>1 DEF Sound, CommandsInv, Commands!TypeOK, Record, Commands!Ops
<1>3. posts \in [Commands!Numbers -> 0 .. MaxRevision] /\ postEvents \subseteq Commands!Facts
  BY DEF CommandsInv, Commands!TypeOK
<1>4. p.rev \in 1 .. MaxRevision
  <2>1. p.rev \in 0 .. MaxRevision
    BY <1>1 DEF Record
  <2>2. CASE p.op = "create"
    BY <1>1, <2>1, <2>2 DEF Sound
  <2>3. CASE p.op # "create"
    <3>1. p.rev = posts[p.post] + 1 /\ posts[p.post] \in 0 .. MaxRevision
      BY <1>1, <1>2, <1>3, <2>3 DEF Sound
    <3>2. QED
      BY <2>1, <3>1
  <2>4. QED
    BY <2>2, <2>3
<1>5. Fact(p) \in Commands!Facts
  BY <1>2, <1>4 DEF Fact, Commands!Facts
<1>6. ASSUME NEW f \in postEvents, f.post = p.post PROVE f.rev < p.rev
  <2>1. p.op # "create"
    BY <1>1, <1>6 DEF Sound
  <2>2. p.rev = posts[p.post] + 1 /\ posts[p.post] # Commands!Gone
    BY <1>1, <2>1 DEF Sound
  <2>3. f.rev <= posts[p.post] /\ f.rev \in 1 .. MaxRevision /\ posts[p.post] \in 0 .. MaxRevision
    BY <1>2, <1>3, <1>6, <2>2 DEF CommandsInv, RowsLead, Commands!Facts
  <2>4. QED
    BY <2>2, <2>3
<1>7. Fact(p) \notin postEvents
  <2>1. Fact(p).post = p.post /\ Fact(p).rev = p.rev
    BY DEF Fact
  <2>2. QED
    BY <1>4, <1>6, <2>1
<1>8. Row(p) \in 0 .. MaxRevision /\ (p.op # "delete" => Row(p) # Commands!Gone)
  BY <1>4 DEF Row, Commands!Gone
<1>9. QED
  BY <1>5, <1>6, <1>7, <1>8

\* The history of the posts after a commit took effect.
LEMMA HistoryGrows ==
  ASSUME CommandsInv, NEW t \in Writers, writer[t].at = "commit",
         posts' = [posts EXCEPT ![writer[t].post] = Row(writer[t])],
         postEvents' = postEvents \cup {Fact(writer[t])}
  PROVE  Commands!EventsTellThePost' /\ RowsLead'
<1> DEFINE p == writer[t]
<1>1. p.post \in Commands!Numbers
  BY WriterType DEF Sound
<1>2. /\ posts' \in [Commands!Numbers -> 0 .. MaxRevision] /\ posts'[p.post] = Row(p)
      /\ \A n \in Commands!Numbers : n # p.post => posts'[n] = posts[n]
  BY <1>1, FactIsNew DEF CommandsInv, Commands!TypeOK
<1>3. \A f \in postEvents' : f \in Commands!Facts /\ f.post \in Commands!Numbers /\ f.rev \in Nat
  <2>1. \A f \in postEvents' : f \in Commands!Facts
    BY FactIsNew DEF CommandsInv, Commands!TypeOK
  <2>2. QED
    BY <2>1 DEF Commands!Facts
<1>4. /\ Fact(p).post = p.post /\ Fact(p).rev = p.rev /\ Fact(p).op = p.op
      /\ Fact(p) \in postEvents'
  BY DEF Fact
<1>5. \A f \in postEvents' : f = Fact(p) \/ (f \in postEvents /\ (f.post = p.post => f.rev < p.rev))
  BY FactIsNew
<1>6. ASSUME NEW e \in postEvents', NEW f \in postEvents', e.post = f.post, e.rev = f.rev
      PROVE  e = f
  <2>1. e.rev \in Nat /\ p.rev \in Nat
    BY <1>3, <1>4
  <2>2. (e \in postEvents /\ f \in postEvents) => e = f
    BY <1>6 DEF CommandsInv, Commands!EventsTellThePost
  <2>3. QED
    BY <1>4, <1>5, <1>6, <2>1, <2>2
<1>7. ASSUME NEW e \in postEvents',
             \A f \in postEvents' : f.post = e.post => f.rev <= e.rev
      PROVE  posts'[e.post] = IF e.op = "delete" THEN Commands!Gone ELSE e.rev
  <2>1. CASE e = Fact(p)
    BY <1>2, <1>4, <2>1 DEF Row
  <2>2. CASE e \in postEvents /\ e.post # p.post
    <3>1. \A f \in postEvents : f.post = e.post => f.rev <= e.rev
      BY <1>7
    <3>2. posts[e.post] = IF e.op = "delete" THEN Commands!Gone ELSE e.rev
      BY <2>2, <3>1 DEF CommandsInv, Commands!EventsTellThePost
    <3>3. QED
      BY <1>2, <1>3, <2>2, <3>2
  <2>3. CASE e \in postEvents /\ e.post = p.post
    <3>1. e.rev < p.rev /\ p.rev <= e.rev
      BY <1>4, <1>7, <2>3, FactIsNew
    <3>2. QED
      BY <1>3, <1>4, <3>1
  <2>4. QED
    BY <1>5, <2>1, <2>2, <2>3
<1>8. Commands!EventsTellThePost'
  BY <1>6, <1>7 DEF Commands!EventsTellThePost
<1>9. ASSUME NEW e \in postEvents', posts'[e.post] # Commands!Gone PROVE e.rev <= posts'[e.post]
  <2>1. CASE e.post = p.post
    <3>1. posts'[e.post] = p.rev
      BY <1>2, <1>9, <2>1 DEF Row
    <3>2. QED
      BY <1>3, <1>4, <1>5, <2>1, <3>1
  <2>2. CASE e.post # p.post
    <3>1. e \in postEvents /\ posts'[e.post] = posts[e.post]
      BY <1>2, <1>3, <1>4, <1>5, <2>2
    <3>2. QED
      BY <1>9, <3>1 DEF CommandsInv, RowsLead
  <2>3. QED
    BY <2>1, <2>2
<1>10. QED
  BY <1>8, <1>9 DEF RowsLead

-----------------------------------------------------------------------------
(* Commits, and the settling of requirements.                               *)

OpenIn(e) == {n \in openNeeds : n.epoch = e}

LEMMA OpenFinite ==
  ASSUME CommandsInv, NEW e
  PROVE  IsFiniteSet(OpenIn(e)) /\ Cardinality(OpenIn(e)) \in Nat
<1>1. OpenIn(e) \in SUBSET openNeeds /\ IsFiniteSet(openNeeds)
  BY DEF CommandsInv, OpenIn
<1>2. IsFiniteSet(OpenIn(e))
  BY <1>1, FS_Subset
<1>3. QED
  BY <1>2, FS_CardinalityType

LEMMA OpenCounted ==
  ASSUME CommandsInv, NEW e \in Commands!Epochs
  PROVE  openCount[e] = Cardinality(OpenIn(e)) /\ openCount[e] <= MaxOpen
BY CommandCount DEF CommandsInv, Commands!OpenExact, OpenIn

LEMMA CountGrows ==
  ASSUME CommandsInv, NEW t \in Writers, writer[t].at = "commit",
         openNeeds' = openNeeds \cup {Fact(writer[t])},
         openCount' = [openCount EXCEPT ![writer[t].epoch] = @ + 1]
  PROVE  Commands!OpenExact' /\ IsFiniteSet(openNeeds')
         /\ openCount' \in [Commands!Epochs -> Nat]
<1> DEFINE p == writer[t]
<1>1. p.epoch \in Commands!Epochs /\ openCount \in [Commands!Epochs -> Nat]
      /\ openCount[p.epoch] < MaxOpen
  BY WriterType DEF Sound, CommandsInv, Commands!TypeOK
<1>2. /\ openCount' \in [Commands!Epochs -> Nat] /\ openCount'[p.epoch] = openCount[p.epoch] + 1
      /\ \A e \in Commands!Epochs : e # p.epoch => openCount'[e] = openCount[e]
  BY <1>1
<1>3. Fact(p) \notin openNeeds /\ Fact(p).epoch = p.epoch
  BY FactIsNew DEF CommandsInv, Commands!TypeOK, Fact
<1>4. IsFiniteSet(openNeeds')
  BY FS_AddElement DEF CommandsInv
<1>5. ASSUME NEW e \in Commands!Epochs
      PROVE  openCount'[e] = Cardinality(OpenIn(e)') /\ openCount'[e] <= MaxOpen
  <2>1. CASE e = p.epoch
    <3>1. OpenIn(e)' = OpenIn(e) \cup {Fact(p)} /\ Fact(p) \notin OpenIn(e)
      BY <1>3, <2>1 DEF OpenIn
    <3>2. Cardinality(OpenIn(e) \cup {Fact(p)}) = Cardinality(OpenIn(e)) + 1
      BY <3>1, OpenFinite, FS_AddElement
    <3>3. openCount[e] \in Nat
      BY <1>1
    <3>4. QED
      BY <1>1, <1>2, <2>1, <3>1, <3>2, <3>3, OpenCounted
  <2>2. CASE e # p.epoch
    <3>1. OpenIn(e)' = OpenIn(e)
      BY <1>3, <2>2 DEF OpenIn
    <3>2. QED
      BY <1>2, <2>2, <3>1, OpenCounted
  <2>3. QED
    BY <2>1, <2>2
<1>6. Commands!OpenExact'
  BY <1>5, CommandCount DEF Commands!OpenExact, OpenIn
<1>7. QED
  BY <1>2, <1>4, <1>6

\* An effect leaves the transaction idle.
LEMMA ApplyKeeps ==
  ASSUME CommandsInv, NEW t \in Writers, writer[t].at = "commit", Commands!Apply(t),
         Writes(t, Commands!Idle), UNCHANGED <<environment, legacyRows>>,
         \/ UNCHANGED answers
         \/ writer[t].op = "create"
            /\ Commands!Told(writer[t].key, writer[t].digest, writer[t].post),
         commandFaults' \in 0 .. CommandFaults
  PROVE  CommandsInv'
<1> DEFINE p == writer[t]
           c == [epoch |-> p.epoch, key |-> p.key, digest |-> p.digest, post |-> p.post]
<1>1. p \in Record /\ Sound(p) /\ p.at = "commit" /\ p.epoch = environment.epoch
  BY WriterType DEF Sound
<1>2. /\ posts' = [posts EXCEPT ![p.post] = Row(p)]
      /\ commands' = IF p.op = "create" THEN commands \cup {c} ELSE commands
      /\ postEvents' = postEvents \cup {Fact(p)} /\ openNeeds' = openNeeds \cup {Fact(p)}
      /\ openCount' = [openCount EXCEPT ![p.epoch] = @ + 1]
  BY DEF Commands!Apply, Fact, Row
<1>3. Commands!EventsTellThePost' /\ RowsLead'
  BY <1>1, <1>2, HistoryGrows
<1>4. Commands!OpenExact' /\ IsFiniteSet(openNeeds') /\ openCount' \in [Commands!Epochs -> Nat]
  BY <1>1, <1>2, CountGrows
<1>5. p.post \in Commands!Numbers /\ p.epoch \in Commands!Epochs
  BY <1>1 DEF Sound, CommandsInv, Commands!TypeOK
<1>6. posts' \in [Commands!Numbers -> 0 .. MaxRevision]
      /\ \A n \in Commands!Numbers : n # p.post => posts'[n] = posts[n]
  BY <1>1, <1>2, <1>5, FactIsNew DEF CommandsInv, Commands!TypeOK
<1>7. writer'[t] = Commands!Idle /\ \A u \in Writers : u # t => writer'[u] = writer[u]
  BY OthersStay
<1>8. writer' \in [Writers -> Record]
  BY WriterType, IdleFits DEF Writes, Fit
<1>9. p.op = "create" => p.key \in Clients /\ p.digest \in Digests
                         /\ \A d \in commands : ~(d.epoch = p.epoch /\ d.key = p.key)
  BY <1>1 DEF Sound, Holding, Commands!Found
<1>10. Commands!TypeOK'
  <2>1. commands' \subseteq [epoch : Commands!Epochs, key : Clients, digest : Digests,
                             post : Commands!Numbers]
    BY <1>2, <1>5, <1>9 DEF CommandsInv, Commands!TypeOK
  <2>2. postEvents' \subseteq Commands!Facts /\ openNeeds' \subseteq postEvents'
    BY <1>1, <1>2, FactIsNew DEF CommandsInv, Commands!TypeOK
  <2>3. environment' = environment /\ legacyRows' = legacyRows
    OBVIOUS
  <2>4. QED
    BY <1>4, <1>6, <1>8, <2>1, <2>2, <2>3 DEF CommandsInv, Commands!TypeOK, Record
<1>11. Commands!OncePerKey'
  <2>1. answers' \subseteq commands'
    BY <1>1, <1>2 DEF Commands!Told, CommandsInv, Commands!OncePerKey
  <2>2. ASSUME NEW a \in commands', NEW b \in commands', a.epoch = b.epoch, a.key = b.key
        PROVE  a = b
    <3>1. (a \in commands /\ b \in commands) => a = b
      BY <2>2 DEF CommandsInv, Commands!OncePerKey
    <3>2. \A d \in commands' : d \in commands \/ (d = c /\ p.op = "create")
      BY <1>2
    <3>3. c.epoch = p.epoch /\ c.key = p.key
      OBVIOUS
    <3>4. QED
      BY <1>9, <2>2, <3>1, <3>2, <3>3
  <2>3. QED
    BY <2>1, <2>2 DEF Commands!OncePerKey
<1>12. ASSUME NEW u \in Writers, u # t PROVE Sound(writer[u])'
  <2>1. PICK y : y = writer[u] /\ y = writer'[u]
    BY <1>7, <1>12
  <2>2. Sound(y) /\ y \in Record /\ Apart(p, y) /\ Apart(y, p)
    BY <1>12, <2>1, WriterType DEF CommandsInv, WritersApart
  <2>3. CASE y.at = "idle"
    BY <2>1, <2>3 DEF Sound
  <2>4. CASE y.at # "idle"
    <3>1. y.at # "commit" /\ p.post # y.post
          /\ (p.op = "create" /\ y.op = "create" /\ y.at \in Holding => p.key # y.key)
      BY <1>1, <1>5, <2>2, <2>4 DEF Apart, Holding, Commands!Numbers
    <3>2. y.at # "post" => posts'[y.post] = posts[y.post]
      BY <1>6, <2>2, <2>4, <3>1 DEF Sound
    <3>3. y.op = "create" /\ y.at # "post" => \A e \in postEvents' : e.post # y.post
      BY <1>2, <2>2, <2>4, <3>1 DEF Sound, Fact
    <3>4. y.op = "create" /\ y.at \in Holding => Commands!Found(y.epoch, y.key)' = {}
      <4> SUFFICES ASSUME y.op = "create", y.at \in Holding
                   PROVE  \A d \in commands' : ~(d.epoch = y.epoch /\ d.key = y.key)
        BY DEF Commands!Found
      <4>1. \A d \in commands : ~(d.epoch = y.epoch /\ d.key = y.key)
        BY <2>2, <2>4 DEF Sound, Commands!Found
      <4>2. QED
        BY <1>2, <3>1, <4>1
    <3>5. environment' = environment
      OBVIOUS
    <3>6. y.at # "post" /\ y.op # "create" => posts'[y.post] # Commands!Gone
                                             /\ y.rev = posts'[y.post] + 1
      BY <2>2, <2>4, <3>2 DEF Sound
    <3>7. QED
      BY <2>1, <2>2, <2>4, <3>1, <3>3, <3>4, <3>5, <3>6 DEF Sound
  <2>5. QED
    BY <2>3, <2>4
<1>13. WritersSound'
  <2>1. Sound(writer[t])'
    BY <1>7 DEF Sound, Commands!Idle
  <2>2. QED
    BY <1>12, <2>1 DEF WritersSound
<1>14. WritersApart'
  BY <1>7 DEF WritersApart, Apart, Commands!Idle, CommandsInv
<1>15. QED
  BY <1>3, <1>4, <1>10, <1>11, <1>13, <1>14 DEF CommandsInv

LEMMA CommitKeeps ==
  ASSUME CommandsInv, NEW t \in Writers, Commands!Commit(t)
  PROVE  CommandsInv'
<1>1. writer[t].at = "commit" /\ Writes(t, Commands!Idle) /\ UNCHANGED <<environment, legacyRows>>
  BY DEF Commands!Commit, Writes
<1>2. commandFaults \in 0 .. CommandFaults /\ answers \subseteq commands
  BY DEF CommandsInv, Commands!TypeOK, Commands!OncePerKey
<1>3. Commands!Fault => commandFaults' \in 0 .. CommandFaults
  BY <1>2 DEF Commands!Fault
<1>4. CASE /\ Commands!Apply(t)
           /\ UNCHANGED commandFaults \/ Commands!Fault
           /\ \/ UNCHANGED answers
              \/ writer[t].op = "create"
                 /\ Commands!Told(writer[t].key, writer[t].digest, writer[t].post)
  BY <1>1, <1>2, <1>3, <1>4, ApplyKeeps
<1>5. CASE Commands!Fault /\ UNCHANGED <<posts, commands, postEvents, openNeeds, openCount, answers>>
  <2>1. UNCHANGED tables
    BY <1>1, <1>5 DEF tables
  <2>2. QED
    BY <1>1, <1>2, <1>3, <1>5, <2>1, IdleFits, Advance
<1>6. QED
  BY <1>4, <1>5 DEF Commands!Commit

\* An open requirement settles: its place in the budget is free again.
LEMMA SettleKeeps ==
  ASSUME CommandsInv, Commands!Settle
  PROVE  CommandsInv'
<1>1. PICK s \in openNeeds : openNeeds' = openNeeds \ {s}
                             /\ openCount' = [openCount EXCEPT ![s.epoch] = @ - 1]
  BY DEF Commands!Settle
<1>2. /\ UNCHANGED environment /\ UNCHANGED posts /\ UNCHANGED commands
      /\ UNCHANGED postEvents /\ UNCHANGED legacyRows /\ UNCHANGED writer
      /\ UNCHANGED answers /\ UNCHANGED commandFaults
  BY DEF Commands!Settle
<1>3. s.epoch \in Commands!Epochs /\ openCount \in [Commands!Epochs -> Nat]
  BY DEF CommandsInv, Commands!TypeOK, Commands!Facts
<1>4. \A e \in Commands!Epochs :
        openCount'[e] = IF e = s.epoch THEN openCount[e] - 1 ELSE openCount[e]
  BY <1>1, <1>3
<1>5. ASSUME NEW e \in Commands!Epochs
      PROVE  /\ openCount'[e] = Cardinality(OpenIn(e)') /\ openCount'[e] <= MaxOpen
             /\ openCount'[e] \in Nat /\ openCount'[e] <= openCount[e]
  <2>1. openCount[e] = Cardinality(OpenIn(e)) /\ openCount[e] <= MaxOpen /\ openCount[e] \in Nat
    BY <1>3, OpenCounted
  <2>2. CASE e = s.epoch
    <3>1. OpenIn(e)' = OpenIn(e) \ {s} /\ s \in OpenIn(e)
      BY <1>1, <2>2 DEF OpenIn
    <3>2. Cardinality(OpenIn(e)') = Cardinality(OpenIn(e)) - 1 /\ IsFiniteSet(OpenIn(e)')
      BY <3>1, OpenFinite, FS_RemoveElement
    <3>3. Cardinality(OpenIn(e)') \in Nat
      BY <3>2, FS_CardinalityType
    <3>4. QED
      BY <1>4, <2>1, <2>2, <3>2, <3>3
  <2>3. CASE e # s.epoch
    <3>1. OpenIn(e)' = OpenIn(e)
      BY <1>1, <2>3 DEF OpenIn
    <3>2. QED
      BY <1>4, <2>1, <2>3, <3>1
  <2>4. QED
    BY <2>2, <2>3
<1>6. openCount' \in [Commands!Epochs -> Nat]
  BY <1>1, <1>3, <1>5
<1>7. Commands!TypeOK'
  BY <1>1, <1>2, <1>6 DEF CommandsInv, Commands!TypeOK
<1>8. Commands!OpenExact'
  BY <1>5, CommandCount DEF Commands!OpenExact, OpenIn
<1>9. Commands!OncePerKey' /\ Commands!EventsTellThePost' /\ RowsLead' /\ WritersApart'
  BY <1>2 DEF CommandsInv, Commands!OncePerKey, Commands!EventsTellThePost, RowsLead,
              WritersApart, Apart
<1>10. IsFiniteSet(openNeeds')
  BY <1>1, FS_RemoveElement DEF CommandsInv
<1>11. WritersSound'
  <2> SUFFICES ASSUME NEW u \in Writers PROVE Sound(writer[u])'
    BY DEF WritersSound
  <2>1. PICK y : y = writer[u] /\ y = writer'[u]
    BY <1>2
  <2>2. Sound(y) /\ y \in Record
    BY <2>1, WriterType
  <2>3. y.at = "commit" => openCount'[y.epoch] < MaxOpen
    <3> SUFFICES ASSUME y.at = "commit" PROVE openCount'[y.epoch] < MaxOpen
      OBVIOUS
    <3>1. y.epoch \in Commands!Epochs /\ openCount[y.epoch] < MaxOpen
      BY <2>2 DEF Sound, CommandsInv, Commands!TypeOK
    <3>2. openCount'[y.epoch] \in Nat /\ openCount'[y.epoch] <= openCount[y.epoch]
          /\ openCount[y.epoch] \in Nat
      BY <1>3, <1>5, <3>1
    <3>3. QED
      BY <3>1, <3>2
  <2>4. QED
    BY <1>2, <2>1, <2>2, <2>3 DEF Sound, Commands!Found
<1>12. QED
  BY <1>7, <1>8, <1>9, <1>10, <1>11 DEF CommandsInv

\* The environment row changes only while no transaction holds it.
LEMMA EnvironmentKeeps ==
  ASSUME CommandsInv, Commands!Environment
  PROVE  CommandsInv'
<1>1. /\ UNCHANGED posts /\ UNCHANGED commands /\ UNCHANGED postEvents
      /\ UNCHANGED openNeeds /\ UNCHANGED openCount /\ UNCHANGED writer
      /\ UNCHANGED answers /\ UNCHANGED commandFaults
  BY DEF Commands!Environment, Commands!LegacyWrite, Commands!LegacyPublished,
         Commands!ActivateV2, Commands!BeginRestore, Commands!MarkReady
<1>2. \/ environment' = environment
      \/ \A t \in Writers : writer[t].at = "idle"
  <2>1. CASE Commands!MarkReady
    BY <2>1 DEF CommandsInv, WritersSound, Sound, Commands!MarkReady
  <2>2. CASE Commands!LegacyWrite \/ Commands!LegacyPublished
    BY <2>2 DEF Commands!LegacyWrite, Commands!LegacyPublished
  <2>3. CASE Commands!ActivateV2 \/ Commands!BeginRestore
    BY <2>3 DEF Commands!ActivateV2, Commands!BeginRestore, Commands!Live
  <2>4. QED
    BY <2>1, <2>2, <2>3 DEF Commands!Environment
<1>3. /\ environment' \in [epoch : Commands!Epochs, ready : BOOLEAN, mode : {"legacy", "v2"}]
      /\ legacyRows' \in 0 .. 1
  <2>1. /\ environment \in [epoch : Commands!Epochs, ready : BOOLEAN, mode : {"legacy", "v2"}]
        /\ legacyRows \in 0 .. 1
    BY DEF CommandsInv, Commands!TypeOK
  <2>2. CASE Commands!LegacyWrite \/ Commands!LegacyPublished
    BY <2>1, <2>2 DEF Commands!LegacyWrite, Commands!LegacyPublished
  <2>3. CASE Commands!ActivateV2 \/ Commands!MarkReady
    BY <2>1, <2>3 DEF Commands!ActivateV2, Commands!MarkReady
  <2>4. CASE Commands!BeginRestore
    <3>1. environment.epoch + 1 \in Commands!Epochs
      BY <2>1, <2>4 DEF Commands!BeginRestore, Commands!Epochs
    <3>2. QED
      BY <2>1, <2>4, <3>1 DEF Commands!BeginRestore
  <2>5. QED
    BY <2>2, <2>3, <2>4 DEF Commands!Environment
<1>4. Commands!TypeOK'
  BY <1>1, <1>3 DEF CommandsInv, Commands!TypeOK
<1>5. Commands!OncePerKey' /\ Commands!EventsTellThePost' /\ RowsLead' /\ WritersApart'
  BY <1>1 DEF CommandsInv, Commands!OncePerKey, Commands!EventsTellThePost, RowsLead,
              WritersApart, Apart
<1>6. Commands!OpenExact' /\ IsFiniteSet(openNeeds')
  BY <1>1 DEF CommandsInv, Commands!OpenExact, Commands!Cardinality
<1>7. WritersSound'
  BY <1>1, <1>2 DEF CommandsInv, WritersSound, Sound, Commands!Found
<1>8. QED
  BY <1>4, <1>5, <1>6, <1>7 DEF CommandsInv

LEMMA CommandStepKeeps ==
  ASSUME CommandsInv, Commands!Next
  PROVE  CommandsInv'
<1>1. CASE Commands!Environment \/ Commands!Settle
  BY <1>1, EnvironmentKeeps, SettleKeeps
<1>2. CASE \E t \in Writers : \E c \in Clients, d \in Digests : Commands!Begin(t, c, d)
  BY <1>2, BeginKeeps
<1>3. CASE \E t \in Writers : \E n \in Commands!Numbers, op \in {"update", "delete"} :
             Commands!Change(t, n, op)
  BY <1>3, ChangeKeeps
<1>4. CASE \E t \in Writers : Commands!Statement(t)
  BY <1>4, InsertPostKeeps, ReserveKeeps, InsertEventKeeps, AccountKeeps, CommitKeeps
     DEF Commands!Statement
<1>5. QED
  BY <1>1, <1>2, <1>3, <1>4 DEF Commands!Next

\* Only a commit adds an event, and its transaction held the environment row.
LEMMA FencedStep ==
  ASSUME CommandsInv, Commands!Next
  PROVE  Commands!CommitsInEpoch
<1> SUFFICES ASSUME NEW e \in postEvents' \ postEvents
             PROVE  environment.ready /\ environment.mode = "v2" /\ e.epoch = environment.epoch
  BY DEF Commands!CommitsInEpoch
<1>1. CASE \E t \in Writers : Commands!Commit(t)
  <2>1. PICK t \in Writers : Commands!Commit(t)
    BY <1>1
  <2>2. e = Fact(writer[t]) /\ writer[t].at = "commit"
    BY <2>1 DEF Commands!Commit, Commands!Apply, Fact
  <2>3. QED
    BY <2>2, WriterType DEF Sound, Fact
<1>2. CASE UNCHANGED postEvents
  BY <1>2
<1>3. QED
  BY <1>1, <1>2 DEF Commands!Next, Commands!Environment, Commands!Settle, Commands!Begin,
     Commands!Change, Commands!Statement, Commands!InsertPost, Commands!Reserve,
     Commands!InsertEvent, Commands!Account, Commands!LegacyWrite, Commands!LegacyPublished,
     Commands!ActivateV2, Commands!BeginRestore, Commands!MarkReady

LEMMA CommandsUnchanged == CommandsInv /\ UNCHANGED commandVars => CommandsInv'
<1> SUFFICES ASSUME CommandsInv, UNCHANGED commandVars PROVE CommandsInv'
  OBVIOUS
<1>1. UNCHANGED tables /\ UNCHANGED writer /\ UNCHANGED answers /\ UNCHANGED commandFaults
  BY DEF commandVars, tables
<1>2. CASE \E t \in Writers : TRUE
  <2>1. PICK t \in Writers : TRUE
    BY <1>2
  <2>2. PICK x : x = writer[t]
    OBVIOUS
  <2>3. Writes(t, x) /\ Fit(t, x)
    BY <1>1, <2>2, WriterType DEF Writes, Fit, CommandsInv, WritersApart
  <2>4. QED
    BY <1>1, <2>3, QuietlyOn
<1>3. CASE Writers = {}
  <2>1. WritersSound' /\ WritersApart'
    BY <1>3 DEF WritersSound, WritersApart
  <2>2. /\ UNCHANGED environment /\ UNCHANGED posts /\ UNCHANGED commands
        /\ UNCHANGED postEvents /\ UNCHANGED openNeeds /\ UNCHANGED openCount
        /\ UNCHANGED legacyRows
    BY <1>1 DEF tables
  <2>3. Commands!TypeOK'
    BY <1>1, <2>2 DEF CommandsInv, Commands!TypeOK
  <2>4. Commands!OncePerKey' /\ Commands!EventsTellThePost' /\ RowsLead'
    BY <1>1, <2>2 DEF CommandsInv, Commands!OncePerKey, Commands!EventsTellThePost, RowsLead
  <2>5. Commands!OpenExact' /\ IsFiniteSet(openNeeds')
    BY <2>2 DEF CommandsInv, Commands!OpenExact, Commands!Cardinality
  <2>6. QED
    BY <2>1, <2>3, <2>4, <2>5 DEF CommandsInv
<1>4. QED
  BY <1>2, <1>3

\* For any transactions, clients, contents, limits and epochs: what a transaction found
\* under its locks holds until it ends, and two transactions share no lock.
THEOREM CommandsInvariant == AllSpec => []CommandsInv
<1>1. AllInit => CommandsInv
  BY CommandsStart DEF AllInit
<1>2. CommandsInv /\ [AllNext]_allVars => CommandsInv'
  BY CommandStepKeeps, CommandsUnchanged DEF AllNext, allVars
<1>3. QED
  BY <1>1, <1>2, PTL DEF AllSpec

\* repository.go, commands.go: one key makes one post and every answer speaks of it, the
\* events of a post tell its row, the budget counts the open requirements within its limit,
\* and no event is committed outside its epoch.
THEOREM CommandsStaySafe == AllSpec => CommandsSafe
<1>1. CommandsInv => Commands!TypeOK /\ Commands!OncePerKey /\ Commands!EventsTellThePost
                     /\ Commands!OpenExact
  BY DEF CommandsInv
<1>2. CommandsInv /\ [AllNext]_allVars => [Commands!CommitsInEpoch]_allVars
  <2> SUFFICES ASSUME CommandsInv, AllNext PROVE Commands!CommitsInEpoch \/ UNCHANGED allVars
    OBVIOUS
  <2>1. CASE Commands!Next
    BY <2>1, FencedStep
  <2>2. CASE UNCHANGED commandVars
    BY <2>2 DEF commandVars, Commands!CommitsInEpoch
  <2>3. QED
    BY <2>1, <2>2 DEF AllNext
<1>3. QED
  BY <1>1, <1>2, CommandsInvariant, PTL DEF AllSpec, CommandsSafe

-----------------------------------------------------------------------------
(* Alerts.                                                                  *)

\* A lease that has not run out is that of an evaluation that has just begun.
LeaseIsFresh ==
  \A p \in Evaluators :
    /\ evaluation[p].at = "idle" => evaluation[p].age = 0
    /\ alertLease.owner = p /\ alertLease.left > 0 => evaluation[p].age = 0

\* What was applied, of the present revision, at ages of its own; while an evaluation
\* is due or holds the lease everything is of an earlier time.
AppliedTrue ==
  /\ applied \subseteq [age : Nat, verdict : Rules!Verdicts, rev : {alertRule.rev}]
  /\ \A t, u \in applied : t.age = u.age => t = u
  /\ nextDue = 0 \/ alertLease.left > 0 => \A t \in applied : t.age > 0

\* A pending time is that of a first evaluation, with true ones up to the last one, which
\* follow each other within the gap; a run that is older than the gap begins anew.
PendingRun ==
  /\ (alertState.is = "pending") = (alertState.pending >= 0)
  /\ alertState.is = "pending" /\ alertState.last <= MaxGap =>
       /\ alertState.last >= 0 /\ alertState.last <= alertState.pending
       /\ alertState.pending - alertState.last < LastFor
       /\ \E s \in applied : s.age = alertState.pending
       /\ \E u \in applied : u.age = alertState.last
       /\ \A t \in applied : t.age <= alertState.pending =>
            /\ t.verdict = "true"
            /\ t.age = alertState.pending \/
                 \E u \in applied : /\ u.age > t.age /\ u.age <= alertState.pending
                                    /\ u.age - t.age <= MaxGap

\* Every change of the rule is one revision.
RevisionCounts == ruleEdits \in 0 .. RuleEdits /\ alertRule.rev = ruleEdits + 1

AlertsInv ==
  /\ Rules!TypeOK /\ Rules!IncidentAgrees /\ LeaseIsFresh /\ AppliedTrue /\ PendingRun
  /\ RevisionCounts

-----------------------------------------------------------------------------
USE AlertsAssumption

LEMMA VerdictKinds ==
  /\ Rules!Verdicts \subseteq {"unknown", "true", "false"} /\ "unknown" \in Rules!Verdicts
<1>1. Rules!Verdicts \subseteq {"unknown", "true", "false"}
  BY DEF Rules!Verdicts, Rules!Verdict
<1>2. PICK f : f = [i \in 1 .. 0 |-> 0]
  OBVIOUS
<1>3. f \in [1 .. 0 -> 0 .. 1]
  BY <1>2
<1>4. f \in Rules!Samples
  BY <1>3 DEF Rules!Samples
<1>5. Rules!Verdict(Rules!Reduce(f, FALSE, "last")) = "unknown"
  BY DEF Rules!Verdict, Rules!Reduce
<1>6. FALSE \in BOOLEAN /\ "last" \in {"last", "min", "max", "increase"}
  OBVIOUS
<1>7. Rules!Verdict(Rules!Reduce(f, FALSE, "last")) \in Rules!Verdicts
  <2>1. PICK v : v = Rules!Verdict(Rules!Reduce(f, FALSE, "last"))
    OBVIOUS
  <2>2. \E s \in Rules!Samples, fresh \in BOOLEAN, r \in {"last", "min", "max", "increase"} :
          v = Rules!Verdict(Rules!Reduce(s, fresh, r))
    BY <1>4, <1>6, <2>1, Zenon
  <2>3. v \in Rules!Verdicts
    BY <2>2 DEF Rules!Verdicts
  <2>4. QED
    BY <2>1, <2>3
<1>8. QED
  BY <1>1, <1>5, <1>7

Moments == -1 .. Rules!Old
Rows == [is : {"normal", "pending", "firing", "disabled"}, data : {"unknown", "ok", "stale"},
         active : BOOLEAN, pending : Moments, last : Moments]
Evaluations == [at : {"idle", "claimed", "fetch", "apply"}, rev : 0 .. (RuleEdits + 1),
                age : 0 .. LateAge, verdict : Rules!Verdicts]

LEMMA OldEnough == Rules!Old \in Nat /\ Rules!Old > LastFor + MaxGap /\ Rules!Old > LateAge
BY DEF Rules!Old

LEMMA AlertTypes ==
  Rules!TypeOK <=>
    /\ alertRule \in [rev : 1 .. (RuleEdits + 1), enabled : BOOLEAN, live : BOOLEAN]
    /\ alertState \in Rows
    /\ alertLease \in [owner : Evaluators \cup {Rules!NoOne}, left : 0 .. 1] /\ nextDue \in 0 .. 1
    /\ incident \in {"none", "firing", "recovered", "closed"}
    /\ evaluation \in [Evaluators -> Evaluations]
BY DEF Rules!TypeOK, Rows, Moments, Evaluations

LEMMA AlertsStart == Rules!Init => AlertsInv
<1> SUFFICES ASSUME Rules!Init PROVE AlertsInv
  OBVIOUS
<1>1. /\ alertRule = [rev |-> 1, enabled |-> TRUE, live |-> TRUE]
      /\ alertState = Rules!Normal /\ alertLease = [owner |-> Rules!NoOne, left |-> 0]
      /\ nextDue = 0 /\ incident = "none" /\ applied = {} /\ ruleEdits = 0
      /\ evaluation = [p \in Evaluators |-> Rules!NoEval]
  BY DEF Rules!Init
<1>2. Rules!Normal \in Rows
  BY OldEnough DEF Rules!Normal, Rows, Moments
<1>3. Rules!NoEval \in Evaluations
  BY VerdictKinds DEF Rules!NoEval, Evaluations
<1>4. Rules!TypeOK
  BY <1>1, <1>2, <1>3, AlertTypes
<1>5. Rules!IncidentAgrees
  BY <1>1 DEF Rules!IncidentAgrees, Rules!Normal
<1>6. LeaseIsFresh /\ AppliedTrue /\ RevisionCounts
  BY <1>1 DEF LeaseIsFresh, AppliedTrue, RevisionCounts, Rules!NoEval
<1>7. PendingRun
  BY <1>1 DEF PendingRun, Rules!Normal
<1>8. QED
  BY <1>4, <1>5, <1>6, <1>7 DEF AlertsInv

-----------------------------------------------------------------------------
(* Steps of an evaluation before it is applied, and those that end it.      *)

\* The row of the rule, what was applied and the changes of the rule stay.
RowStays == UNCHANGED <<alertRule, alertState, nextDue, incident, applied, ruleEdits>>

\* The evaluation of p is q.
Evaluates(p, q) == evaluation' = [evaluation EXCEPT ![p] = q]

LEMMA EvaluationMoves ==
  ASSUME AlertsInv, NEW p \in Evaluators, NEW q \in Evaluations, Evaluates(p, q), RowStays,
         q.at = "idle" => q.age = 0,
         alertLease' \in [owner : Evaluators \cup {Rules!NoOne}, left : 0 .. 1],
         alertLease'.left > 0 => \/ alertLease' = alertLease
                                 \/ nextDue = 0 /\ alertLease'.owner = p,
         alertLease'.owner = p /\ alertLease'.left > 0 => q.age = 0
  PROVE  AlertsInv'
<1>1. /\ UNCHANGED alertRule /\ UNCHANGED alertState /\ UNCHANGED nextDue
      /\ UNCHANGED incident /\ UNCHANGED applied /\ UNCHANGED ruleEdits
  BY DEF RowStays
<1>2. evaluation \in [Evaluators -> Evaluations]
  BY AlertTypes DEF AlertsInv
<1>3. evaluation' \in [Evaluators -> Evaluations] /\ evaluation'[p] = q
      /\ \A u \in Evaluators : u # p => evaluation'[u] = evaluation[u]
  BY <1>2 DEF Evaluates
<1>4. Rules!TypeOK'
  BY <1>1, <1>3 DEF AlertsInv, Rules!TypeOK, Evaluations
<1>5. Rules!IncidentAgrees' /\ PendingRun' /\ RevisionCounts'
  BY <1>1 DEF AlertsInv, Rules!IncidentAgrees, PendingRun, RevisionCounts
<1>6. LeaseIsFresh'
  BY <1>3 DEF AlertsInv, LeaseIsFresh
<1>7. AppliedTrue'
  BY <1>1 DEF AlertsInv, AppliedTrue
<1>8. QED
  BY <1>4, <1>5, <1>6, <1>7 DEF AlertsInv

\* The fields of an evaluation.
LEMMA EvaluationOf ==
  ASSUME AlertsInv, NEW p \in Evaluators
  PROVE  /\ evaluation[p] \in Evaluations
         /\ evaluation[p].at = "idle" => evaluation[p].age = 0
         /\ alertLease.owner = p /\ alertLease.left > 0 => evaluation[p].age = 0
         /\ alertLease \in [owner : Evaluators \cup {Rules!NoOne}, left : 0 .. 1]
         /\ alertRule.rev \in 1 .. (RuleEdits + 1)
BY AlertTypes DEF AlertsInv, LeaseIsFresh

LEMMA NoEvaluation ==
  Rules!NoEval \in Evaluations /\ Rules!NoEval.age = 0 /\ Rules!NoEval.at = "idle"
BY VerdictKinds DEF Rules!NoEval, Evaluations

LEMMA EvaluationsKeep ==
  ASSUME AlertsInv, NEW p \in Evaluators,
         \/ Rules!Claim(p) \/ Rules!ReadRule(p) \/ Rules!Fetch(p) \/ Rules!Refused(p)
         \/ Rules!GiveUp(p)
  PROVE  AlertsInv'
<1> DEFINE e == evaluation[p]
<1>1. CASE Rules!Claim(p)
  <2>1. PICK q : q = [Rules!NoEval EXCEPT !.at = "claimed"]
    OBVIOUS
  <2>2. q \in Evaluations /\ q.age = 0 /\ q.at = "claimed"
    BY <2>1, VerdictKinds DEF Rules!NoEval, Evaluations
  <2>3. Evaluates(p, q) /\ RowStays /\ nextDue = 0 /\ alertLease' = [owner |-> p, left |-> 1]
    BY <1>1, <2>1 DEF Rules!Claim, Evaluates, RowStays
  <2>4. QED
    BY <2>2, <2>3, EvaluationMoves
<1>2. CASE Rules!ReadRule(p)
  <2>1. PICK q : q = IF alertRule.live THEN [e EXCEPT !.at = "fetch", !.rev = alertRule.rev]
                     ELSE Rules!NoEval
    OBVIOUS
  <2>2. q \in Evaluations /\ (q.at = "idle" => q.age = 0) /\ (q.age = 0 \/ q.age = e.age)
    <3>1. CASE alertRule.live
      <4>1. q = [e EXCEPT !.at = "fetch", !.rev = alertRule.rev] /\ alertRule.rev \in 0 .. (RuleEdits + 1)
        BY <2>1, <3>1, EvaluationOf
      <4>2. QED
        BY <4>1, EvaluationOf DEF Evaluations
    <3>2. CASE ~alertRule.live
      BY <2>1, <3>2, NoEvaluation
    <3>3. QED
      BY <3>1, <3>2
  <2>3. Evaluates(p, q) /\ RowStays /\ alertLease' = alertLease
    BY <1>2, <2>1, AlertTypes DEF Rules!ReadRule, Evaluates, RowStays, AlertsInv
  <2>4. QED
    BY <2>2, <2>3, EvaluationOf, EvaluationMoves
<1>3. CASE Rules!Fetch(p)
  <2>1. PICK v \in Rules!Verdicts :
          evaluation' = [evaluation EXCEPT ![p].at = "apply", ![p].verdict = v]
    BY <1>3 DEF Rules!Fetch
  <2>2. PICK q : q = [e EXCEPT !.at = "apply", !.verdict = v]
    OBVIOUS
  <2>3. q \in Evaluations /\ q.at = "apply" /\ q.age = e.age
    BY <2>2, EvaluationOf DEF Evaluations
  <2>4. Evaluates(p, q) /\ RowStays /\ alertLease' = alertLease
    BY <1>3, <2>1, <2>2, AlertTypes DEF Rules!Fetch, Evaluates, RowStays, AlertsInv
  <2>5. QED
    BY <2>3, <2>4, EvaluationOf, EvaluationMoves
<1>4. CASE Rules!Refused(p) \/ Rules!GiveUp(p)
  <2>1. Evaluates(p, Rules!NoEval) /\ RowStays /\ alertLease' = alertLease
    BY <1>4 DEF Rules!Refused, Rules!GiveUp, Evaluates, RowStays
  <2>2. QED
    BY <2>1, NoEvaluation, EvaluationOf, EvaluationMoves
<1>5. QED
  BY <1>1, <1>2, <1>3, <1>4

-----------------------------------------------------------------------------
(* Administrators.                                                          *)

LEMMA MutateKeeps ==
  ASSUME AlertsInv, NEW action \in {"update", "enable", "disable", "delete"},
         Rules!Mutate(action)
  PROVE  AlertsInv'
<1> DEFINE enabled == IF action = "update" THEN alertRule.enabled ELSE action = "enable"
           kept == action = "enable" /\ Rules!KeepsIncident
<1>1. /\ alertRule' = [rev |-> alertRule.rev + 1, enabled |-> enabled, live |-> action # "delete"]
      /\ incident' = IF action # "enable" THEN Rules!Closed ELSE incident
      /\ alertState' = IF kept THEN alertState
                       ELSE [Rules!Normal EXCEPT !.is = IF enabled THEN "normal" ELSE "disabled"]
      /\ alertLease' = [owner |-> Rules!NoOne, left |-> 0] /\ nextDue' = 0 /\ applied' = {}
      /\ UNCHANGED evaluation /\ ruleEdits < RuleEdits /\ ruleEdits' = ruleEdits + 1
      /\ alertRule.live
  BY DEF Rules!Mutate
<1>2. /\ ruleEdits \in 0 .. RuleEdits /\ alertRule.rev = ruleEdits + 1
      /\ alertRule.enabled \in BOOLEAN /\ alertState \in Rows
      /\ incident \in {"none", "firing", "recovered", "closed"}
      /\ evaluation \in [Evaluators -> Evaluations]
  BY AlertTypes DEF AlertsInv, RevisionCounts
<1>3. enabled \in BOOLEAN /\ (action # "delete") \in BOOLEAN
  BY <1>2
<1>4. /\ RevisionCounts' /\ alertRule' \in [rev : 1 .. (RuleEdits + 1), enabled : BOOLEAN, live : BOOLEAN]
  <2>1. alertRule.rev + 1 \in 1 .. (RuleEdits + 1) /\ ruleEdits' \in 0 .. RuleEdits
    BY <1>1, <1>2
  <2>2. alertRule'.rev = alertRule.rev + 1
    BY <1>1
  <2>3. QED
    BY <1>1, <1>2, <1>3, <2>1, <2>2 DEF RevisionCounts
<1>5. \/ kept /\ alertState' = alertState
      \/ ~kept /\ alertState' = [is |-> IF enabled THEN "normal" ELSE "disabled", data |-> "unknown",
                        active |-> FALSE, pending |-> -1, last |-> -1]
  BY <1>1 DEF Rules!Normal
<1>6. alertState' \in Rows
  <2>1. -1 \in Moments
    BY OldEnough DEF Moments
  <2>2. CASE alertState' = alertState
    BY <1>2, <2>2
  <2>3. CASE alertState' = [is |-> IF enabled THEN "normal" ELSE "disabled", data |-> "unknown",
                            active |-> FALSE, pending |-> -1, last |-> -1]
    BY <2>1, <2>3 DEF Rows
  <2>4. QED
    BY <1>5, <2>2, <2>3
<1>7. incident' \in {"none", "firing", "recovered", "closed"}
  BY <1>1, <1>2 DEF Rules!Closed
<1>8. Rules!TypeOK'
  BY <1>1, <1>2, <1>4, <1>6, <1>7 DEF Rules!TypeOK, Rows, Moments, Evaluations
<1>9. Rules!IncidentAgrees'
  <2>1. CASE kept
    <3>1. action = "enable" /\ alertState.is = "firing" /\ enabled = TRUE
      BY <2>1 DEF Rules!KeepsIncident
    <3>2. alertRule'.enabled = TRUE /\ alertRule'.live = TRUE /\ incident' = incident
          /\ alertState' = alertState
      BY <1>1, <3>1 DEF Rules!KeepsIncident
    <3>3. QED
      BY <3>2 DEF AlertsInv, Rules!IncidentAgrees
  <2>2. CASE ~kept
    <3>1. alertState'.is # "firing" /\ alertState'.active = FALSE
      BY <1>5, <2>2
    <3>2. incident' # "firing"
      <4>1. CASE action = "enable"
        <5>1. alertState.is # "firing" /\ incident' = incident
          BY <1>1, <2>2, <4>1 DEF Rules!KeepsIncident
        <5>2. QED
          BY <5>1 DEF AlertsInv, Rules!IncidentAgrees
      <4>2. CASE action # "enable"
        BY <1>1, <4>2 DEF Rules!Closed, AlertsInv, Rules!IncidentAgrees
      <4>3. QED
        BY <4>1, <4>2
    <3>3. QED
      BY <3>1, <3>2 DEF Rules!IncidentAgrees
  <2>3. QED
    BY <2>1, <2>2
<1>10. LeaseIsFresh' /\ AppliedTrue'
  BY <1>1 DEF AlertsInv, LeaseIsFresh, AppliedTrue
<1>11. PendingRun'
  <2>1. CASE kept
    <3>1. alertState.is = "firing" /\ alertState' = alertState
      BY <1>5, <2>1 DEF Rules!KeepsIncident
    <3>2. QED
      BY <3>1 DEF AlertsInv, PendingRun
  <2>2. CASE ~kept
    <3>1. alertState'.is # "pending" /\ alertState'.pending = -1
      BY <1>5, <2>2
    <3>2. QED
      BY <3>1 DEF PendingRun
  <2>3. QED
    BY <2>1, <2>2
<1>12. QED
  BY <1>4, <1>8, <1>9, <1>10, <1>11 DEF AlertsInv

-----------------------------------------------------------------------------
(* Time.                                                                    *)

LEMMA Ages ==
  ASSUME NEW x \in Moments
  PROVE  /\ Rules!Older(x) \in Moments /\ Rules!Older(x) >= x
         /\ (Rules!Older(x) >= 0) = (x >= 0)
         /\ x \in 0 .. (Rules!Old - 1) => Rules!Older(x) = x + 1
         /\ x = Rules!Old => Rules!Older(x) = x
BY OldEnough DEF Rules!Older, Moments

LEMMA TickKeeps ==
  ASSUME AlertsInv, Rules!Tick
  PROVE  AlertsInv'
<1>1. /\ \A p \in Evaluators : evaluation[p].age < LateAge
      /\ alertState' = [alertState EXCEPT !.pending = Rules!Older(@), !.last = Rules!Older(@)]
      /\ alertLease' = [alertLease EXCEPT !.left = Rules!Less(@)]
      /\ nextDue' = Rules!Less(nextDue)
      /\ evaluation' = [p \in Evaluators |->
            [evaluation[p] EXCEPT !.age = IF evaluation[p].at = "idle" THEN @ ELSE @ + 1]]
      /\ applied' = {[s EXCEPT !.age = @ + 1] : s \in {t \in applied : t.age < Rules!Old}}
      /\ UNCHANGED alertRule /\ UNCHANGED incident /\ UNCHANGED ruleEdits
  BY DEF Rules!Tick
<1>2. /\ alertState \in Rows /\ nextDue \in 0 .. 1
      /\ alertLease \in [owner : Evaluators \cup {Rules!NoOne}, left : 0 .. 1]
      /\ evaluation \in [Evaluators -> Evaluations]
  BY AlertTypes DEF AlertsInv
<1>3. /\ alertState' \in Rows /\ alertState'.is = alertState.is
      /\ alertState'.active = alertState.active
      /\ alertState'.pending = Rules!Older(alertState.pending)
      /\ alertState'.last = Rules!Older(alertState.last)
      /\ alertState.pending \in Moments /\ alertState.last \in Moments
  <2>1. alertState.pending \in Moments /\ alertState.last \in Moments
    BY <1>2 DEF Rows
  <2>2. Rules!Older(alertState.pending) \in Moments /\ Rules!Older(alertState.last) \in Moments
    BY <2>1, Ages
  <2>3. QED
    BY <1>1, <1>2, <2>1, <2>2 DEF Rows
<1>4. /\ alertLease' \in [owner : Evaluators \cup {Rules!NoOne}, left : 0 .. 1]
      /\ nextDue' \in 0 .. 1 /\ alertLease'.left = 0
  BY <1>1, <1>2 DEF Rules!Less
<1>5. \A p \in Evaluators : /\ evaluation'[p] \in Evaluations /\ evaluation'[p].at = evaluation[p].at
                            /\ evaluation'[p].at = "idle" => evaluation'[p].age = evaluation[p].age
  <2> SUFFICES ASSUME NEW p \in Evaluators
               PROVE  /\ evaluation'[p] \in Evaluations /\ evaluation'[p].at = evaluation[p].at
                      /\ evaluation'[p].at = "idle" => evaluation'[p].age = evaluation[p].age
    OBVIOUS
  <2>1. PICK e : e = evaluation[p]
    OBVIOUS
  <2>2. e \in Evaluations /\ e.age < LateAge /\ e.age + 1 \in 0 .. LateAge
    BY <1>1, <1>2, <2>1 DEF Evaluations
  <2>3. evaluation'[p] = [e EXCEPT !.age = IF e.at = "idle" THEN @ ELSE @ + 1]
    BY <1>1, <2>1
  <2>4. QED
    BY <2>1, <2>2, <2>3 DEF Evaluations
<1>6. Rules!TypeOK'
  <2>1. evaluation' \in [Evaluators -> Evaluations]
    BY <1>1, <1>5
  <2>2. QED
    BY <1>1, <1>3, <1>4, <2>1 DEF AlertsInv, Rules!TypeOK, Rows, Moments, Evaluations
<1>7. Rules!IncidentAgrees' /\ RevisionCounts'
  BY <1>1, <1>3 DEF AlertsInv, Rules!IncidentAgrees, RevisionCounts
<1>8. LeaseIsFresh'
  BY <1>4, <1>5 DEF AlertsInv, LeaseIsFresh
<1> DEFINE One == [age : Nat, verdict : Rules!Verdicts, rev : {alertRule.rev}]
<1>9. applied \subseteq One
  BY DEF AlertsInv, AppliedTrue
<1> HIDE DEF One
<1>10. \A t \in applied' : \E s \in applied : /\ s.age < Rules!Old /\ t \in One
                                              /\ t = [s EXCEPT !.age = @ + 1]
                                              /\ t.age = s.age + 1 /\ t.verdict = s.verdict
  BY <1>1, <1>9 DEF One
<1>11. \A s \in applied : s.age < Rules!Old =>
         \E t \in applied' : t.age = s.age + 1 /\ t.verdict = s.verdict
  <2> SUFFICES ASSUME NEW s \in applied, s.age < Rules!Old
               PROVE  \E t \in applied' : t.age = s.age + 1 /\ t.verdict = s.verdict
    OBVIOUS
  <2>1. PICK t : t = [s EXCEPT !.age = @ + 1]
    OBVIOUS
  <2>2. t.age = s.age + 1 /\ t.verdict = s.verdict
    BY <1>9, <2>1 DEF One
  <2>3. t \in applied'
    BY <1>1, <2>1
  <2>4. QED
    BY <2>2, <2>3
<1>12. \A s \in applied : s.age \in Nat
  BY <1>9 DEF One
<1>13. AppliedTrue'
  <2>1. applied' \subseteq [age : Nat, verdict : Rules!Verdicts, rev : {alertRule'.rev}]
    BY <1>1, <1>10 DEF One
  <2>2. \A t, u \in applied' : t.age = u.age => t = u
    BY <1>10, <1>12 DEF AlertsInv, AppliedTrue
  <2>3. \A t \in applied' : t.age > 0
    BY <1>10, <1>12
  <2>4. QED
    BY <2>1, <2>2, <2>3 DEF AppliedTrue
<1>14. PendingRun'
  <2>1. (alertState'.is = "pending") = (alertState'.pending >= 0)
    BY <1>3, Ages DEF AlertsInv, PendingRun
  <2> SUFFICES ASSUME alertState'.is = "pending", alertState'.last <= MaxGap
               PROVE  /\ alertState'.last >= 0 /\ alertState'.last <= alertState'.pending
                      /\ alertState'.pending - alertState'.last < LastFor
                      /\ \E s \in applied' : s.age = alertState'.pending
                      /\ \E u \in applied' : u.age = alertState'.last
                      /\ \A t \in applied' : t.age <= alertState'.pending =>
                           /\ t.verdict = "true"
                           /\ t.age = alertState'.pending \/
                                \E u \in applied' : /\ u.age > t.age /\ u.age <= alertState'.pending
                                                    /\ u.age - t.age <= MaxGap
    BY <2>1 DEF PendingRun
  <2>2. PICK b, a : b = alertState.pending /\ a = alertState.last
    OBVIOUS
  <2>3. b \in Moments /\ a \in Moments /\ alertState.is = "pending" /\ a <= MaxGap
    <3>1. a \in Moments /\ Rules!Older(a) <= MaxGap /\ Rules!Older(a) >= a /\ Rules!Older(a) \in Moments
      BY <1>3, <2>2, Ages
    <3>2. QED
      BY <1>3, <2>2, <3>1 DEF Moments
  <2>4. /\ a >= 0 /\ a <= b /\ b - a < LastFor
        /\ \E s \in applied : s.age = b
        /\ \E u \in applied : u.age = a
        /\ \A t \in applied : t.age <= b =>
             /\ t.verdict = "true"
             /\ t.age = b \/ \E u \in applied : u.age > t.age /\ u.age <= b /\ u.age - t.age <= MaxGap
    BY <2>2, <2>3 DEF AlertsInv, PendingRun
  <2>5. b \in 0 .. (Rules!Old - 1) /\ a \in 0 .. (Rules!Old - 1)
    BY <2>3, <2>4, OldEnough DEF Moments
  <2>6. alertState'.pending = b + 1 /\ alertState'.last = a + 1
    BY <1>3, <2>2, <2>3, <2>5, Ages
  <2>7. b \in Nat /\ a \in Nat /\ Rules!Old \in Nat /\ b < Rules!Old /\ a < Rules!Old
    BY <2>5, OldEnough
  <2>8. \E s \in applied' : s.age = b + 1
    BY <1>11, <2>4, <2>7
  <2>9. \E u \in applied' : u.age = a + 1
    BY <1>11, <2>4, <2>7
  <2>10. ASSUME NEW t \in applied', t.age <= b + 1
         PROVE  /\ t.verdict = "true"
                /\ t.age = b + 1 \/ \E u \in applied' : /\ u.age > t.age /\ u.age <= b + 1
                                                        /\ u.age - t.age <= MaxGap
    <3>1. PICK s \in applied : t.age = s.age + 1 /\ t.verdict = s.verdict
      BY <1>10
    <3>2. s.age \in Nat /\ s.age <= b
      BY <1>12, <2>7, <2>10, <3>1
    <3>3. s.verdict = "true"
      BY <2>4, <3>2
    <3>4. CASE s.age = b
      BY <3>1, <3>3, <3>4
    <3>5. CASE s.age # b
      <4>1. PICK u \in applied : u.age > s.age /\ u.age <= b /\ u.age - s.age <= MaxGap
        BY <2>4, <3>2, <3>5
      <4>2. u.age \in Nat /\ u.age < Rules!Old
        BY <1>12, <2>7, <4>1
      <4>3. PICK w \in applied' : w.age = u.age + 1
        BY <1>11, <4>2
      <4>4. w.age > t.age /\ w.age <= b + 1 /\ w.age - t.age <= MaxGap
        BY <2>7, <3>1, <3>2, <4>1, <4>2, <4>3
      <4>5. QED
        BY <3>1, <3>3, <4>4
    <3>6. QED
      BY <3>4, <3>5
  <2>11. QED
    BY <2>4, <2>6, <2>7, <2>8, <2>9, <2>10
<1>15. QED
  BY <1>6, <1>7, <1>8, <1>13, <1>14 DEF AlertsInv

-----------------------------------------------------------------------------
(* An evaluation is applied.                                                *)

LEMMA ApplyFacts ==
  ASSUME AlertsInv, NEW p \in Evaluators, Rules!Apply(p)
  PROVE  /\ evaluation[p].age = 0 /\ alertRule.live /\ alertRule.enabled
         /\ applied' = applied \cup
              {[age |-> 0, verdict |-> evaluation[p].verdict, rev |-> alertRule.rev]}
         /\ alertLease' = [owner |-> Rules!NoOne, left |-> 0] /\ nextDue' = 1
         /\ evaluation' = [evaluation EXCEPT ![p] = Rules!NoEval]
         /\ UNCHANGED alertRule /\ UNCHANGED ruleEdits
         /\ \A t \in applied : t.age \in Nat /\ t.age > 0
<1>1. alertLease.owner = p /\ alertLease.left > 0 /\ alertRule.rev = evaluation[p].rev
      /\ alertRule.live /\ alertRule.enabled
  BY DEF Rules!Apply, Rules!Holds
<1>2. evaluation[p].age = 0
  BY <1>1, EvaluationOf
<1>3. \A t \in applied : t.age \in Nat /\ t.age > 0
  BY <1>1 DEF AlertsInv, AppliedTrue
<1>4. QED
  BY <1>1, <1>2, <1>3 DEF Rules!Apply

\* The row that an evaluation leaves, for each verdict.
LEMMA ApplyCases ==
  ASSUME AlertsInv, NEW p \in Evaluators, Rules!Apply(p)
  PROVE  \/ evaluation[p].verdict = "unknown" /\ Rules!Unknown(0)
         \/ evaluation[p].verdict = "false" /\ Rules!Clear(0)
         \/ evaluation[p].verdict = "true" /\ Rules!Condition(0)
<1>1. evaluation[p].verdict \in {"unknown", "true", "false"}
  BY EvaluationOf, VerdictKinds DEF Evaluations
<1>2. evaluation[p].age = 0
  BY ApplyFacts
<1>3. CASE evaluation[p].verdict = "unknown"
  BY <1>2, <1>3 DEF Rules!Apply
<1>4. CASE evaluation[p].verdict = "false"
  BY <1>2, <1>4 DEF Rules!Apply
<1>5. CASE evaluation[p].verdict = "true"
  BY <1>2, <1>5 DEF Rules!Apply
<1>6. QED
  BY <1>1, <1>3, <1>4, <1>5

\* How the row changes when nothing is triggered and no time is pending afterwards.
Settles ==
  /\ alertState' \in Rows /\ alertState'.is \in {"normal", "firing"} /\ alertState'.pending = -1
  /\ incident' \in {"none", "firing", "recovered", "closed"}
  /\ alertState'.active = (alertState'.is = "firing")
  /\ (incident' = "firing") = (alertState'.is = "firing")

LEMMA RowFacts ==
  ASSUME AlertsInv
  PROVE  /\ alertState \in Rows /\ 0 \in Moments /\ -1 \in Moments
         /\ alertState.active = (alertState.is = "firing")
         /\ (incident = "firing") = (alertState.is = "firing")
         /\ incident \in {"none", "firing", "recovered", "closed"}
         /\ alertState.is # "pending" => alertState.pending = -1
<1>1. alertState \in Rows /\ incident \in {"none", "firing", "recovered", "closed"}
  BY AlertTypes DEF AlertsInv
<1>2. 0 \in Moments /\ -1 \in Moments
  BY OldEnough DEF Moments
<1>3. alertState.active \in BOOLEAN /\ alertState.pending \in Moments
  BY <1>1 DEF Rows
<1>4. alertState.is # "pending" => alertState.pending = -1
  BY <1>3 DEF AlertsInv, PendingRun, Moments
<1>5. QED
  BY <1>1, <1>2, <1>3, <1>4 DEF AlertsInv, Rules!IncidentAgrees

LEMMA UnknownSettles ==
  ASSUME AlertsInv, Rules!Unknown(0)
  PROVE  Settles
<1>1. CASE alertState.is = "firing"
  <2>1. alertState' = [alertState EXCEPT !.data = "stale", !.last = 0] /\ incident' = incident
    BY <1>1 DEF Rules!Unknown
  <2>2. QED
    BY <1>1, <2>1, RowFacts DEF Settles, Rows
<1>2. CASE alertState.is # "firing"
  <2>1. alertState' = [alertState EXCEPT !.is = "normal", !.data = "unknown", !.pending = -1, !.last = 0]
        /\ incident' = incident
    BY <1>2 DEF Rules!Unknown
  <2>2. QED
    BY <1>2, <2>1, RowFacts DEF Settles, Rows
<1>3. QED
  BY <1>1, <1>2

LEMMA ClearSettles ==
  ASSUME AlertsInv, Rules!Clear(0)
  PROVE  Settles
<1>1. alertState' = [is |-> "normal", data |-> "ok", active |-> FALSE, pending |-> -1, last |-> 0]
      /\ incident' = IF alertState.active THEN "recovered" ELSE incident
  BY DEF Rules!Clear
<1>2. alertState' \in Rows
  BY <1>1, RowFacts DEF Rows
<1>3. incident' # "firing" /\ incident' \in {"none", "firing", "recovered", "closed"}
  BY <1>1, RowFacts
<1>4. QED
  BY <1>1, <1>2, <1>3 DEF Settles

\* The run that a true evaluation ends: it began at the age Since gives, every evaluation
\* of it was true, and they follow each other within the gap.
RunOf(b) ==
  /\ \E s \in applied' : s.age = b
  /\ \A t \in applied' : t.age <= b =>
       /\ t.verdict = "true"
       /\ t.age = b \/ \E u \in applied' : /\ u.age > t.age /\ u.age <= b
                                           /\ u.age - t.age <= MaxGap

LEMMA SinceRuns ==
  ASSUME AlertsInv, NEW p \in Evaluators, Rules!Apply(p), evaluation[p].verdict = "true",
         alertState.is # "firing"
  PROVE  Rules!Since(0) \in Moments /\ Rules!Since(0) >= 0 /\ RunOf(Rules!Since(0))
<1>1. PICK new : new = [age |-> 0, verdict |-> "true", rev |-> alertRule.rev]
  OBVIOUS
<1>2. new.age = 0 /\ new.verdict = "true"
  BY <1>1
<1>3. applied' = applied \cup {new} /\ \A t \in applied : t.age \in Nat /\ t.age > 0
  BY <1>1, ApplyFacts
<1>4. PICK b, a : b = alertState.pending /\ a = alertState.last
  OBVIOUS
<1>5. b \in Moments /\ a \in Moments /\ 0 \in Moments /\ (alertState.is # "pending" => b = -1)
  BY <1>4, RowFacts DEF Rows
<1>6. CASE Rules!Since(0) = 0
  <2>1. RunOf(0)
    BY <1>2, <1>3 DEF RunOf
  <2>2. QED
    BY <1>5, <1>6, <2>1
<1>7. CASE Rules!Since(0) # 0
  <2>1. b >= 0 /\ a >= 0 /\ a <= MaxGap /\ Rules!Since(0) = b
    BY <1>4, <1>5, <1>7 DEF Rules!Since, Moments
  <2>2. alertState.is = "pending"
    BY <1>5, <2>1
  <2>3. /\ a <= b /\ \E s \in applied : s.age = b
        /\ \E u \in applied : u.age = a
        /\ \A t \in applied : t.age <= b =>
             /\ t.verdict = "true"
             /\ t.age = b \/ \E u \in applied : u.age > t.age /\ u.age <= b /\ u.age - t.age <= MaxGap
    BY <1>4, <2>1, <2>2 DEF AlertsInv, PendingRun
  <2>4. \E u \in applied' : u.age > 0 /\ u.age <= b /\ u.age - 0 <= MaxGap
    BY <1>3, <2>1, <2>3
  <2>5. RunOf(b)
    BY <1>2, <1>3, <2>3, <2>4 DEF RunOf
  <2>6. QED
    BY <1>5, <2>1, <2>5
<1>8. QED
  BY <1>6, <1>7

LEMMA AppliedKeeps ==
  ASSUME AlertsInv, NEW p \in Evaluators, Rules!Apply(p)
  PROVE  AlertsInv'
<1> DEFINE v == evaluation[p].verdict
<1>1. /\ alertRule.live /\ alertRule.enabled /\ v \in Rules!Verdicts /\ alertRule.rev \in Nat
      /\ applied' = applied \cup {[age |-> 0, verdict |-> v, rev |-> alertRule.rev]}
      /\ alertLease' = [owner |-> Rules!NoOne, left |-> 0] /\ nextDue' = 1
      /\ evaluation' = [evaluation EXCEPT ![p] = Rules!NoEval]
      /\ UNCHANGED alertRule /\ UNCHANGED ruleEdits
      /\ \A t \in applied : t.age \in Nat /\ t.age > 0
  BY ApplyFacts, EvaluationOf DEF Evaluations
<1>2. evaluation \in [Evaluators -> Evaluations]
  BY AlertTypes DEF AlertsInv
<1>3. evaluation' \in [Evaluators -> Evaluations] /\ LeaseIsFresh'
  BY <1>1, <1>2, NoEvaluation DEF AlertsInv, LeaseIsFresh
<1>4. RevisionCounts'
  BY <1>1 DEF AlertsInv, RevisionCounts
<1>5. AppliedTrue'
  <2>1. PICK new : new = [age |-> 0, verdict |-> v, rev |-> alertRule.rev]
    OBVIOUS
  <2>2. new \in [age : Nat, verdict : Rules!Verdicts, rev : {alertRule.rev}] /\ new.age = 0
    BY <1>1, <2>1
  <2>3. applied' = applied \cup {new}
    BY <1>1, <2>1
  <2>4. applied' \subseteq [age : Nat, verdict : Rules!Verdicts, rev : {alertRule'.rev}]
    BY <1>1, <2>2, <2>3 DEF AlertsInv, AppliedTrue
  <2>5. \A t, u \in applied' : t.age = u.age => t = u
    BY <1>1, <2>2, <2>3 DEF AlertsInv, AppliedTrue
  <2>6. ~(nextDue' = 0 \/ alertLease'.left > 0)
    BY <1>1
  <2>7. QED
    BY <2>4, <2>5, <2>6 DEF AppliedTrue
<1>6. ASSUME alertState' \in Rows, incident' \in {"none", "firing", "recovered", "closed"},
             alertState'.active = (alertState'.is = "firing"),
             (incident' = "firing") = (alertState'.is = "firing"), PendingRun'
      PROVE  AlertsInv'
  <2>1. Rules!TypeOK'
    BY <1>1, <1>3, <1>6, AlertTypes DEF AlertsInv, Rules!TypeOK, Rows, Moments, Evaluations
  <2>2. Rules!IncidentAgrees'
    BY <1>1, <1>6 DEF Rules!IncidentAgrees
  <2>3. QED
    BY <1>3, <1>4, <1>5, <1>6, <2>1, <2>2 DEF AlertsInv
<1>7. ASSUME Settles PROVE AlertsInv'
  <2>1. PendingRun'
    BY <1>7 DEF Settles, PendingRun
  <2>2. QED
    BY <1>6, <1>7, <2>1 DEF Settles
<1>8. CASE Rules!Unknown(0)
  BY <1>7, <1>8, UnknownSettles
<1>9. CASE Rules!Clear(0)
  BY <1>7, <1>9, ClearSettles
<1>10. CASE v = "true" /\ Rules!Condition(0)
  <2>1. CASE alertState.is = "firing"
    <3>1. alertState' = [alertState EXCEPT !.data = "ok", !.last = 0] /\ incident' = incident
      BY <1>10, <2>1 DEF Rules!Condition
    <3>2. Settles
      BY <2>1, <3>1, RowFacts DEF Settles, Rows
    <3>3. QED
      BY <1>7, <3>2
  <2>2. CASE alertState.is # "firing"
    <3> DEFINE b == Rules!Since(0)
    <3>1. b \in Moments /\ b >= 0 /\ RunOf(b)
      BY <1>10, <2>2, SinceRuns
    <3>2. b \in Nat /\ b - 0 = b
      BY <3>1 DEF Moments
    <3>3. CASE b - 0 >= LastFor
      <4>1. incident' = "firing" /\ alertState' = [is |-> "firing", data |-> "ok", active |-> TRUE,
                                                   pending |-> -1, last |-> 0]
        BY <1>10, <2>2, <3>3 DEF Rules!Condition
      <4>2. Settles
        BY <4>1, RowFacts DEF Settles, Rows
      <4>3. QED
        BY <1>7, <4>2
    <3>4. CASE ~(b - 0 >= LastFor)
      <4>1. alertState' = [alertState EXCEPT !.is = "pending", !.data = "ok", !.pending = b, !.last = 0]
            /\ incident' = incident
        BY <1>10, <2>2, <3>4 DEF Rules!Condition
      <4>2. /\ alertState' \in Rows /\ alertState'.is = "pending" /\ alertState'.active = FALSE
            /\ alertState'.pending = b /\ alertState'.last = 0
        BY <2>2, <3>1, <4>1, RowFacts DEF Rows
      <4>3. \E u \in applied' : u.age = 0
        <5>1. PICK new : new = [age |-> 0, verdict |-> v, rev |-> alertRule.rev]
          OBVIOUS
        <5>2. new.age = 0 /\ new \in applied'
          BY <1>1, <5>1
        <5>3. QED
          BY <5>2
      <4>4. b < LastFor /\ 0 <= b
        BY <3>2, <3>4
      <4> HIDE DEF b
      <4>5. PendingRun'
        BY <3>1, <3>2, <4>2, <4>3, <4>4 DEF PendingRun, RunOf
      <4>6. QED
        BY <1>6, <2>2, <4>1, <4>2, <4>5, RowFacts
    <3>5. QED
      BY <3>3, <3>4
  <2>3. QED
    BY <2>1, <2>2
<1>11. QED
  BY <1>8, <1>9, <1>10, ApplyCases

LEMMA AlertStepKeeps == AlertsInv /\ Rules!Next => AlertsInv'
<1> SUFFICES ASSUME AlertsInv, Rules!Next PROVE AlertsInv'
  OBVIOUS
<1>1. CASE Rules!Tick
  BY <1>1, TickKeeps
<1>2. CASE \E p \in Evaluators : Rules!Evaluate(p) \/ Rules!GiveUp(p)
  BY <1>2, EvaluationsKeep, AppliedKeeps DEF Rules!Evaluate
<1>3. CASE \E a \in {"update", "enable", "disable", "delete"} : Rules!Mutate(a)
  BY <1>3, MutateKeeps
<1>4. QED
  BY <1>1, <1>2, <1>3 DEF Rules!Next

LEMMA AlertsUnchanged == AlertsInv /\ UNCHANGED alertVars => AlertsInv'
BY DEF alertVars, AlertsInv, Rules!TypeOK, Rules!IncidentAgrees, LeaseIsFresh, AppliedTrue,
   PendingRun, RevisionCounts

-----------------------------------------------------------------------------
(* A trigger.                                                               *)

LEMMA LeastAge ==
  ASSUME NEW S, S \subseteq Nat, 0 \in S
  PROVE  Rules!Min(S) = 0
<1>1. \A y \in S : 0 <= y
  OBVIOUS
<1>2. PICK m : m = CHOOSE x \in S : \A y \in S : x <= y
  OBVIOUS
<1>3. m \in S /\ \A y \in S : m <= y
  BY <1>1, <1>2
<1>4. m = 0
  BY <1>3
<1>5. Rules!Min(S) = m
  BY <1>2 DEF Rules!Min
<1>6. QED
  BY <1>4, <1>5

\* Only an applied evaluation opens an incident, and its run covers the time.
LEMMA OnlyApplyTriggers ==
  ASSUME AlertsInv, Rules!Next, incident # "firing", incident' = "firing"
  PROVE  \E p \in Evaluators :
           /\ Rules!Apply(p) /\ evaluation[p].verdict = "true" /\ alertState.is # "firing"
           /\ Rules!Since(0) >= LastFor
<1>1. PICK p \in Evaluators : Rules!Apply(p)
  <2>1. CASE \E a \in {"update", "enable", "disable", "delete"} : Rules!Mutate(a)
    BY <2>1, RowFacts DEF Rules!Mutate, Rules!Closed
  <2>2. CASE Rules!Tick
    BY <2>2 DEF Rules!Tick
  <2>3. CASE \E p \in Evaluators : Rules!Claim(p) \/ Rules!ReadRule(p) \/ Rules!Fetch(p)
                                   \/ Rules!Refused(p) \/ Rules!GiveUp(p)
    BY <2>3 DEF Rules!Claim, Rules!ReadRule, Rules!Fetch, Rules!Refused, Rules!GiveUp
  <2>4. QED
    BY <2>1, <2>2, <2>3 DEF Rules!Next, Rules!Evaluate
<1>2. alertState.is # "firing"
  BY RowFacts
<1>3. ~Rules!Unknown(0) /\ ~Rules!Clear(0)
  BY DEF Rules!Unknown, Rules!Clear
<1>4. evaluation[p].verdict = "true" /\ Rules!Condition(0)
  BY <1>1, <1>3, ApplyCases
<1>5. Rules!Since(0) - 0 >= LastFor
  BY <1>2, <1>4 DEF Rules!Condition
<1>6. Rules!Since(0) \in Moments
  BY <1>1, <1>2, <1>4, SinceRuns
<1>7. QED
  BY <1>1, <1>2, <1>4, <1>5, <1>6 DEF Moments

LEMMA TriggersEarned ==
  ASSUME AlertsInv, Rules!Next
  PROVE  Rules!TriggerEarned
<1> SUFFICES ASSUME incident # "firing", incident' = "firing"
             PROVE  \E s \in applied' :
                      LET run == {t \in applied' : t.rev = alertRule.rev /\ t.age <= s.age} IN
                        /\ s.age - Rules!Min({t.age : t \in run}) >= LastFor
                        /\ \A t \in run : t.verdict = "true"
                        /\ \A t \in run : t # s => \E u \in run : u.age > t.age /\ u.age - t.age <= MaxGap
  BY DEF Rules!TriggerEarned
<1>1. PICK p \in Evaluators : /\ Rules!Apply(p) /\ evaluation[p].verdict = "true"
                              /\ alertState.is # "firing" /\ Rules!Since(0) >= LastFor
  BY OnlyApplyTriggers
<1>2. PICK b : b = Rules!Since(0)
  OBVIOUS
<1>3. b \in Nat /\ b >= LastFor /\ RunOf(b)
  BY <1>1, <1>2, SinceRuns DEF Moments
<1>4. PICK s \in applied' : s.age = b
  BY <1>3 DEF RunOf
<1> DEFINE run == {t \in applied' : t.rev = alertRule.rev /\ t.age <= s.age}
<1>5. AppliedTrue' /\ alertRule' = alertRule
  BY <1>1, AppliedKeeps, ApplyFacts DEF AlertsInv
<1>6. \A t \in applied' : t.age \in Nat /\ t.rev = alertRule.rev
  BY <1>5 DEF AppliedTrue
<1>7. \A t, u \in applied' : t.age = u.age => t = u
  BY <1>5 DEF AppliedTrue
<1>8. \E t \in applied' : t.age = 0
  <2>1. PICK new : new = [age |-> 0, verdict |-> evaluation[p].verdict, rev |-> alertRule.rev]
    OBVIOUS
  <2>2. new.age = 0 /\ new \in applied'
    BY <1>1, <2>1, ApplyFacts
  <2>3. QED
    BY <2>2
<1>9. Rules!Min({t.age : t \in run}) = 0
  <2>1. {t.age : t \in run} \subseteq Nat
    BY <1>6
  <2>2. 0 \in {t.age : t \in run}
    BY <1>3, <1>4, <1>6, <1>8
  <2>3. QED
    BY <2>1, <2>2, LeastAge
<1>10. \A t \in run : t.verdict = "true"
  BY <1>3, <1>4 DEF RunOf
<1>11. ASSUME NEW t \in run, t # s
       PROVE  \E u \in run : u.age > t.age /\ u.age - t.age <= MaxGap
  <2>1. t \in applied' /\ t.age <= b /\ t.age # b
    BY <1>4, <1>7, <1>11
  <2>2. PICK u \in applied' : u.age > t.age /\ u.age <= b /\ u.age - t.age <= MaxGap
    BY <1>3, <2>1 DEF RunOf
  <2>3. u \in run
    BY <1>4, <1>6, <2>2
  <2>4. QED
    BY <2>2, <2>3
<1>12. s.age - Rules!Min({t.age : t \in run}) >= LastFor
  BY <1>3, <1>4, <1>9
<1>13. QED
  BY <1>4, <1>10, <1>11, <1>12

\* For any replicas, times, gaps and number of changes: what was applied of the present
\* revision has ages of its own, and a pending time is that of a first evaluation with
\* true ones since, close enough to each other.
THEOREM AlertsInvariant == AllSpec => []AlertsInv
<1>1. AllInit => AlertsInv
  BY AlertsStart DEF AllInit
<1>2. AlertsInv /\ [AllNext]_allVars => AlertsInv'
  BY AlertStepKeeps, AlertsUnchanged DEF AllNext, allVars
<1>3. QED
  BY <1>1, <1>2, PTL DEF AllSpec

\* scheduler.go, repository.go: an incident fires exactly while its rule says so, and a
\* trigger rests on true evaluations of the present revision only, which cover the
\* required time and follow each other within the gap.
THEOREM AlertsStaySafe == AllSpec => AlertsSafe
<1>1. AlertsInv => Rules!TypeOK /\ Rules!IncidentAgrees
  BY DEF AlertsInv
<1>2. AlertsInv /\ [AllNext]_allVars => [Rules!TriggerEarned]_allVars
  <2> SUFFICES ASSUME AlertsInv, AllNext PROVE Rules!TriggerEarned \/ UNCHANGED allVars
    OBVIOUS
  <2>1. CASE Rules!Next
    BY <2>1, TriggersEarned
  <2>2. CASE UNCHANGED alertVars
    BY <2>2 DEF alertVars, Rules!TriggerEarned
  <2>3. QED
    BY <2>1, <2>2 DEF AllNext
<1>3. QED
  BY <1>1, <1>2, AlertsInvariant, PTL DEF AllSpec, AlertsSafe

-----------------------------------------------------------------------------
(* PostReads.                                                               *)

Requests == [at : Reads!Ends \cup {"idle", "context", "load", "lead", "wait", "body"},
             key : Reads!Keys, text : Reads!Texts]
Tasks == [registered : 0 .. MaxWaitersPerKey,
          at : {"none", "registered", "queued", "recheck", "origin", "missing", "fill"},
          owns : SUBSET {"executor", "rebuild", "database"},
          text : Reads!Texts]

\* Each edit and each restore writes one text, and a restore comes once for an epoch.
TextBound == (readEnv.epoch - 1) * MaxRevision
               + (IF current.rev = 0 THEN MaxRevision ELSE current.rev)

\* The texts of the history belong to keys that the database has passed, and the last
\* is that of the row.
HistoryTrue ==
  /\ \A k \in Reads!Keys : texts[k] <= TextBound
  /\ \A k \in Reads!Keys : texts[k] # 0 =>
       \/ k[1] < readEnv.epoch
       \/ k[1] = readEnv.epoch /\ (current.rev # 0 => k[2] <= current.rev)
  /\ current.rev # 0 => /\ current.text # 0
                        /\ current.text = texts[<<readEnv.epoch, current.rev>>]

\* An entry holds an executor and the budget's slots exactly while its loader runs, and a
\* text it found is that of its key.
TaskTrue(k, e) ==
  /\ e.at = "none" => e.registered = 0
  /\ e.owns = IF e.at \in {"recheck", "origin", "missing", "fill"}
              THEN {"executor", "rebuild", "database"} ELSE {}
  /\ e.text # 0 => e.text = texts[k]
  /\ e.at = "fill" => e.text # 0

\* A text that a request received is that of its key, and one that leads has an entry
\* whose task is not started.
RequestTrue(x) ==
  /\ x.text # 0 => x.text = texts[x.key]
  /\ x.at = "body" => x.text # 0
  /\ x.at = "lead" => entry[x.key].at = "registered"

StoreTrue ==
  /\ readEnv \in [epoch : 1..MaxEpochs, ready : BOOLEAN]
  /\ current \in [rev : 0..MaxRevision, text : Reads!Texts]
  /\ texts \in [Reads!Keys -> Reads!Texts] /\ cached \in [Reads!Keys -> Reads!Texts]
  /\ HistoryTrue /\ Reads!CacheTrue

RequestsTrue ==
  /\ reader \in [Readers -> Requests] /\ entry \in [Reads!Keys -> Tasks]
  /\ \A k \in Reads!Keys : TaskTrue(k, entry[k])
  /\ \A r \in Readers : RequestTrue(reader[r])
  /\ \A r, s \in Readers : reader[r].at = "lead" /\ reader[s].at = "lead"
                           /\ reader[r].key = reader[s].key => r = s

CountsTrue ==
  /\ executors \in 0..MaxExecutors
  /\ slots \in [waiter : Nat, rebuild : Nat, database : Nat]
  /\ Reads!SlotsBalance

BoundsTrue == readFaults \in 0..ReadFaults /\ again \in Nat

ReadsInv == StoreTrue /\ RequestsTrue /\ CountsTrue /\ BoundsTrue

LEMMA ReadCount == \A S : Reads!Cardinality(S) = Cardinality(S)
BY DEF Reads!Cardinality, Cardinality

LEMMA ReadTypes == ReadsInv => Reads!TypeOK
BY DEF ReadsInv, StoreTrue, RequestsTrue, CountsTrue, BoundsTrue, Reads!TypeOK, Requests, Tasks

\* The keys.
LEMMA KeyFacts ==
  /\ 1 \in 1..MaxEpochs /\ 1 \in 1..MaxRevision /\ <<1, 1>> \in Reads!Keys
  /\ 0 \in Reads!Texts /\ Reads!Texts \subseteq Nat
  /\ MaxRevision * MaxEpochs \in Nat
  /\ IsFiniteSet(Reads!Keys)
<1>1. MaxEpochs \in Nat /\ MaxRevision \in Nat /\ MaxEpochs >= 1 /\ MaxRevision >= 1
  BY CommandsAssumption DEF CommandsAssumption
<1>2. MaxRevision * MaxEpochs \in Nat
  BY <1>1
<1>3. IsFiniteSet((1..MaxEpochs) \X (1..MaxRevision))
  <2>1. IsFiniteSet(1..MaxEpochs) /\ IsFiniteSet(1..MaxRevision)
    BY <1>1, FS_Interval
  <2>2. QED
    BY <2>1, FS_Product
<1>4. QED
  BY <1>1, <1>2, <1>3 DEF Reads!Keys, Reads!Texts

-----------------------------------------------------------------------------
(* Counting.                                                                *)

LEMMA ColumnCount ==
  ASSUME NEW k, NEW n \in Nat
  PROVE  IsFiniteSet({k} \X (1..n)) /\ Cardinality({k} \X (1..n)) = n
<1>1. PICK f : f = [i \in 1..n |-> <<k, i>>]
  OBVIOUS
<1>2. PICK S, T : S = 1..n /\ T = {k} \X (1..n)
  OBVIOUS
<1>3. f \in [S -> T]
  BY <1>1, <1>2
<1>4. \A i, j \in S : f[i] = f[j] => i = j
  BY <1>1, <1>2
<1>5. \A t \in T : \E i \in S : f[i] = t
  BY <1>1, <1>2
<1>6. IsFiniteSet(S) /\ Cardinality(S) = n
  BY <1>2, FS_Interval
<1>7. IsFiniteSet(T) /\ Cardinality(T) = Cardinality(S)
  BY <1>3, <1>4, <1>5, <1>6, SameCount
<1>8. QED
  BY <1>2, <1>6, <1>7

\* What is registered, as the entries f have it.
RegisteredIn(f) == {x \in Reads!Keys \X (1 .. MaxWaitersPerKey) : x[2] <= f[x[1]].registered}

LEMMA RegisteredBy ==
  ASSUME NEW f \in [Reads!Keys -> Tasks], NEW k \in Reads!Keys
  PROVE  LET rest == {x \in RegisteredIn(f) : x[1] # k} IN
           /\ Cardinality(rest) \in Nat
           /\ Cardinality(RegisteredIn(f)) = Cardinality(rest) + f[k].registered
<1> DEFINE rest == {x \in RegisteredIn(f) : x[1] # k}
           own == {k} \X (1 .. f[k].registered)
<1>1. MaxWaitersPerKey \in Nat
  BY ReadsAssumption DEF ReadsAssumption
<1>2. f[k].registered \in 0 .. MaxWaitersPerKey
  BY DEF Tasks
<1>3. IsFiniteSet(Reads!Keys \X (1 .. MaxWaitersPerKey))
  <2>1. IsFiniteSet(1 .. MaxWaitersPerKey)
    BY <1>1, FS_Interval
  <2>2. QED
    BY <2>1, KeyFacts, FS_Product
<1>4. rest \subseteq Reads!Keys \X (1 .. MaxWaitersPerKey)
  BY DEF RegisteredIn
<1>5. IsFiniteSet(rest) /\ Cardinality(rest) \in Nat
  BY <1>3, <1>4, FS_Subset, FS_CardinalityType
<1>6. IsFiniteSet(own) /\ Cardinality(own) = f[k].registered
  <2>1. PICK n \in Nat : n = f[k].registered
    BY <1>1, <1>2
  <2>2. IsFiniteSet({k} \X (1..n)) /\ Cardinality({k} \X (1..n)) = n
    BY ColumnCount
  <2>3. QED
    BY <2>1, <2>2
<1>7. RegisteredIn(f) = rest \cup own
  <2>1. \A x \in RegisteredIn(f) : x[1] = k => x \in own
    BY <1>1, <1>2 DEF RegisteredIn
  <2>2. \A x \in own : x \in RegisteredIn(f)
    BY <1>1, <1>2 DEF RegisteredIn
  <2>3. QED
    BY <2>1, <2>2
<1>8. rest \cap own = {}
  OBVIOUS
<1> HIDE DEF rest, own
<1>9. Cardinality(RegisteredIn(f)) = Cardinality(rest) + Cardinality(own) - Cardinality(rest \cap own)
  BY <1>5, <1>6, <1>7, FS_Union
<1>10. Cardinality(rest \cap own) = 0
  BY <1>8, FS_EmptySet
<1>11. QED
  BY <1>2, <1>5, <1>6, <1>9, <1>10 DEF rest

\* One entry changes.
LEMMA RegisteredChange ==
  ASSUME NEW f \in [Reads!Keys -> Tasks], NEW g \in [Reads!Keys -> Tasks], NEW k \in Reads!Keys,
         \A j \in Reads!Keys \ {k} : g[j] = f[j]
  PROVE  /\ Cardinality(RegisteredIn(f)) \in Nat /\ Cardinality(RegisteredIn(g)) \in Nat
         /\ Cardinality(RegisteredIn(g)) + f[k].registered
              = Cardinality(RegisteredIn(f)) + g[k].registered
<1> DEFINE rest(h) == {x \in RegisteredIn(h) : x[1] # k}
<1>1. rest(f) = rest(g)
  BY DEF RegisteredIn
<1>2. f[k].registered \in Nat /\ g[k].registered \in Nat
  BY ReadsAssumption DEF ReadsAssumption, Tasks
<1>3. Cardinality(rest(f)) \in Nat /\ Cardinality(RegisteredIn(f)) = Cardinality(rest(f)) + f[k].registered
  BY RegisteredBy
<1>4. Cardinality(rest(g)) \in Nat /\ Cardinality(RegisteredIn(g)) = Cardinality(rest(g)) + g[k].registered
  BY RegisteredBy
<1> HIDE DEF rest
<1>5. QED
  BY <1>1, <1>2, <1>3, <1>4

\* The keys whose entry holds x.
OwnersIn(f, x) == {k \in Reads!Keys : x \in f[k].owns}
One(x, o) == IF x \in o THEN 1 ELSE 0

LEMMA OwnersChange ==
  ASSUME NEW f, NEW g, NEW x, NEW k \in Reads!Keys, \A j \in Reads!Keys \ {k} : g[j] = f[j]
  PROVE  /\ Cardinality(OwnersIn(f, x)) \in Nat /\ Cardinality(OwnersIn(g, x)) \in Nat
         /\ Cardinality(OwnersIn(f, x)) + One(x, g[k].owns)
              = Cardinality(OwnersIn(g, x)) + One(x, f[k].owns)
<1>1. OwnersIn(f, x) \subseteq Reads!Keys /\ OwnersIn(g, x) \subseteq Reads!Keys
  BY DEF OwnersIn
<1>2. IsFiniteSet(OwnersIn(f, x)) /\ IsFiniteSet(OwnersIn(g, x))
  BY <1>1, KeyFacts, FS_Subset
<1>3. OwnersIn(f, x) \ {k} = OwnersIn(g, x) \ {k}
  BY DEF OwnersIn
<1>4. (k \in OwnersIn(g, x)) = (x \in g[k].owns) /\ (k \in OwnersIn(f, x)) = (x \in f[k].owns)
  BY DEF OwnersIn
<1>5. QED
  BY <1>2, <1>3, <1>4, DifferInOne DEF One

\* The requests that wait for key k, among those of h.
WaitingIn(h, k) == {r \in Readers : h[r].at \in {"wait", "lead"} /\ h[r].key = k}

LEMMA WaitingFinite ==
  ASSUME NEW h, NEW k
  PROVE  IsFiniteSet(WaitingIn(h, k)) /\ Cardinality(WaitingIn(h, k)) \in Nat
<1>1. WaitingIn(h, k) \subseteq Readers
  BY DEF WaitingIn
<1>2. QED
  BY <1>1, ReadsAssumption, FS_Subset, FS_CardinalityType DEF ReadsAssumption

LEMMA WaitingLess ==
  ASSUME NEW h, NEW g, NEW k, WaitingIn(g, k) \subseteq WaitingIn(h, k)
  PROVE  Cardinality(WaitingIn(g, k)) <= Cardinality(WaitingIn(h, k))
BY WaitingFinite, FS_Subset

LEMMA WaitingOneMore ==
  ASSUME NEW h, NEW g, NEW k, NEW r, WaitingIn(g, k) \subseteq WaitingIn(h, k) \cup {r}
  PROVE  Cardinality(WaitingIn(g, k)) <= Cardinality(WaitingIn(h, k)) + 1
<1>1. IsFiniteSet(WaitingIn(g, k) \ {r}) /\ Cardinality(WaitingIn(g, k) \ {r}) \in Nat
      /\ Cardinality(WaitingIn(g, k)) = Cardinality(WaitingIn(g, k) \ {r})
                                          + (IF r \in WaitingIn(g, k) THEN 1 ELSE 0)
  BY WaitingFinite, OneLess
<1>2. WaitingIn(g, k) \ {r} \subseteq WaitingIn(h, k)
  OBVIOUS
<1>3. Cardinality(WaitingIn(g, k) \ {r}) <= Cardinality(WaitingIn(h, k))
  BY <1>2, WaitingFinite, FS_Subset
<1>4. QED
  BY <1>1, <1>3, WaitingFinite

\* What the counters must show, for the values they have after a step.
Balanced(s, x, f, h) ==
  /\ s.waiter = Cardinality(RegisteredIn(f))
  /\ s.rebuild = Cardinality(OwnersIn(f, "rebuild"))
  /\ s.database = Cardinality(OwnersIn(f, "database"))
  /\ x = Cardinality(OwnersIn(f, "executor"))
  /\ \A k \in Reads!Keys : Cardinality(WaitingIn(h, k)) <= f[k].registered

LEMMA BalanceIs == Reads!SlotsBalance <=> Balanced(slots, executors, entry, reader)
BY ReadCount DEF Reads!SlotsBalance, Reads!RegisteredWaiters, Reads!Registrations, Balanced,
   RegisteredIn, OwnersIn, WaitingIn

LEMMA BalanceIsAfter == Reads!SlotsBalance' <=> Balanced(slots', executors', entry', reader')
BY ReadCount DEF Reads!SlotsBalance, Reads!RegisteredWaiters, Reads!Registrations, Balanced,
   RegisteredIn, OwnersIn, WaitingIn

-----------------------------------------------------------------------------
(* The database.                                                            *)

\* A new text is greater than all, within the bound of what the database may write.
LEMMA NewTextBound ==
  ASSUME StoreTrue
  PROVE  /\ Reads!NewText \in Nat /\ Reads!NewText # 0
         /\ Reads!NewText <= TextBound + 1
         /\ \A k \in Reads!Keys : texts[k] < Reads!NewText
<1> DEFINE T == {texts[k] : k \in Reads!Keys}
<1>1. T \in SUBSET Nat /\ T # {}
  <2>1. \A k \in Reads!Keys : texts[k] \in Nat
    BY KeyFacts DEF StoreTrue
  <2>2. texts[<<1, 1>>] \in T
    BY KeyFacts
  <2>3. QED
    BY <2>1, <2>2
<1>2. IsFiniteSet(T)
  <2>1. PICK f, K : f = texts /\ K = Reads!Keys
    OBVIOUS
  <2>2. f \in [K -> T] /\ \A t \in T : \E k \in K : f[k] = t
    BY <2>1 DEF StoreTrue
  <2> HIDE DEF T
  <2>3. f \in Surjection(K, T)
    BY <2>2 DEF Surjection
  <2>4. QED
    BY <2>1, <2>3, KeyFacts, FS_Surjection
<1>3. PICK b \in T : \A n \in T : n <= b
  BY <1>1, <1>2, FiniteMaximum
<1>4. PICK m : m = CHOOSE x \in T : \A y \in T : x >= y
  OBVIOUS
<1>5. m \in T /\ \A y \in T : m >= y
  BY <1>1, <1>3, <1>4
<1>6. Reads!NewText = m + 1
  BY <1>4 DEF Reads!NewText, Reads!Max
<1>7. m \in Nat /\ m <= TextBound
  BY <1>1, <1>5 DEF StoreTrue, HistoryTrue
<1>8. TextBound \in Int
  BY CommandsAssumption DEF CommandsAssumption, StoreTrue, TextBound
<1>9. \A k \in Reads!Keys : texts[k] \in Nat /\ texts[k] <= m
  BY <1>1, <1>5
<1> HIDE DEF T
<1>10. QED
  BY <1>6, <1>7, <1>8, <1>9

\* A bound below the last revision of the last epoch is a text.
LEMMA TextRoom ==
  ASSUME NEW e \in 1..MaxEpochs, NEW v \in 1..MaxRevision
  PROVE  (e - 1) * MaxRevision + v <= MaxRevision * MaxEpochs
<1>1. PICK M \in Nat, E \in Nat : M = MaxRevision /\ E = MaxEpochs
  BY CommandsAssumption DEF CommandsAssumption
<1>2. (e - 1) * M <= (E - 1) * M
  <2>1. e - 1 \in Nat /\ E - 1 \in Nat /\ e - 1 <= E - 1
    BY <1>1
  <2>2. \A a, b, m \in Nat : a <= b => a * m <= b * m
    BY SMT
  <2>3. QED
    BY <1>1, <2>1, <2>2
<1>3. (E - 1) * M + M = M * E
  BY SMT
<1>4. v <= M /\ (e - 1) * M \in Int /\ (E - 1) * M \in Int
  BY <1>1
<1>5. QED
  BY <1>1, <1>2, <1>3, <1>4

\* The database may only give keys new texts.
HistoryStays ==
  /\ texts' \in [Reads!Keys -> Reads!Texts]
  /\ \A k \in Reads!Keys : texts[k] # 0 => texts'[k] = texts[k]

LEMMA EditKeeps ==
  ASSUME ReadsInv, Reads!Edit
  PROVE  StoreTrue' /\ HistoryStays
<1>1. /\ current.rev \in 1..(MaxRevision - 1) /\ readEnv' = readEnv /\ cached' = cached
      /\ current' = [rev |-> current.rev + 1, text |-> Reads!NewText]
      /\ texts' = [texts EXCEPT ![<<readEnv.epoch, current.rev + 1>>] = Reads!NewText]
  BY DEF Reads!Edit
<1>2. StoreTrue
  BY DEF ReadsInv
<1>3. PICK e \in 1..MaxEpochs, v \in Nat, M \in Nat :
        e = readEnv.epoch /\ v = current.rev /\ M = MaxRevision
  BY <1>2, CommandsAssumption DEF CommandsAssumption, StoreTrue
<1>4. v \in 1..(M - 1) /\ v + 1 \in 1..M
  BY <1>1, <1>3
<1>5. PICK t : t = Reads!NewText
  OBVIOUS
<1>6. /\ t \in Nat /\ t # 0 /\ t <= (e - 1) * M + v + 1
      /\ \A k \in Reads!Keys : texts[k] < t
  BY <1>2, <1>3, <1>4, <1>5, NewTextBound DEF TextBound
<1>7. PICK n : n = <<e, v + 1>>
  OBVIOUS
<1>8. n \in Reads!Keys /\ n[1] = e /\ n[2] = v + 1
  BY <1>3, <1>4, <1>7 DEF Reads!Keys
<1>9. t \in Reads!Texts
  <2>1. (e - 1) * M + (v + 1) <= MaxRevision * MaxEpochs
    BY <1>3, <1>4, TextRoom
  <2>2. (e - 1) * M \in Int
    BY <1>3
  <2>3. QED
    BY <1>6, <2>1, <2>2, KeyFacts DEF Reads!Texts
<1>10. texts' = [texts EXCEPT ![n] = t]
  BY <1>1, <1>3, <1>5, <1>7
<1>11. texts \in [Reads!Keys -> Reads!Texts] /\ texts' \in [Reads!Keys -> Reads!Texts]
  BY <1>2, <1>8, <1>9, <1>10 DEF StoreTrue
<1>12. texts[n] = 0
  BY <1>2, <1>3, <1>4, <1>8 DEF StoreTrue, HistoryTrue
<1>13. PICK q : q = current'
  OBVIOUS
<1>14. q = [rev |-> v + 1, text |-> t] /\ current' = q
  BY <1>1, <1>3, <1>5, <1>13
<1>15. q \in [rev : 0..MaxRevision, text : Reads!Texts] /\ q.rev = v + 1 /\ q.text = t
  BY <1>3, <1>4, <1>9, <1>14
<1>16. HistoryStays
  BY <1>10, <1>11, <1>12 DEF HistoryStays
<1>17. HistoryTrue'
  <2>1. TextBound' = (e - 1) * M + (v + 1)
    BY <1>1, <1>3, <1>4, <1>14, <1>15 DEF TextBound
  <2>2. \A k \in Reads!Keys : texts'[k] <= TextBound'
    <3>1. \A k \in Reads!Keys : texts[k] \in Nat
      BY <1>11, KeyFacts
    <3>2. (e - 1) * M \in Int
      BY <1>3
    <3>3. t <= TextBound' /\ TextBound' \in Int
      BY <1>4, <1>6, <2>1, <3>2
    <3>4. QED
      BY <1>6, <1>8, <1>10, <1>11, <3>1, <3>3
  <2>3. \A k \in Reads!Keys : texts'[k] # 0 =>
           k[1] < readEnv'.epoch \/ (k[1] = readEnv'.epoch /\ k[2] <= v + 1)
    <3> SUFFICES ASSUME NEW k \in Reads!Keys, texts'[k] # 0
                 PROVE  k[1] < e \/ (k[1] = e /\ k[2] <= v + 1)
      BY <1>1, <1>3
    <3>1. CASE k = n
      BY <1>3, <1>4, <1>8, <3>1
    <3>2. CASE k # n
      <4>1. texts[k] # 0
        BY <1>10, <1>11, <3>2
      <4>2. k[1] < e \/ (k[1] = e /\ k[2] <= v)
        BY <1>2, <1>3, <1>4, <4>1 DEF StoreTrue, HistoryTrue
      <4>3. k[2] \in Nat
        BY DEF Reads!Keys
      <4>4. QED
        BY <1>4, <4>2, <4>3
    <3>3. QED
      BY <3>1, <3>2
  <2>4. texts'[<<readEnv'.epoch, current'.rev>>] = t
    BY <1>1, <1>3, <1>7, <1>8, <1>10, <1>11, <1>14, <1>15
  <2>5. QED
    BY <1>6, <1>14, <1>15, <2>2, <2>3, <2>4 DEF HistoryTrue
<1>18. Reads!CacheTrue'
  BY <1>1, <1>2, <1>16 DEF StoreTrue, Reads!CacheTrue, HistoryStays
<1>19. QED
  BY <1>1, <1>2, <1>11, <1>14, <1>15, <1>16, <1>17, <1>18 DEF StoreTrue

LEMMA RestoreKeeps ==
  ASSUME ReadsInv, Reads!BeginRestore
  PROVE  StoreTrue' /\ HistoryStays
<1>1. /\ readEnv.epoch < MaxEpochs /\ cached' = cached
      /\ readEnv' = [epoch |-> readEnv.epoch + 1, ready |-> FALSE]
      /\ current' = [rev |-> 1, text |-> Reads!NewText]
      /\ texts' = [texts EXCEPT ![<<readEnv.epoch + 1, 1>>] = Reads!NewText]
  BY DEF Reads!BeginRestore
<1>2. StoreTrue
  BY DEF ReadsInv
<1>3. PICK e \in 1..MaxEpochs, M \in Nat, v \in 0..MaxRevision :
        e = readEnv.epoch /\ v = current.rev /\ M = MaxRevision /\ M >= 1
  BY <1>2, CommandsAssumption DEF CommandsAssumption, StoreTrue
<1>4. e + 1 \in 1..MaxEpochs /\ 1 \in 1..MaxRevision
  BY <1>1, <1>3, CommandsAssumption, KeyFacts DEF CommandsAssumption
<1>5. PICK t : t = Reads!NewText
  OBVIOUS
<1>6. /\ t \in Nat /\ t # 0 /\ t <= e * M + 1
      /\ \A k \in Reads!Keys : texts[k] < t
  <2>1. t \in Nat /\ t # 0 /\ t <= TextBound + 1 /\ \A k \in Reads!Keys : texts[k] < t
    BY <1>2, <1>5, NewTextBound
  <2>2. TextBound = (e - 1) * M + (IF v = 0 THEN M ELSE v)
    BY <1>3 DEF TextBound
  <2>3. (e - 1) * M \in Int /\ (e - 1) * M + M = e * M
    BY <1>3, SMT
  <2>4. QED
    BY <1>3, <2>1, <2>2, <2>3
<1>7. PICK n : n = <<e + 1, 1>>
  OBVIOUS
<1>8. n \in Reads!Keys /\ n[1] = e + 1 /\ n[2] = 1
  BY <1>4, <1>7 DEF Reads!Keys
<1>9. t \in Reads!Texts
  <2>1. ((e + 1) - 1) * MaxRevision + 1 <= MaxRevision * MaxEpochs
    BY <1>4, TextRoom
  <2>2. e * M \in Int /\ (e + 1) - 1 = e
    BY <1>3
  <2>3. QED
    BY <1>3, <1>6, <2>1, <2>2, KeyFacts DEF Reads!Texts
<1>10. texts' = [texts EXCEPT ![n] = t]
  BY <1>1, <1>3, <1>5, <1>7
<1>11. texts \in [Reads!Keys -> Reads!Texts] /\ texts' \in [Reads!Keys -> Reads!Texts]
  BY <1>2, <1>8, <1>9, <1>10 DEF StoreTrue
<1>12. \A k \in Reads!Keys : texts[k] # 0 => k[1] \in Nat /\ k[1] <= e
  BY <1>2, <1>3 DEF StoreTrue, HistoryTrue, Reads!Keys
<1>13. texts[n] = 0
  BY <1>3, <1>8, <1>12
<1>14. PICK q, w : q = [rev |-> 1, text |-> t] /\ w = [epoch |-> e + 1, ready |-> FALSE]
  OBVIOUS
<1>15. current' = q /\ readEnv' = w
  BY <1>1, <1>3, <1>5, <1>14
<1>16. /\ q \in [rev : 0..MaxRevision, text : Reads!Texts] /\ q.rev = 1 /\ q.text = t
       /\ w \in [epoch : 1..MaxEpochs, ready : BOOLEAN] /\ w.epoch = e + 1
  BY <1>4, <1>9, <1>14
<1>17. HistoryStays
  BY <1>10, <1>11, <1>13 DEF HistoryStays
<1>18. HistoryTrue'
  <2>1. TextBound' = e * M + 1 /\ e * M \in Int
    BY <1>3, <1>15, <1>16 DEF TextBound
  <2>2. \A k \in Reads!Keys : texts'[k] <= TextBound'
    <3>1. \A k \in Reads!Keys : texts[k] \in Nat
      BY <1>11, KeyFacts
    <3>2. QED
      BY <1>6, <1>8, <1>10, <1>11, <2>1, <3>1
  <2>3. \A k \in Reads!Keys : texts'[k] # 0 => k[1] < e + 1 \/ (k[1] = e + 1 /\ k[2] <= 1)
    BY <1>3, <1>8, <1>10, <1>11, <1>12
  <2>4. texts'[<<readEnv'.epoch, current'.rev>>] = t
    BY <1>7, <1>8, <1>10, <1>11, <1>15, <1>16
  <2>5. QED
    BY <1>6, <1>15, <1>16, <2>2, <2>3, <2>4 DEF HistoryTrue
<1>19. Reads!CacheTrue'
  BY <1>1, <1>2, <1>17 DEF StoreTrue, Reads!CacheTrue, HistoryStays
<1>20. QED
  BY <1>1, <1>2, <1>11, <1>15, <1>16, <1>17, <1>18, <1>19 DEF StoreTrue

LEMMA DeleteOrReadyKeeps ==
  ASSUME ReadsInv, Reads!Delete \/ Reads!MarkReady
  PROVE  StoreTrue' /\ HistoryStays
<1>1. StoreTrue
  BY DEF ReadsInv
<1>2. texts' = texts /\ cached' = cached /\ readEnv'.epoch = readEnv.epoch
      /\ readEnv' \in [epoch : 1..MaxEpochs, ready : BOOLEAN]
  BY <1>1 DEF StoreTrue, Reads!Delete, Reads!MarkReady
<1>3. current' = [rev |-> 0, text |-> 0] \/ current' = current
  BY DEF Reads!Delete, Reads!MarkReady
<1>4. PICK q : q = current'
  OBVIOUS
<1>5. q = current \/ (q.rev = 0 /\ q.text = 0)
  BY <1>3, <1>4
<1>6. q \in [rev : 0..MaxRevision, text : Reads!Texts]
  BY <1>1, <1>3, <1>4, KeyFacts, CommandsAssumption DEF StoreTrue, CommandsAssumption
<1>7. TextBound' \in Int /\ TextBound \in Int /\ TextBound <= TextBound'
  BY <1>1, <1>2, <1>4, <1>5, CommandsAssumption DEF StoreTrue, TextBound, CommandsAssumption
<1>8. HistoryTrue'
  <2>1. \A k \in Reads!Keys : texts[k] \in Nat /\ texts[k] <= TextBound
    BY <1>1, KeyFacts DEF StoreTrue, HistoryTrue
  <2>2. \A k \in Reads!Keys : texts'[k] <= TextBound'
    BY <1>2, <1>7, <2>1
  <2>3. QED
    BY <1>1, <1>2, <1>4, <1>5, <2>2 DEF StoreTrue, HistoryTrue
<1>9. QED
  BY <1>1, <1>2, <1>4, <1>6, <1>8 DEF StoreTrue, HistoryStays, Reads!CacheTrue

LEMMA DatabaseStepKeeps ==
  ASSUME ReadsInv, Reads!Edit \/ Reads!Delete \/ Reads!BeginRestore \/ Reads!MarkReady
  PROVE  ReadsInv'
<1>1. StoreTrue' /\ HistoryStays
  BY EditKeeps, RestoreKeeps, DeleteOrReadyKeeps
<1>2. UNCHANGED <<reader, entry, executors, slots, again, readFaults>>
  BY DEF Reads!Edit, Reads!Delete, Reads!BeginRestore, Reads!MarkReady
<1>3. RequestsTrue'
  <2>1. \A k \in Reads!Keys : TaskTrue(k, entry[k]) => TaskTrue(k, entry[k])'
    BY <1>1, <1>2 DEF TaskTrue, HistoryStays
  <2>2. \A r \in Readers : RequestTrue(reader[r]) => RequestTrue(reader[r])'
    <3> SUFFICES ASSUME NEW r \in Readers, RequestTrue(reader[r]) PROVE RequestTrue(reader[r])'
      OBVIOUS
    <3>1. reader[r].key \in Reads!Keys
      BY DEF ReadsInv, RequestsTrue, Requests
    <3>2. QED
      BY <1>1, <1>2, <3>1 DEF RequestTrue, HistoryStays
  <2>3. QED
    BY <1>2, <2>1, <2>2 DEF ReadsInv, RequestsTrue
<1>4. CountsTrue' /\ BoundsTrue'
  BY <1>2 DEF ReadsInv, CountsTrue, BoundsTrue, Reads!SlotsBalance, Reads!RegisteredWaiters,
     Reads!Registrations
<1>5. QED
  BY <1>1, <1>3, <1>4 DEF ReadsInv

-----------------------------------------------------------------------------
(* The request.                                                             *)

StoreStays == UNCHANGED <<readEnv, current, texts, cached>>

LEMMA StoreUnchanged == StoreTrue /\ StoreStays => StoreTrue'
BY DEF StoreTrue, StoreStays, HistoryTrue, TextBound, Reads!CacheTrue

\* A request that neither waits nor leads after its step.
LEMMA RequestMoves ==
  ASSUME ReadsInv, StoreStays, NEW r \in Readers, NEW q \in Requests, RequestTrue(q),
         q.at \notin {"wait", "lead"}, reader' = [reader EXCEPT ![r] = q],
         UNCHANGED <<entry, executors, slots>>, BoundsTrue'
  PROVE  ReadsInv'
<1>1. StoreTrue'
  BY StoreUnchanged DEF ReadsInv
<1>2. reader \in [Readers -> Requests] /\ reader' \in [Readers -> Requests]
  BY DEF ReadsInv, RequestsTrue
<1>3. RequestsTrue'
  <2>1. \A k \in Reads!Keys : TaskTrue(k, entry[k])'
    BY DEF ReadsInv, RequestsTrue, TaskTrue, StoreStays
  <2>2. \A s \in Readers : RequestTrue(reader[s])'
    <3> SUFFICES ASSUME NEW s \in Readers PROVE RequestTrue(reader[s])'
      OBVIOUS
    <3>1. PICK y : y = reader'[s]
      OBVIOUS
    <3>2. RequestTrue(y)
      BY <1>2, <3>1 DEF ReadsInv, RequestsTrue
    <3>3. QED
      BY <3>1, <3>2 DEF RequestTrue, StoreStays
  <2>3. \A s, u \in Readers : reader'[s].at = "lead" /\ reader'[u].at = "lead"
                              /\ reader'[s].key = reader'[u].key => s = u
    BY <1>2 DEF ReadsInv, RequestsTrue
  <2>4. entry' \in [Reads!Keys -> Tasks]
    BY DEF ReadsInv, RequestsTrue
  <2>5. QED
    BY <1>2, <2>1, <2>2, <2>3, <2>4 DEF RequestsTrue
<1>4. CountsTrue'
  <2>1. Balanced(slots, executors, entry, reader)
    BY BalanceIs DEF ReadsInv, CountsTrue
  <2>2. \A k \in Reads!Keys : WaitingIn(reader', k) \subseteq WaitingIn(reader, k)
    BY <1>2 DEF WaitingIn
  <2>3. \A k \in Reads!Keys : Cardinality(WaitingIn(reader', k)) <= entry'[k].registered
    <3> SUFFICES ASSUME NEW k \in Reads!Keys
                 PROVE  Cardinality(WaitingIn(reader', k)) <= entry[k].registered
      OBVIOUS
    <3>1. Cardinality(WaitingIn(reader', k)) <= Cardinality(WaitingIn(reader, k))
      BY <2>2, WaitingLess
    <3>2. Cardinality(WaitingIn(reader, k)) <= entry[k].registered /\ entry[k].registered \in Nat
      BY <2>1, ReadsAssumption DEF Balanced, ReadsInv, RequestsTrue, Tasks, ReadsAssumption
    <3>3. QED
      BY <3>1, <3>2, WaitingFinite
  <2>4. Balanced(slots', executors', entry', reader')
    BY <2>1, <2>3 DEF Balanced
  <2>5. QED
    BY <2>4, BalanceIsAfter DEF ReadsInv, CountsTrue
<1>5. QED
  BY <1>1, <1>3, <1>4 DEF ReadsInv

LEMMA EndKeeps ==
  ASSUME ReadsInv, StoreStays, NEW r \in Readers, NEW a \in Reads!Ends \cup {"idle"}, Reads!End(r, a),
         UNCHANGED <<entry, executors, slots>>, BoundsTrue'
  PROVE  ReadsInv'
<1>1. PICK q : q = [Reads!Idle EXCEPT !.at = a]
  OBVIOUS
<1>2. q \in Requests /\ q.at = a /\ q.text = 0
  BY <1>1, KeyFacts DEF Reads!Idle, Requests
<1>3. reader' = [reader EXCEPT ![r] = q]
  BY <1>1 DEF Reads!End, Reads!Becomes
<1>4. a \notin {"wait", "lead", "body"}
  BY DEF Reads!Ends
<1>5. RequestTrue(q)
  BY <1>2, <1>4 DEF RequestTrue
<1>6. QED
  BY <1>2, <1>3, <1>4, <1>5, RequestMoves

LEMMA BoundsStay ==
  ASSUME BoundsTrue, readFaults' = readFaults \/ Reads!Fault, again' = again
  PROVE  BoundsTrue'
BY ReadsAssumption DEF BoundsTrue, Reads!Fault, ReadsAssumption

LEMMA ReadContextKeeps ==
  ASSUME ReadsInv, NEW r \in Readers, Reads!ReadContext(r)
  PROVE  ReadsInv'
<1>1. StoreStays /\ UNCHANGED <<entry, executors, slots>> /\ BoundsTrue'
  BY BoundsStay DEF Reads!ReadContext, StoreStays, ReadsInv
<1>2. CASE \E a \in {"unavailable", "not_found"} : Reads!End(r, a)
  BY <1>1, <1>2, EndKeeps DEF Reads!Ends
<1>3. CASE /\ current.rev # 0
           /\ Reads!Becomes(r, [Reads!Idle EXCEPT !.at = "context", !.key = <<readEnv.epoch, current.rev>>])
  <2>1. <<readEnv.epoch, current.rev>> \in Reads!Keys
    BY <1>3, CommandsAssumption DEF ReadsInv, StoreTrue, Reads!Keys, CommandsAssumption
  <2>2. PICK q : q = [Reads!Idle EXCEPT !.at = "context", !.key = <<readEnv.epoch, current.rev>>]
    OBVIOUS
  <2>3. q \in Requests /\ q.at = "context" /\ q.text = 0
    BY <2>1, <2>2, KeyFacts DEF Reads!Idle, Requests
  <2>4. RequestTrue(q)
    BY <2>3 DEF RequestTrue
  <2>5. reader' = [reader EXCEPT ![r] = q]
    BY <1>3, <2>2 DEF Reads!Becomes
  <2>6. QED
    BY <1>1, <2>3, <2>4, <2>5, RequestMoves
<1>4. QED
  BY <1>2, <1>3 DEF Reads!ReadContext

LEMMA ReadCacheKeeps ==
  ASSUME ReadsInv, NEW r \in Readers, Reads!ReadCache(r)
  PROVE  ReadsInv'
<1>1. StoreStays /\ UNCHANGED <<entry, executors, slots>> /\ BoundsTrue'
  BY BoundsStay DEF Reads!ReadCache, StoreStays, ReadsInv
<1>2. PICK x \in Requests : x = reader[r] /\ RequestTrue(x)
  BY DEF ReadsInv, RequestsTrue
<1>3. PICK c \in Reads!Texts : c = cached[x.key] /\ (c # 0 => c = texts[x.key])
  BY <1>2 DEF Requests, ReadsInv, StoreTrue, Reads!CacheTrue
<1>4. PICK q \in Requests : /\ reader' = [reader EXCEPT ![r] = q] /\ RequestTrue(q)
                            /\ q.at \notin {"wait", "lead"}
  <2>1. CASE /\ c # 0
             /\ Reads!Becomes(r, [reader[r] EXCEPT !.at = "body", !.text = cached[reader[r].key]])
    <3>1. PICK q : q = [x EXCEPT !.at = "body", !.text = c]
      OBVIOUS
    <3>2. q \in Requests /\ q.at = "body" /\ q.text = c /\ q.key = x.key
      BY <1>2, <1>3, <3>1 DEF Requests
    <3>3. RequestTrue(q)
      BY <1>3, <2>1, <3>2 DEF RequestTrue
    <3>4. QED
      BY <1>2, <1>3, <2>1, <3>1, <3>2, <3>3 DEF Reads!Becomes
  <2>2. CASE Reads!Becomes(r, [reader[r] EXCEPT !.at = "load"])
    <3>1. PICK q : q = [x EXCEPT !.at = "load"]
      OBVIOUS
    <3>2. q \in Requests /\ q.at = "load" /\ q.text = x.text /\ q.key = x.key
      BY <1>2, <3>1 DEF Requests
    <3>3. RequestTrue(q)
      BY <1>2, <3>2 DEF RequestTrue
    <3>4. QED
      BY <1>2, <2>2, <3>1, <3>2, <3>3 DEF Reads!Becomes
  <2>3. QED
    BY <1>2, <1>3, <2>1, <2>2 DEF Reads!ReadCache
<1>5. QED
  BY <1>1, <1>4, RequestMoves

LEMMA AnswerKeeps ==
  ASSUME ReadsInv, NEW r \in Readers, Reads!Answer(r)
  PROVE  ReadsInv'
<1>1. StoreStays /\ UNCHANGED <<entry, executors, slots>> /\ BoundsTrue'
  BY BoundsStay DEF Reads!Answer, StoreStays, ReadsInv
<1>2. CASE \E a \in {"unavailable", "not_found"} : Reads!End(r, a)
  BY <1>1, <1>2, EndKeeps DEF Reads!Ends
<1>3. CASE Reads!Becomes(r, [reader[r] EXCEPT !.at = "served"])
  <2>1. PICK x \in Requests : x = reader[r] /\ RequestTrue(x)
    BY DEF ReadsInv, RequestsTrue
  <2>2. PICK q : q = [x EXCEPT !.at = "served"]
    OBVIOUS
  <2>3. q \in Requests /\ q.at = "served" /\ q.text = x.text /\ q.key = x.key
    BY <2>1, <2>2 DEF Requests, Reads!Ends
  <2>4. RequestTrue(q)
    BY <2>1, <2>3 DEF RequestTrue
  <2>5. reader' = [reader EXCEPT ![r] = q]
    BY <1>3, <2>1, <2>2 DEF Reads!Becomes
  <2>6. QED
    BY <1>1, <2>3, <2>4, <2>5, RequestMoves
<1>4. QED
  BY <1>2, <1>3 DEF Reads!Answer

LEMMA GiveUpOrAgainKeeps ==
  ASSUME ReadsInv, NEW r \in Readers, Reads!GiveUp(r) \/ Reads!Again(r)
  PROVE  ReadsInv'
<1>1. CASE Reads!GiveUp(r)
  <2>1. StoreStays /\ UNCHANGED <<entry, executors, slots>> /\ BoundsTrue' /\ Reads!End(r, "unavailable")
    BY <1>1, BoundsStay DEF Reads!GiveUp, StoreStays, ReadsInv
  <2>2. QED
    BY <2>1, EndKeeps DEF Reads!Ends
<1>2. CASE Reads!Again(r)
  <2>1. StoreStays /\ UNCHANGED <<entry, executors, slots>>
    BY <1>2 DEF Reads!Again, StoreStays
  <2>2. BoundsTrue'
    BY <1>2, ReadsAssumption DEF Reads!Again, ReadsInv, BoundsTrue, ReadsAssumption
  <2>3. Reads!End(r, "idle")
    BY <1>2 DEF Reads!Again, Reads!End, Reads!Becomes, Reads!Idle
  <2>4. QED
    BY <2>1, <2>2, <2>3, EndKeeps
<1>3. QED
  BY <1>1, <1>2

-----------------------------------------------------------------------------
(* Registration, and the start of the task.                                 *)

\* An entry changes its stage only: it holds what it held.
LEMMA OwnersStay ==
  ASSUME RequestsTrue, NEW k \in Reads!Keys, NEW e \in Tasks, e.owns = entry[k].owns,
         entry' = [entry EXCEPT ![k] = e], NEW x
  PROVE  OwnersIn(entry', x) = OwnersIn(entry, x)
BY DEF RequestsTrue, OwnersIn

LEMMA JoinKeeps ==
  ASSUME ReadsInv, StoreStays, BoundsTrue', UNCHANGED executors, NEW r \in Readers,
         NEW k \in Reads!Keys, NEW n \in Nat, n = entry[k].registered, n < MaxWaitersPerKey,
         reader[r].at = "load", reader[r].key = k,
         slots' = [slots EXCEPT !.waiter = @ + 1],
         NEW e \in Tasks, TaskTrue(k, e), e.owns = entry[k].owns, e.registered = n + 1,
         entry' = [entry EXCEPT ![k] = e],
         NEW q \in Requests, q.key = k, q.text = reader[r].text,
         reader' = [reader EXCEPT ![r] = q],
         \/ q.at = "wait" /\ e.at = entry[k].at
         \/ q.at = "lead" /\ entry[k].at = "none" /\ e.at = "registered"
  PROVE  ReadsInv'
<1>1. StoreTrue'
  BY StoreUnchanged DEF ReadsInv
<1>2. /\ reader \in [Readers -> Requests] /\ reader' \in [Readers -> Requests]
      /\ entry \in [Reads!Keys -> Tasks] /\ entry' \in [Reads!Keys -> Tasks]
  BY DEF ReadsInv, RequestsTrue
<1>3. RequestsTrue'
  <2>1. \A j \in Reads!Keys : TaskTrue(j, entry[j])'
    <3> SUFFICES ASSUME NEW j \in Reads!Keys PROVE TaskTrue(j, entry[j])'
      OBVIOUS
    <3>1. PICK y : y = entry'[j]
      OBVIOUS
    <3>2. TaskTrue(j, y)
      BY <1>2, <3>1 DEF ReadsInv, RequestsTrue
    <3>3. QED
      BY <3>1, <3>2 DEF TaskTrue, StoreStays
  <2>2. \A s \in Readers : RequestTrue(reader[s])'
    <3> SUFFICES ASSUME NEW s \in Readers PROVE RequestTrue(reader[s])'
      OBVIOUS
    <3>1. PICK y \in Requests : y = reader'[s]
      BY <1>2
    <3>2. y.key \in Reads!Keys
      BY DEF Requests
    <3>3. CASE s = r
      <4>1. y = q
        BY <1>2, <3>1, <3>3
      <4>2. q.text # 0 => q.text = texts[q.key]
        BY DEF ReadsInv, RequestsTrue, RequestTrue
      <4>3. q.at # "body" /\ (q.at = "lead" => entry'[q.key].at = "registered")
        BY <1>2
      <4>4. QED
        BY <3>1, <4>1, <4>2, <4>3 DEF RequestTrue, StoreStays
    <3>4. CASE s # r
      <4>1. RequestTrue(y) /\ y = reader[s]
        BY <1>2, <3>1, <3>4 DEF ReadsInv, RequestsTrue
      <4>2. y.at = "lead" => entry'[y.key].at = "registered"
        BY <1>2, <3>2, <4>1 DEF RequestTrue
      <4>3. QED
        BY <3>1, <4>1, <4>2 DEF RequestTrue, StoreStays
    <3>5. QED
      BY <3>3, <3>4
  <2>3. \A s, u \in Readers : reader'[s].at = "lead" /\ reader'[u].at = "lead"
                              /\ reader'[s].key = reader'[u].key => s = u
    <3>1. \A s \in Readers : reader[s].at = "lead" => entry[reader[s].key].at = "registered"
      BY DEF ReadsInv, RequestsTrue, RequestTrue
    <3>2. \A s, u \in Readers : reader[s].at = "lead" /\ reader[u].at = "lead"
                                /\ reader[s].key = reader[u].key => s = u
      BY DEF ReadsInv, RequestsTrue
    <3>3. q.at = "lead" => \A s \in Readers : reader[s].at = "lead" => reader[s].key # k
      BY <3>1
    <3>4. QED
      BY <1>2, <3>2, <3>3
  <2>4. QED
    BY <1>2, <2>1, <2>2, <2>3 DEF RequestsTrue
<1>4. CountsTrue'
  <2>1. Balanced(slots, executors, entry, reader)
    BY BalanceIs DEF ReadsInv, CountsTrue
  <2>2. slots \in [waiter : Nat, rebuild : Nat, database : Nat]
    BY DEF ReadsInv, CountsTrue
  <2>3. /\ slots' \in [waiter : Nat, rebuild : Nat, database : Nat]
        /\ slots'.waiter = slots.waiter + 1
        /\ slots'.rebuild = slots.rebuild /\ slots'.database = slots.database
    BY <2>2
  <2>4. /\ Cardinality(RegisteredIn(entry)) \in Nat /\ Cardinality(RegisteredIn(entry')) \in Nat
        /\ Cardinality(RegisteredIn(entry')) + entry[k].registered
             = Cardinality(RegisteredIn(entry)) + entry'[k].registered
    BY <1>2, RegisteredChange
  <2>5. slots'.waiter = Cardinality(RegisteredIn(entry'))
    BY <1>2, <2>1, <2>3, <2>4 DEF Balanced
  <2>6. \A x : OwnersIn(entry', x) = OwnersIn(entry, x)
    BY OwnersStay DEF ReadsInv
  <2>7. \A j \in Reads!Keys : Cardinality(WaitingIn(reader', j)) <= entry'[j].registered
    <3> SUFFICES ASSUME NEW j \in Reads!Keys
                 PROVE  Cardinality(WaitingIn(reader', j)) <= entry'[j].registered
      OBVIOUS
    <3>1. Cardinality(WaitingIn(reader, j)) <= entry[j].registered /\ entry[j].registered \in Nat
      BY <1>2, <2>1, ReadsAssumption DEF Balanced, Tasks, ReadsAssumption
    <3>2. CASE j = k
      <4>1. WaitingIn(reader', k) \subseteq WaitingIn(reader, k) \cup {r}
        BY <1>2 DEF WaitingIn
      <4>2. Cardinality(WaitingIn(reader', k)) <= Cardinality(WaitingIn(reader, k)) + 1
        BY <4>1, WaitingOneMore
      <4>3. QED
        BY <1>2, <3>1, <3>2, <4>2, WaitingFinite
    <3>3. CASE j # k
      <4>1. WaitingIn(reader', j) \subseteq WaitingIn(reader, j)
        BY <1>2, <3>3 DEF WaitingIn
      <4>2. Cardinality(WaitingIn(reader', j)) <= Cardinality(WaitingIn(reader, j))
        BY <4>1, WaitingLess
      <4>3. QED
        BY <1>2, <3>1, <3>3, <4>2, WaitingFinite
    <3>4. QED
      BY <3>2, <3>3
  <2>8. Balanced(slots', executors', entry', reader')
    BY <2>1, <2>3, <2>5, <2>6, <2>7 DEF Balanced
  <2>9. QED
    BY <2>3, <2>8, BalanceIsAfter DEF ReadsInv, CountsTrue
<1>5. QED
  BY <1>1, <1>3, <1>4 DEF ReadsInv

LEMMA RegisterKeeps ==
  ASSUME ReadsInv, NEW r \in Readers, Reads!Register(r)
  PROVE  ReadsInv'
<1>1. StoreStays /\ UNCHANGED executors /\ BoundsTrue'
  BY BoundsStay DEF Reads!Register, StoreStays, ReadsInv
<1>2. PICK x \in Requests, k \in Reads!Keys : x = reader[r] /\ k = x.key /\ x.at = "load"
  BY DEF ReadsInv, RequestsTrue, Requests, Reads!Register
<1>3. PICK y \in Tasks : y = entry[k] /\ TaskTrue(k, y)
  BY DEF ReadsInv, RequestsTrue
<1>4. MaxWaitersPerKey \in Nat /\ MaxWaitersPerKey >= 1
  BY ReadsAssumption DEF ReadsAssumption
<1>5. CASE Reads!End(r, "busy") /\ UNCHANGED <<entry, slots>>
  BY <1>1, <1>5, EndKeeps DEF Reads!Ends
<1>6. CASE /\ Reads!Room(k) /\ k \in Reads!Active
           /\ slots' = [slots EXCEPT !.waiter = @ + 1]
           /\ entry' = [entry EXCEPT ![k].registered = @ + 1]
           /\ Reads!Becomes(r, [reader[r] EXCEPT !.at = "wait"])
  <2>1. PICK n \in Nat : n = y.registered /\ n < MaxWaitersPerKey /\ y.at # "none"
    BY <1>3, <1>4, <1>6 DEF Reads!Room, Reads!Active, Tasks
  <2>2. PICK e : e = [y EXCEPT !.registered = @ + 1]
    OBVIOUS
  <2>3. e \in Tasks /\ e.owns = y.owns /\ e.registered = n + 1 /\ e.at = y.at /\ e.text = y.text
    BY <1>3, <1>4, <2>1, <2>2 DEF Tasks
  <2>4. entry' = [entry EXCEPT ![k] = e]
    BY <1>3, <1>6, <2>2 DEF ReadsInv, RequestsTrue
  <2>5. TaskTrue(k, e)
    BY <1>3, <2>1, <2>3 DEF TaskTrue
  <2>6. PICK q : q = [x EXCEPT !.at = "wait"]
    OBVIOUS
  <2>7. q \in Requests /\ q.at = "wait" /\ q.key = k /\ q.text = x.text
    BY <1>2, <2>6 DEF Requests
  <2>8. reader' = [reader EXCEPT ![r] = q]
    BY <1>2, <1>6, <2>6 DEF Reads!Becomes
  <2>9. /\ n = entry[k].registered /\ reader[r].at = "load" /\ reader[r].key = k
        /\ slots' = [slots EXCEPT !.waiter = @ + 1] /\ UNCHANGED executors
        /\ e.owns = entry[k].owns /\ e.at = entry[k].at /\ q.text = reader[r].text
    BY <1>1, <1>2, <1>3, <1>6, <2>1, <2>3, <2>7
  <2>10. QED
    BY <1>1, <2>1, <2>3, <2>4, <2>5, <2>7, <2>8, <2>9, JoinKeeps, ZenonT(60)
<1>7. CASE /\ k \notin Reads!Active
           /\ slots' = [slots EXCEPT !.waiter = @ + 1]
           /\ entry' = [entry EXCEPT ![k] = [Reads!NoEntry EXCEPT !.registered = 1, !.at = "registered"]]
           /\ Reads!Becomes(r, [reader[r] EXCEPT !.at = "lead"])
  <2>1. y.at = "none" /\ y.registered = 0 /\ y.owns = {}
    BY <1>3, <1>7 DEF Reads!Active, TaskTrue
  <2>2. PICK e : e = [Reads!NoEntry EXCEPT !.registered = 1, !.at = "registered"]
    OBVIOUS
  <2>3. e \in Tasks /\ e.owns = {} /\ e.registered = 0 + 1 /\ e.at = "registered" /\ e.text = 0
    <3>1. e = [registered |-> 1, at |-> "registered", owns |-> {}, text |-> 0]
      BY <2>2 DEF Reads!NoEntry
    <3>2. 1 \in 0 .. MaxWaitersPerKey /\ {} \in SUBSET {"executor", "rebuild", "database"}
      BY <1>4
    <3>3. QED
      BY <3>1, <3>2, KeyFacts DEF Tasks
  <2>4. TaskTrue(k, e)
    BY <2>3 DEF TaskTrue
  <2>5. entry' = [entry EXCEPT ![k] = e]
    BY <1>7, <2>2
  <2>6. PICK q : q = [x EXCEPT !.at = "lead"]
    OBVIOUS
  <2>7. q \in Requests /\ q.at = "lead" /\ q.key = k /\ q.text = x.text
    BY <1>2, <2>6 DEF Requests
  <2>8. reader' = [reader EXCEPT ![r] = q]
    BY <1>2, <1>7, <2>6 DEF Reads!Becomes
  <2>9. PICK n \in Nat : n = 0
    OBVIOUS
  <2>10. /\ n = entry[k].registered /\ n < MaxWaitersPerKey /\ e.registered = n + 1
         /\ reader[r].at = "load" /\ reader[r].key = k
         /\ slots' = [slots EXCEPT !.waiter = @ + 1] /\ UNCHANGED executors
         /\ e.owns = entry[k].owns /\ entry[k].at = "none" /\ q.text = reader[r].text
    BY <1>1, <1>2, <1>3, <1>4, <1>7, <2>1, <2>3, <2>7, <2>9
  <2>11. QED
    BY <1>1, <2>3, <2>4, <2>5, <2>7, <2>8, <2>10, JoinKeeps
<1>8. QED
  BY <1>2, <1>5, <1>6, <1>7 DEF Reads!Register

LEMMA StartTaskKeeps ==
  ASSUME ReadsInv, NEW r \in Readers, Reads!StartTask(r)
  PROVE  ReadsInv'
<1>1. StoreStays /\ UNCHANGED <<executors, slots>> /\ BoundsTrue' /\ StoreTrue'
  BY BoundsStay, StoreUnchanged DEF Reads!StartTask, StoreStays, ReadsInv
<1>2. PICK x \in Requests, k \in Reads!Keys : x = reader[r] /\ k = x.key /\ x.at = "lead" /\ RequestTrue(x)
  BY DEF ReadsInv, RequestsTrue, Requests, Reads!StartTask
<1>3. PICK y \in Tasks : y = entry[k] /\ TaskTrue(k, y) /\ y.at = "registered"
  BY <1>2 DEF ReadsInv, RequestsTrue, RequestTrue
<1>4. PICK q : q = [x EXCEPT !.at = "wait"]
  OBVIOUS
<1>5. q \in Requests /\ q.at = "wait" /\ q.key = k /\ q.text = x.text
  BY <1>2, <1>4 DEF Requests
<1>6. PICK e : e = [y EXCEPT !.at = "queued"]
  OBVIOUS
<1>7. e \in Tasks /\ e.owns = y.owns /\ e.registered = y.registered /\ e.at = "queued" /\ e.text = y.text
  BY <1>3, <1>6 DEF Tasks
<1>8. reader' = [reader EXCEPT ![r] = q] /\ entry' = [entry EXCEPT ![k] = e]
  BY <1>2, <1>3, <1>4, <1>6 DEF Reads!StartTask, Reads!Becomes, ReadsInv, RequestsTrue
<1>9. /\ reader \in [Readers -> Requests] /\ reader' \in [Readers -> Requests]
      /\ entry \in [Reads!Keys -> Tasks] /\ entry' \in [Reads!Keys -> Tasks]
  BY <1>5, <1>7, <1>8 DEF ReadsInv, RequestsTrue
<1>10. RequestsTrue'
  <2>1. \A j \in Reads!Keys : TaskTrue(j, entry[j])'
    <3> SUFFICES ASSUME NEW j \in Reads!Keys PROVE TaskTrue(j, entry[j])'
      OBVIOUS
    <3>1. PICK z : z = entry'[j]
      OBVIOUS
    <3>2. TaskTrue(k, e)
      BY <1>3, <1>7 DEF TaskTrue
    <3>3. TaskTrue(j, z)
      BY <1>8, <1>9, <3>1, <3>2 DEF ReadsInv, RequestsTrue
    <3>4. QED
      BY <1>1, <3>1, <3>3 DEF TaskTrue, StoreStays
  <2>2. \A s \in Readers : RequestTrue(reader[s])'
    <3> SUFFICES ASSUME NEW s \in Readers PROVE RequestTrue(reader[s])'
      OBVIOUS
    <3>1. PICK z \in Requests : z = reader'[s]
      BY <1>9
    <3>2. z.key \in Reads!Keys
      BY DEF Requests
    <3>3. CASE s = r
      <4>1. z = q
        BY <1>8, <1>9, <3>1, <3>3
      <4>2. QED
        BY <1>1, <1>2, <1>5, <3>1, <4>1 DEF RequestTrue, StoreStays
    <3>4. CASE s # r
      <4>1. RequestTrue(z) /\ z = reader[s]
        BY <1>8, <1>9, <3>1, <3>4 DEF ReadsInv, RequestsTrue
      <4>2. z.at = "lead" => z.key # k
        BY <1>2, <3>4, <4>1 DEF ReadsInv, RequestsTrue
      <4>3. z.at = "lead" => entry'[z.key].at = "registered"
        BY <1>8, <1>9, <3>2, <4>1, <4>2 DEF RequestTrue
      <4>4. QED
        BY <1>1, <3>1, <4>1, <4>3 DEF RequestTrue, StoreStays
    <3>5. QED
      BY <3>3, <3>4
  <2>3. \A s, u \in Readers : reader'[s].at = "lead" /\ reader'[u].at = "lead"
                              /\ reader'[s].key = reader'[u].key => s = u
    BY <1>5, <1>8, <1>9 DEF ReadsInv, RequestsTrue
  <2>4. QED
    BY <1>9, <2>1, <2>2, <2>3 DEF RequestsTrue
<1>11. CountsTrue'
  <2>1. Balanced(slots, executors, entry, reader)
    BY BalanceIs DEF ReadsInv, CountsTrue
  <2>2. RegisteredIn(entry') = RegisteredIn(entry)
    BY <1>3, <1>7, <1>8, <1>9 DEF RegisteredIn
  <2>3. \A z : OwnersIn(entry', z) = OwnersIn(entry, z)
    BY <1>3, <1>7, <1>8, OwnersStay DEF ReadsInv
  <2>4. \A j \in Reads!Keys : WaitingIn(reader', j) = WaitingIn(reader, j)
    BY <1>2, <1>5, <1>8, <1>9 DEF WaitingIn
  <2>5. \A j \in Reads!Keys : entry'[j].registered = entry[j].registered
    BY <1>3, <1>7, <1>8, <1>9
  <2>6. Balanced(slots', executors', entry', reader')
    BY <1>1, <2>1, <2>2, <2>3, <2>4, <2>5 DEF Balanced
  <2>7. QED
    BY <1>1, <2>6, BalanceIsAfter DEF ReadsInv, CountsTrue
<1>12. QED
  BY <1>1, <1>10, <1>11 DEF ReadsInv

-----------------------------------------------------------------------------
(* The shared task.                                                         *)

Runs(k) == entry[k].at \notin {"none", "registered"}

LEMMA StageMoves ==
  ASSUME ReadsInv, StoreStays, NEW k \in Reads!Keys, Runs(k), NEW e \in Tasks, TaskTrue(k, e),
         e.registered = entry[k].registered,
         entry' = [entry EXCEPT ![k] = e], reader' = reader
  PROVE  RequestsTrue' /\ RegisteredIn(entry') = RegisteredIn(entry)
<1>1. entry \in [Reads!Keys -> Tasks] /\ entry' \in [Reads!Keys -> Tasks]
      /\ reader \in [Readers -> Requests]
  BY DEF ReadsInv, RequestsTrue
<1>2. \A j \in Reads!Keys : TaskTrue(j, entry[j])'
  <2> SUFFICES ASSUME NEW j \in Reads!Keys PROVE TaskTrue(j, entry[j])'
    OBVIOUS
  <2>1. PICK y : y = entry'[j]
    OBVIOUS
  <2>2. TaskTrue(j, y)
    BY <1>1, <2>1 DEF ReadsInv, RequestsTrue
  <2>3. QED
    BY <2>1, <2>2 DEF TaskTrue, StoreStays
<1>3. \A s \in Readers : RequestTrue(reader[s])'
  <2> SUFFICES ASSUME NEW s \in Readers PROVE RequestTrue(reader[s])'
    OBVIOUS
  <2>1. PICK z \in Requests : z = reader[s] /\ RequestTrue(z)
    BY <1>1 DEF ReadsInv, RequestsTrue
  <2>2. z.at = "lead" => z.key # k /\ z.key \in Reads!Keys
    BY <2>1 DEF RequestTrue, Runs, Requests
  <2>3. z.at = "lead" => entry'[z.key].at = "registered"
    BY <1>1, <2>1, <2>2 DEF RequestTrue
  <2>4. QED
    BY <2>1, <2>3 DEF RequestTrue, StoreStays
<1>4. RegisteredIn(entry') = RegisteredIn(entry)
  BY <1>1 DEF RegisteredIn
<1>5. QED
  BY <1>1, <1>2, <1>3, <1>4 DEF ReadsInv, RequestsTrue

LEMMA LoaderMoves ==
  ASSUME ReadsInv, StoreStays, BoundsTrue', NEW k \in Reads!Keys, Runs(k), NEW e \in Tasks,
         TaskTrue(k, e), e.registered = entry[k].registered, e.owns = entry[k].owns,
         entry' = [entry EXCEPT ![k] = e], UNCHANGED <<reader, executors, slots>>
  PROVE  ReadsInv'
<1>1. StoreTrue' /\ RequestsTrue' /\ RegisteredIn(entry') = RegisteredIn(entry)
  BY StoreUnchanged, StageMoves DEF ReadsInv
<1>2. Balanced(slots, executors, entry, reader)
  BY BalanceIs DEF ReadsInv, CountsTrue
<1>3. \A x : OwnersIn(entry', x) = OwnersIn(entry, x)
  BY OwnersStay DEF ReadsInv
<1>4. \A j \in Reads!Keys : entry'[j].registered = entry[j].registered
  BY DEF ReadsInv, RequestsTrue
<1>5. Balanced(slots', executors', entry', reader')
  BY <1>1, <1>2, <1>3, <1>4 DEF Balanced
<1>6. QED
  BY <1>1, <1>5, BalanceIsAfter DEF ReadsInv, CountsTrue

LEMMA FinishKeeps ==
  ASSUME ReadsInv, StoreTrue', texts' = texts, BoundsTrue', NEW k \in Reads!Keys, Runs(k),
         NEW a \in {"body", "unavailable", "not_found", "busy"}, NEW t \in Reads!Texts,
         a = "body" => t # 0 /\ t = texts[k], NEW o, o = entry[k].owns,
         Reads!Finish(k, o, a, t)
  PROVE  ReadsInv'
<1>1. PICK y \in Tasks : y = entry[k] /\ TaskTrue(k, y) /\ y.at \notin {"none", "registered"} /\ y.owns = o
  BY DEF ReadsInv, RequestsTrue, Runs
<1>2. PICK e : e = Reads!NoEntry
  OBVIOUS
<1>3. e \in Tasks /\ e.owns = {} /\ e.registered = 0 /\ e.at = "none" /\ e.text = 0
  <2>1. e = [registered |-> 0, at |-> "none", owns |-> {}, text |-> 0]
    BY <1>2 DEF Reads!NoEntry
  <2>2. 0 \in 0 .. MaxWaitersPerKey /\ {} \in SUBSET {"executor", "rebuild", "database"}
    BY ReadsAssumption DEF ReadsAssumption
  <2>3. QED
    BY <2>1, <2>2, KeyFacts DEF Tasks
<1>4. entry' = [entry EXCEPT ![k] = e]
  BY <1>2 DEF Reads!Finish
<1>5. entry \in [Reads!Keys -> Tasks] /\ entry' \in [Reads!Keys -> Tasks] /\ reader \in [Readers -> Requests]
  BY <1>3, <1>4 DEF ReadsInv, RequestsTrue
<1>6. PICK q : q = [Reads!Idle EXCEPT !.at = a]
  OBVIOUS
<1>7. a # "body" => /\ q \in Requests /\ q.at = a /\ q.text = 0
                    /\ q.at \notin {"wait", "lead", "body"}
  BY <1>6, KeyFacts DEF Reads!Idle, Requests, Reads!Ends
<1>8. \A r \in Readers : \E x \in Requests :
        /\ reader'[r] = x /\ (x.text # 0 => x.text = texts[x.key]) /\ (x.at = "body" => x.text # 0)
        /\ \/ x = reader[r] /\ ~(reader[r].at = "wait" /\ reader[r].key = k)
           \/ x.at \notin {"wait", "lead"}
  <2> SUFFICES ASSUME NEW r \in Readers
               PROVE  \E x \in Requests :
                        /\ reader'[r] = x /\ (x.text # 0 => x.text = texts[x.key]) /\ (x.at = "body" => x.text # 0)
                        /\ \/ x = reader[r] /\ ~(reader[r].at = "wait" /\ reader[r].key = k)
                           \/ x.at \notin {"wait", "lead"}
    OBVIOUS
  <2>1. PICK z \in Requests : z = reader[r] /\ RequestTrue(z)
    BY <1>5 DEF ReadsInv, RequestsTrue
  <2>2. reader'[r] = IF z.at = "wait" /\ z.key = k
                     THEN IF a = "body" THEN [z EXCEPT !.at = "body", !.text = t] ELSE q
                     ELSE z
    BY <1>6, <2>1 DEF Reads!Finish
  <2>3. CASE ~(z.at = "wait" /\ z.key = k)
    BY <2>1, <2>2, <2>3 DEF RequestTrue
  <2>4. CASE z.at = "wait" /\ z.key = k /\ a # "body"
    BY <1>7, <2>2, <2>4
  <2>5. CASE z.at = "wait" /\ z.key = k /\ a = "body"
    <3>1. PICK x : x = [z EXCEPT !.at = "body", !.text = t]
      OBVIOUS
    <3>2. x \in Requests /\ x.at = "body" /\ x.text = t /\ x.key = k
      BY <2>1, <2>5, <3>1 DEF Requests
    <3>3. QED
      BY <2>2, <2>5, <3>1, <3>2
  <2>6. QED
    BY <2>3, <2>4, <2>5
<1>9. DOMAIN reader' = Readers /\ reader' \in [Readers -> Requests]
  <2>1. PICK h : h = [r \in Readers |->
                  IF reader[r].at = "wait" /\ reader[r].key = k
                  THEN IF a = "body" THEN [reader[r] EXCEPT !.at = "body", !.text = t]
                       ELSE [Reads!Idle EXCEPT !.at = a]
                  ELSE reader[r]]
    OBVIOUS
  <2>2. reader' = h
    BY <2>1 DEF Reads!Finish
  <2>3. \A r \in Readers : h[r] \in Requests
    BY <1>8, <2>2
  <2>4. QED
    BY <2>1, <2>2, <2>3
<1>10. RequestsTrue'
  <2>1. \A j \in Reads!Keys : TaskTrue(j, entry[j])'
    <3> SUFFICES ASSUME NEW j \in Reads!Keys PROVE TaskTrue(j, entry[j])'
      OBVIOUS
    <3>1. PICK z : z = entry'[j]
      OBVIOUS
    <3>2. TaskTrue(k, e)
      BY <1>3 DEF TaskTrue
    <3>3. TaskTrue(j, z)
      BY <1>4, <1>5, <3>1, <3>2 DEF ReadsInv, RequestsTrue
    <3>4. QED
      BY <3>1, <3>3 DEF TaskTrue
  <2>2. \A s \in Readers : RequestTrue(reader[s])'
    <3> SUFFICES ASSUME NEW s \in Readers PROVE RequestTrue(reader[s])'
      OBVIOUS
    <3>1. PICK z \in Requests :
            /\ reader'[s] = z /\ (z.text # 0 => z.text = texts[z.key]) /\ (z.at = "body" => z.text # 0)
            /\ (z = reader[s] \/ z.at \notin {"wait", "lead"})
      BY <1>8
    <3>2. z.at = "lead" => entry'[z.key].at = "registered"
      <4>1. z.at = "lead" => entry[z.key].at = "registered" /\ z.key \in Reads!Keys
        BY <3>1 DEF ReadsInv, RequestsTrue, RequestTrue, Requests
      <4>2. QED
        BY <1>1, <1>4, <1>5, <4>1
    <3>3. QED
      BY <3>1, <3>2 DEF RequestTrue
  <2>3. \A s, u \in Readers : reader'[s].at = "lead" /\ reader'[u].at = "lead"
                              /\ reader'[s].key = reader'[u].key => s = u
    <3>1. \A s \in Readers : reader'[s].at = "lead" => reader'[s] = reader[s]
      BY <1>8
    <3>2. \A s, u \in Readers : reader[s].at = "lead" /\ reader[u].at = "lead"
                                /\ reader[s].key = reader[u].key => s = u
      BY DEF ReadsInv, RequestsTrue
    <3>3. QED
      BY <3>1, <3>2
  <2>4. QED
    BY <1>5, <1>9, <2>1, <2>2, <2>3 DEF RequestsTrue
<1>11. CountsTrue'
  <2>1. Balanced(slots, executors, entry, reader)
    BY BalanceIs DEF ReadsInv, CountsTrue
  <2>2. slots \in [waiter : Nat, rebuild : Nat, database : Nat] /\ executors \in 0..MaxExecutors
    BY DEF ReadsInv, CountsTrue
  <2>3. y.registered \in Nat
    BY <1>1, ReadsAssumption DEF Tasks, ReadsAssumption
  <2>4. \A j \in Reads!Keys \ {k} : entry'[j] = entry[j]
    BY <1>4, <1>5
  <2>5. Cardinality(RegisteredIn(entry')) \in Nat
        /\ Cardinality(RegisteredIn(entry')) = slots.waiter - y.registered
    <3>1. /\ Cardinality(RegisteredIn(entry)) \in Nat /\ Cardinality(RegisteredIn(entry')) \in Nat
          /\ Cardinality(RegisteredIn(entry')) + entry[k].registered
               = Cardinality(RegisteredIn(entry)) + entry'[k].registered
      BY <1>5, <2>4, RegisteredChange
    <3>2. entry'[k].registered = 0
      BY <1>3, <1>4, <1>5
    <3>3. QED
      BY <1>1, <2>1, <2>3, <3>1, <3>2 DEF Balanced
  <2>6. \A x : Cardinality(OwnersIn(entry', x)) \in Nat /\ Cardinality(OwnersIn(entry, x)) \in Nat
               /\ Cardinality(OwnersIn(entry', x)) = Cardinality(OwnersIn(entry, x)) - (IF x \in o THEN 1 ELSE 0)
    <3> SUFFICES ASSUME NEW x
                 PROVE  /\ Cardinality(OwnersIn(entry', x)) \in Nat /\ Cardinality(OwnersIn(entry, x)) \in Nat
                        /\ Cardinality(OwnersIn(entry', x))
                             = Cardinality(OwnersIn(entry, x)) - (IF x \in o THEN 1 ELSE 0)
      OBVIOUS
    <3>1. /\ Cardinality(OwnersIn(entry, x)) \in Nat /\ Cardinality(OwnersIn(entry', x)) \in Nat
          /\ Cardinality(OwnersIn(entry, x)) + One(x, entry'[k].owns)
               = Cardinality(OwnersIn(entry', x)) + One(x, entry[k].owns)
      <4>1. PICK f, g : f = entry /\ g = entry'
        OBVIOUS
      <4>2. \A j \in Reads!Keys \ {k} : g[j] = f[j]
        BY <2>4, <4>1
      <4>3. /\ Cardinality(OwnersIn(f, x)) \in Nat /\ Cardinality(OwnersIn(g, x)) \in Nat
            /\ Cardinality(OwnersIn(f, x)) + One(x, g[k].owns)
                 = Cardinality(OwnersIn(g, x)) + One(x, f[k].owns)
        BY <4>2, OwnersChange
      <4>4. QED
        BY <4>1, <4>3
    <3>2. x \notin entry'[k].owns
      BY <1>3, <1>4, <1>5
    <3>3. QED
      BY <1>1, <3>1, <3>2 DEF One
  <2>7. slots' = [waiter |-> slots.waiter - y.registered,
                  rebuild |-> slots.rebuild - (IF "rebuild" \in o THEN 1 ELSE 0),
                  database |-> slots.database - (IF "database" \in o THEN 1 ELSE 0)]
        /\ executors' = executors - (IF "executor" \in o THEN 1 ELSE 0)
    BY <1>1 DEF Reads!Finish
  <2>8. /\ slots'.waiter = Cardinality(RegisteredIn(entry'))
        /\ slots'.rebuild = Cardinality(OwnersIn(entry', "rebuild"))
        /\ slots'.database = Cardinality(OwnersIn(entry', "database"))
        /\ executors' = Cardinality(OwnersIn(entry', "executor"))
    BY <2>1, <2>5, <2>6, <2>7 DEF Balanced
  <2>9. slots' \in [waiter : Nat, rebuild : Nat, database : Nat]
    <3>1. slots'.waiter \in Nat /\ slots'.rebuild \in Nat /\ slots'.database \in Nat
      BY <2>5, <2>6, <2>8
    <3>2. QED
      BY <2>7, <3>1
  <2>10. executors' \in 0..MaxExecutors
    <3>1. executors' \in Nat /\ executors' <= executors
      BY <2>2, <2>6, <2>7, <2>8
    <3>2. QED
      BY <2>2, <3>1, ReadsAssumption DEF ReadsAssumption
  <2>11. \A j \in Reads!Keys : Cardinality(WaitingIn(reader', j)) <= entry'[j].registered
    <3> SUFFICES ASSUME NEW j \in Reads!Keys
                 PROVE  Cardinality(WaitingIn(reader', j)) <= entry'[j].registered
      OBVIOUS
    <3>1. CASE j = k
      <4>1. \A r \in Readers : reader[r].at = "lead" => reader[r].key # k
        BY <1>1 DEF ReadsInv, RequestsTrue, RequestTrue
      <4>2. WaitingIn(reader', k) = {}
        BY <1>8, <4>1 DEF WaitingIn
      <4>3. Cardinality(WaitingIn(reader', k)) = 0
        BY <4>2, FS_EmptySet
      <4>4. entry'[k].registered = 0
        BY <1>3, <1>4, <1>5
      <4>5. QED
        BY <3>1, <4>3, <4>4
    <3>2. CASE j # k
      <4>1. WaitingIn(reader', j) \subseteq WaitingIn(reader, j)
        BY <1>8 DEF WaitingIn
      <4>2. Cardinality(WaitingIn(reader', j)) <= Cardinality(WaitingIn(reader, j))
        BY <4>1, WaitingLess
      <4>3. Cardinality(WaitingIn(reader, j)) <= entry[j].registered /\ entry[j].registered \in Nat
        BY <1>5, <2>1, ReadsAssumption DEF Balanced, Tasks, ReadsAssumption
      <4>4. entry'[j].registered = entry[j].registered
        BY <2>4, <3>2
      <4>5. QED
        BY <4>2, <4>3, <4>4, WaitingFinite
    <3>3. QED
      BY <3>1, <3>2
  <2>12. Balanced(slots', executors', entry', reader')
    BY <2>8, <2>11 DEF Balanced
  <2>13. QED
    BY <2>9, <2>10, <2>12, BalanceIsAfter DEF CountsTrue
<1>12. QED
  BY <1>10, <1>11 DEF ReadsInv

\* The executor's channel has room and the budget its slots.
LEMMA AcquireKeeps ==
  ASSUME ReadsInv, NEW k \in Reads!Keys, Reads!Acquire(k)
  PROVE  ReadsInv'
<1>1. StoreStays /\ BoundsTrue' /\ StoreTrue' /\ texts' = texts /\ Runs(k)
  BY BoundsStay, StoreUnchanged DEF Reads!Acquire, StoreStays, ReadsInv, Runs
<1>2. PICK y \in Tasks : y = entry[k] /\ TaskTrue(k, y) /\ y.at = "queued"
  BY DEF ReadsInv, RequestsTrue, Reads!Acquire
<1>3. y.owns = {}
  BY <1>2 DEF TaskTrue
<1>4. CASE Reads!Finish(k, {}, "busy", 0)
  <2>1. PICK o : o = {} /\ o = entry[k].owns
    BY <1>2, <1>3
  <2>2. Reads!Finish(k, o, "busy", 0)
    BY <1>4, <2>1
  <2>3. QED
    BY <1>1, <2>1, <2>2, KeyFacts, FinishKeeps
<1>5. CASE /\ executors < MaxExecutors /\ executors' = executors + 1
           /\ slots' = [slots EXCEPT !.rebuild = @ + 1, !.database = @ + 1]
           /\ entry' = [entry EXCEPT ![k].at = "recheck",
                                     ![k].owns = {"executor", "rebuild", "database"}]
           /\ UNCHANGED reader
  <2>1. PICK o : o = {"executor", "rebuild", "database"}
    OBVIOUS
  <2>2. PICK e : e = [y EXCEPT !.at = "recheck", !.owns = o]
    OBVIOUS
  <2>3. /\ e \in Tasks /\ e.owns = o /\ e.at = "recheck"
        /\ e.registered = y.registered /\ e.text = y.text
    BY <1>2, <2>1, <2>2 DEF Tasks
  <2>4. TaskTrue(k, e)
    BY <1>2, <2>1, <2>3 DEF TaskTrue
  <2>5. entry \in [Reads!Keys -> Tasks]
    BY DEF ReadsInv, RequestsTrue
  <2>6. entry' = [entry EXCEPT ![k] = e]
    BY <1>2, <1>5, <2>1, <2>2, <2>5
  <2>7. entry' \in [Reads!Keys -> Tasks] /\ entry'[k] = e
        /\ \A j \in Reads!Keys \ {k} : entry'[j] = entry[j]
    BY <2>3, <2>5, <2>6
  <2>8. RequestsTrue' /\ RegisteredIn(entry') = RegisteredIn(entry)
    BY <1>1, <1>2, <1>5, <2>3, <2>4, <2>6, StageMoves
  <2>9. slots \in [waiter : Nat, rebuild : Nat, database : Nat] /\ executors \in 0..MaxExecutors
    BY DEF ReadsInv, CountsTrue
  <2>10. Balanced(slots, executors, entry, reader)
    BY BalanceIs DEF ReadsInv, CountsTrue
  <2>11. /\ slots' \in [waiter : Nat, rebuild : Nat, database : Nat]
         /\ slots'.waiter = slots.waiter
         /\ slots'.rebuild = slots.rebuild + 1 /\ slots'.database = slots.database + 1
    <3>1. PICK w, b, d \in Nat : slots = [waiter |-> w, rebuild |-> b, database |-> d]
      BY <2>9
    <3>2. slots' = [waiter |-> w, rebuild |-> b + 1, database |-> d + 1]
      BY <1>5, <3>1
    <3>3. b + 1 \in Nat /\ d + 1 \in Nat
      OBVIOUS
    <3>4. QED
      BY <3>1, <3>2, <3>3
  <2>12. \A x \in o : Cardinality(OwnersIn(entry', x)) = Cardinality(OwnersIn(entry, x)) + 1
    <3> SUFFICES ASSUME NEW x \in o
                 PROVE  Cardinality(OwnersIn(entry', x)) = Cardinality(OwnersIn(entry, x)) + 1
      OBVIOUS
    <3>1. PICK f, g : f = entry /\ g = entry'
      OBVIOUS
    <3>2. \A j \in Reads!Keys \ {k} : g[j] = f[j]
      BY <2>7, <3>1
    <3>3. /\ Cardinality(OwnersIn(f, x)) \in Nat /\ Cardinality(OwnersIn(g, x)) \in Nat
          /\ Cardinality(OwnersIn(f, x)) + One(x, g[k].owns)
               = Cardinality(OwnersIn(g, x)) + One(x, f[k].owns)
      BY <3>2, OwnersChange
    <3>4. One(x, g[k].owns) = 1 /\ One(x, f[k].owns) = 0
      BY <1>2, <1>3, <2>3, <2>7, <3>1 DEF One
    <3>5. QED
      BY <3>1, <3>3, <3>4
  <2>13. \A j \in Reads!Keys : entry'[j].registered = entry[j].registered
    BY <1>2, <2>3, <2>7
  <2>14. Balanced(slots', executors', entry', reader')
    BY <1>5, <2>1, <2>8, <2>10, <2>11, <2>12, <2>13 DEF Balanced
  <2>15. executors' \in 0..MaxExecutors
    BY <1>5, <2>9, ReadsAssumption DEF ReadsAssumption
  <2>16. QED
    BY <1>1, <2>8, <2>11, <2>14, <2>15, BalanceIsAfter DEF ReadsInv, CountsTrue
<1>6. QED
  BY <1>4, <1>5 DEF Reads!Acquire

\* A stage of the loader: nothing else changes.
LEMMA StageKeeps ==
  ASSUME ReadsInv, StoreStays, BoundsTrue', NEW k \in Reads!Keys,
         entry[k].at \in {"recheck", "origin", "missing"},
         NEW a \in {"origin", "missing"}, entry' = [entry EXCEPT ![k].at = a],
         UNCHANGED <<reader, executors, slots>>
  PROVE  ReadsInv'
<1>1. PICK y \in Tasks : y = entry[k] /\ TaskTrue(k, y)
  BY DEF ReadsInv, RequestsTrue
<1>2. PICK e : e = [y EXCEPT !.at = a]
  OBVIOUS
<1>3. e \in Tasks /\ e.owns = y.owns /\ e.at = a /\ e.registered = y.registered /\ e.text = y.text
  BY <1>1, <1>2 DEF Tasks
<1>4. TaskTrue(k, e)
  BY <1>1, <1>3 DEF TaskTrue
<1>5. entry' = [entry EXCEPT ![k] = e] /\ Runs(k)
  BY <1>1, <1>2 DEF ReadsInv, RequestsTrue, Runs
<1>6. QED
  BY <1>1, <1>3, <1>4, <1>5, LoaderMoves

LEMMA RecheckKeeps ==
  ASSUME ReadsInv, NEW k \in Reads!Keys, Reads!Recheck(k)
  PROVE  ReadsInv'
<1>1. StoreStays /\ BoundsTrue' /\ StoreTrue' /\ texts' = texts /\ Runs(k)
  BY BoundsStay, StoreUnchanged DEF Reads!Recheck, StoreStays, ReadsInv, Runs
<1>2. CASE cached[k] # 0 /\ Reads!Finish(k, Reads!Held(k), "body", cached[k])
  <2>1. PICK t \in Reads!Texts : t = cached[k] /\ t # 0 /\ t = texts[k]
    BY <1>2 DEF ReadsInv, StoreTrue, Reads!CacheTrue
  <2>2. PICK o : o = entry[k].owns
    OBVIOUS
  <2>3. Reads!Finish(k, o, "body", t)
    BY <1>2, <2>1, <2>2 DEF Reads!Held
  <2>4. QED
    BY <1>1, <2>1, <2>2, <2>3, FinishKeeps
<1>3. CASE entry' = [entry EXCEPT ![k].at = "origin"] /\ UNCHANGED <<reader, executors, slots>>
  BY <1>1, <1>3, StageKeeps DEF Reads!Recheck
<1>4. QED
  BY <1>2, <1>3 DEF Reads!Recheck

LEMMA FailedFinish ==
  ASSUME ReadsInv, StoreStays, BoundsTrue', NEW k \in Reads!Keys, Runs(k),
         NEW a \in {"unavailable", "not_found"}, Reads!Finish(k, Reads!Held(k), a, 0)
  PROVE  ReadsInv'
<1>1. PICK o : o = entry[k].owns
  OBVIOUS
<1>2. Reads!Finish(k, o, a, 0)
  BY <1>1 DEF Reads!Held
<1>3. StoreTrue' /\ texts' = texts
  BY StoreUnchanged DEF ReadsInv, StoreStays
<1>4. QED
  BY <1>1, <1>2, <1>3, KeyFacts, FinishKeeps

LEMMA FindBodyKeeps ==
  ASSUME ReadsInv, NEW k \in Reads!Keys, Reads!FindBody(k)
  PROVE  ReadsInv'
<1>1. StoreStays /\ BoundsTrue' /\ Runs(k)
  BY BoundsStay DEF Reads!FindBody, StoreStays, ReadsInv, Runs
<1>2. CASE Reads!Finish(k, Reads!Held(k), "unavailable", 0)
  BY <1>1, <1>2, FailedFinish
<1>3. CASE entry' = [entry EXCEPT ![k].at = "missing"] /\ UNCHANGED <<reader, executors, slots>>
  BY <1>1, <1>3, StageKeeps DEF Reads!FindBody
<1>4. CASE /\ k = <<readEnv.epoch, current.rev>>
           /\ entry' = [entry EXCEPT ![k].at = "fill", ![k].text = current.text]
           /\ UNCHANGED <<reader, executors, slots>>
  <2>1. current.rev # 0
    BY <1>4 DEF Reads!Keys
  <2>2. PICK t \in Reads!Texts : t = current.text /\ t # 0 /\ t = texts[k]
    BY <1>4, <2>1 DEF ReadsInv, StoreTrue, HistoryTrue
  <2>3. PICK y \in Tasks : y = entry[k] /\ TaskTrue(k, y) /\ y.at = "origin"
    BY DEF ReadsInv, RequestsTrue, Reads!FindBody
  <2>4. PICK e : e = [y EXCEPT !.at = "fill", !.text = t]
    OBVIOUS
  <2>5. e \in Tasks /\ e.owns = y.owns /\ e.at = "fill" /\ e.registered = y.registered /\ e.text = t
    BY <2>2, <2>3, <2>4 DEF Tasks
  <2>6. TaskTrue(k, e)
    BY <2>2, <2>3, <2>5 DEF TaskTrue
  <2>7. entry' = [entry EXCEPT ![k] = e]
    BY <1>4, <2>2, <2>3, <2>4 DEF ReadsInv, RequestsTrue
  <2>8. QED
    BY <1>1, <1>4, <2>3, <2>5, <2>6, <2>7, LoaderMoves
<1>5. QED
  BY <1>2, <1>3, <1>4 DEF Reads!FindBody

LEMMA FindRevisionKeeps ==
  ASSUME ReadsInv, NEW k \in Reads!Keys, Reads!FindRevision(k)
  PROVE  ReadsInv'
<1>1. StoreStays /\ BoundsTrue' /\ Runs(k)
  BY BoundsStay DEF Reads!FindRevision, StoreStays, ReadsInv, Runs
<1>2. PICK a \in {"unavailable", "not_found"} : a = IF current.rev = 0 THEN "not_found" ELSE "unavailable"
  OBVIOUS
<1>3. Reads!Finish(k, Reads!Held(k), a, 0)
  BY <1>2 DEF Reads!FindRevision
<1>4. QED
  BY <1>1, <1>3, FailedFinish

LEMMA TaskExpiresKeeps ==
  ASSUME ReadsInv, NEW k \in Reads!Keys, Reads!TaskExpires(k)
  PROVE  ReadsInv'
<1>1. StoreStays /\ BoundsTrue' /\ Runs(k) /\ Reads!Finish(k, Reads!Held(k), "unavailable", 0)
  BY BoundsStay DEF Reads!TaskExpires, StoreStays, ReadsInv, Runs
<1>2. QED
  BY <1>1, FailedFinish

LEMMA FillKeeps ==
  ASSUME ReadsInv, NEW k \in Reads!Keys, Reads!Fill(k)
  PROVE  ReadsInv'
<1>1. BoundsTrue' /\ Runs(k) /\ texts' = texts
  BY BoundsStay DEF Reads!Fill, ReadsInv, Runs
<1>2. PICK y \in Tasks : y = entry[k] /\ TaskTrue(k, y) /\ y.at = "fill"
  BY DEF ReadsInv, RequestsTrue, Reads!Fill
<1>3. PICK t \in Reads!Texts : t = y.text /\ t # 0 /\ t = texts[k]
  BY <1>2 DEF TaskTrue, Tasks
<1>4. StoreTrue'
  <2>1. cached \in [Reads!Keys -> Reads!Texts] /\ Reads!CacheTrue
    BY DEF ReadsInv, StoreTrue
  <2>2. cached' = [cached EXCEPT ![k] = t] \/ cached' = cached
    BY <1>2, <1>3 DEF Reads!Fill
  <2>3. cached' \in [Reads!Keys -> Reads!Texts]
    BY <2>1, <2>2
  <2>4. Reads!CacheTrue'
    BY <1>1, <1>3, <2>1, <2>2 DEF Reads!CacheTrue
  <2>5. UNCHANGED <<readEnv, current>>
    BY DEF Reads!Fill
  <2>6. QED
    BY <1>1, <2>3, <2>4, <2>5 DEF ReadsInv, StoreTrue, HistoryTrue, TextBound
<1>5. PICK o : o = entry[k].owns
  OBVIOUS
<1>6. Reads!Finish(k, o, "body", t)
  BY <1>2, <1>3, <1>5 DEF Reads!Fill, Reads!Held
<1>7. QED
  BY <1>1, <1>3, <1>4, <1>5, <1>6, FinishKeeps

LEMMA ExpireKeeps ==
  ASSUME ReadsInv, NEW k \in Reads!Keys, Reads!Expire(k)
  PROVE  ReadsInv'
<1>1. /\ UNCHANGED <<readEnv, current, texts, reader, entry, executors, slots, again, readFaults>>
      /\ cached' = [cached EXCEPT ![k] = 0]
  BY DEF Reads!Expire
<1>2. StoreTrue'
  BY <1>1, KeyFacts DEF ReadsInv, StoreTrue, HistoryTrue, TextBound, Reads!CacheTrue
<1>3. RequestsTrue' /\ BoundsTrue' /\ CountsTrue'
  BY <1>1 DEF ReadsInv, RequestsTrue, TaskTrue, RequestTrue, BoundsTrue, CountsTrue,
     Reads!SlotsBalance, Reads!RegisteredWaiters, Reads!Registrations
<1>4. QED
  BY <1>2, <1>3 DEF ReadsInv

-----------------------------------------------------------------------------
(* The invariant.                                                           *)

LEMMA ReadsStart == Reads!Init => ReadsInv
<1> SUFFICES ASSUME Reads!Init PROVE ReadsInv
  OBVIOUS
<1>1. /\ readEnv = [epoch |-> 1, ready |-> TRUE] /\ current = [rev |-> 1, text |-> 1]
      /\ texts = [k \in Reads!Keys |-> IF k = <<1, 1>> THEN 1 ELSE 0]
      /\ cached = [k \in Reads!Keys |-> 0]
      /\ reader = [r \in Readers |-> Reads!Idle]
      /\ entry = [k \in Reads!Keys |-> Reads!NoEntry]
      /\ executors = 0 /\ slots = [waiter |-> 0, rebuild |-> 0, database |-> 0]
      /\ again = 0 /\ readFaults = 0
  BY DEF Reads!Init
<1>2. MaxEpochs \in Nat /\ MaxRevision \in Nat /\ MaxEpochs >= 1 /\ MaxRevision >= 1
  BY CommandsAssumption DEF CommandsAssumption
<1>3. 1 \in Reads!Texts
  <2>1. (1 - 1) * MaxRevision + 1 <= MaxRevision * MaxEpochs
    BY <1>2, TextRoom
  <2>2. QED
    BY <1>2, <2>1, KeyFacts DEF Reads!Texts
<1>4. StoreTrue
  <2>1. \A k \in Reads!Keys : texts[k] = (IF k = <<1, 1>> THEN 1 ELSE 0)
    BY <1>1
  <2>2. TextBound = 1
    BY <1>1, <1>2 DEF TextBound
  <2>3. HistoryTrue
    BY <1>1, <2>1, <2>2, KeyFacts DEF HistoryTrue
  <2>4. Reads!CacheTrue
    BY <1>1 DEF Reads!CacheTrue
  <2>5. QED
    BY <1>1, <1>2, <1>3, <2>3, <2>4, KeyFacts DEF StoreTrue
<1>5. RequestsTrue
  <2>1. PICK e : e = Reads!NoEntry
    OBVIOUS
  <2>2. e = [registered |-> 0, at |-> "none", owns |-> {}, text |-> 0]
    BY <2>1 DEF Reads!NoEntry
  <2>3. 0 \in 0 .. MaxWaitersPerKey /\ {} \in SUBSET {"executor", "rebuild", "database"}
    BY ReadsAssumption DEF ReadsAssumption
  <2>4. e \in Tasks /\ e.at = "none" /\ e.registered = 0 /\ e.owns = {} /\ e.text = 0
    BY <2>2, <2>3, KeyFacts DEF Tasks
  <2>5. PICK q : q = Reads!Idle
    OBVIOUS
  <2>6. q \in Requests /\ q.at = "idle" /\ q.text = 0
    BY <2>5, KeyFacts DEF Reads!Idle, Requests
  <2>7. \A k \in Reads!Keys : TaskTrue(k, entry[k])
    BY <1>1, <2>1, <2>4 DEF TaskTrue
  <2>8. \A r \in Readers : RequestTrue(reader[r])
    BY <1>1, <2>5, <2>6 DEF RequestTrue
  <2>9. reader \in [Readers -> Requests] /\ entry \in [Reads!Keys -> Tasks]
    BY <1>1, <2>1, <2>4, <2>5, <2>6
  <2>10. \A r, s \in Readers : reader[r].at = "lead" /\ reader[s].at = "lead"
                               /\ reader[r].key = reader[s].key => r = s
    BY <1>1, <2>5, <2>6
  <2>11. QED
    BY <2>7, <2>8, <2>9, <2>10 DEF RequestsTrue
<1>6. CountsTrue
  <2>1. \A k \in Reads!Keys : entry[k].registered = 0 /\ entry[k].owns = {}
    BY <1>1 DEF Reads!NoEntry
  <2>2. RegisteredIn(entry) = {} /\ \A x : OwnersIn(entry, x) = {}
    BY <2>1, ReadsAssumption DEF RegisteredIn, OwnersIn, ReadsAssumption
  <2>3. \A k \in Reads!Keys : WaitingIn(reader, k) = {}
    BY <1>1 DEF WaitingIn, Reads!Idle
  <2>4. Cardinality({}) = 0
    BY FS_EmptySet
  <2>5. slots.waiter = 0 /\ slots.rebuild = 0 /\ slots.database = 0
    BY <1>1
  <2>6. Balanced(slots, executors, entry, reader)
    <3>1. executors = 0
      BY <1>1
    <3>2. Cardinality(RegisteredIn(entry)) = 0 /\ \A x : Cardinality(OwnersIn(entry, x)) = 0
      BY <2>2, <2>4
    <3>3. \A k \in Reads!Keys : Cardinality(WaitingIn(reader, k)) = 0
      BY <2>3, <2>4
    <3>4. QED
      BY <2>1, <2>5, <3>1, <3>2, <3>3 DEF Balanced
  <2>7. QED
    BY <1>1, <2>6, BalanceIs, ReadsAssumption DEF CountsTrue, ReadsAssumption
<1>7. BoundsTrue
  BY <1>1, ReadsAssumption DEF BoundsTrue, ReadsAssumption
<1>8. QED
  BY <1>4, <1>5, <1>6, <1>7 DEF ReadsInv

LEMMA ReadStepKeeps == ReadsInv /\ Reads!Next => ReadsInv'
<1> SUFFICES ASSUME ReadsInv, Reads!Next PROVE ReadsInv'
  OBVIOUS
<1>1. CASE Reads!Edit \/ Reads!Delete \/ Reads!BeginRestore \/ Reads!MarkReady
  BY <1>1, DatabaseStepKeeps
<1>2. CASE \E k \in Reads!Keys : Reads!Expire(k) \/ Reads!Task(k) \/ Reads!TaskExpires(k)
  BY <1>2, ExpireKeeps, TaskExpiresKeeps, AcquireKeeps, RecheckKeeps, FindBodyKeeps,
     FindRevisionKeeps, FillKeeps DEF Reads!Task
<1>3. CASE \E r \in Readers : Reads!Read(r) \/ Reads!GiveUp(r) \/ Reads!Again(r)
  BY <1>3, ReadContextKeeps, ReadCacheKeeps, RegisterKeeps, StartTaskKeeps, AnswerKeeps,
     GiveUpOrAgainKeeps DEF Reads!Read
<1>4. QED
  BY <1>1, <1>2, <1>3 DEF Reads!Next

LEMMA ReadsUnchanged == ReadsInv /\ UNCHANGED readVars => ReadsInv'
<1> SUFFICES ASSUME ReadsInv, UNCHANGED readVars PROVE ReadsInv'
  OBVIOUS
<1>1. UNCHANGED <<readEnv, current, texts, cached, reader, entry, executors, slots, again, readFaults>>
  BY DEF readVars
<1>2. StoreTrue'
  BY <1>1, StoreUnchanged DEF ReadsInv, StoreStays
<1>3. RequestsTrue' /\ BoundsTrue' /\ CountsTrue'
  BY <1>1 DEF ReadsInv, RequestsTrue, TaskTrue, RequestTrue, BoundsTrue, CountsTrue,
     Reads!SlotsBalance, Reads!RegisteredWaiters, Reads!Registrations
<1>4. QED
  BY <1>2, <1>3 DEF ReadsInv

\* Only the last query serves, and it has compared the key with the row.
LEMMA OnlyCurrentServed ==
  ASSUME ReadsInv, Reads!Next
  PROVE  Reads!ServesCurrent
<1> SUFFICES ASSUME NEW r \in Readers, reader[r].at # "served", reader'[r].at = "served"
             PROVE  readEnv.ready /\ reader'[r].text = current.text
  BY DEF Reads!ServesCurrent
<1>1. reader \in [Readers -> Requests] /\ RequestTrue(reader[r])
  BY DEF ReadsInv, RequestsTrue
<1>2. PICK s \in Readers : Reads!Read(s) \/ Reads!GiveUp(s) \/ Reads!Again(s)
  <2>1. CASE Reads!Edit \/ Reads!Delete \/ Reads!BeginRestore \/ Reads!MarkReady
    BY <2>1 DEF Reads!Edit, Reads!Delete, Reads!BeginRestore, Reads!MarkReady
  <2>2. ASSUME NEW k \in Reads!Keys, Reads!Expire(k) \/ Reads!Task(k) \/ Reads!TaskExpires(k)
        PROVE  FALSE
    <3>1. CASE reader' = reader
      BY <3>1
    <3>2. ASSUME NEW o, NEW t, NEW a \in {"body", "unavailable", "not_found", "busy"},
                 Reads!Finish(k, o, a, t)
          PROVE  FALSE
      <4>1. reader'[r] = IF reader[r].at = "wait" /\ reader[r].key = k
                         THEN IF a = "body" THEN [reader[r] EXCEPT !.at = "body", !.text = t]
                              ELSE [Reads!Idle EXCEPT !.at = a]
                         ELSE reader[r]
        BY <3>2 DEF Reads!Finish
      <4>2. [reader[r] EXCEPT !.at = "body", !.text = t].at = "body"
        BY <1>1 DEF Requests
      <4>3. [Reads!Idle EXCEPT !.at = a].at = a
        BY DEF Reads!Idle
      <4>4. QED
        BY <4>1, <4>2, <4>3
    <3>3. ~Reads!Acquire(k) /\ ~Reads!Recheck(k) /\ ~Reads!FindBody(k)
      BY <3>1, <3>2 DEF Reads!Acquire, Reads!Recheck, Reads!FindBody
    <3>4. ~Reads!FindRevision(k) /\ ~Reads!Fill(k) /\ ~Reads!TaskExpires(k)
      BY <3>2 DEF Reads!FindRevision, Reads!Fill, Reads!TaskExpires
    <3>5. QED
      BY <2>2, <3>1, <3>3, <3>4 DEF Reads!Task, Reads!Expire
  <2>3. QED
    BY <2>1, <2>2 DEF Reads!Next
<1>3. \A q : reader' = [reader EXCEPT ![s] = q] => r = s /\ reader'[r] = q
  BY <1>1
<1>4. \A a : Reads!End(s, a) => a = "served"
  <2> SUFFICES ASSUME NEW a, Reads!End(s, a) PROVE a = "served"
    OBVIOUS
  <2>1. reader'[r] = [Reads!Idle EXCEPT !.at = a]
    BY <1>3 DEF Reads!End, Reads!Becomes
  <2>2. QED
    BY <2>1 DEF Reads!Idle
<1>5. Reads!Answer(s)
  <2>1. ~Reads!ReadContext(s)
    <3>1. \A k : [Reads!Idle EXCEPT !.at = "context", !.key = k].at = "context"
      BY DEF Reads!Idle
    <3>2. QED
      BY <1>3, <1>4, <3>1 DEF Reads!ReadContext, Reads!Becomes
  <2>2. ~Reads!ReadCache(s)
    BY <1>1, <1>3 DEF Reads!ReadCache, Reads!Becomes, Requests
  <2>3. ~Reads!Register(s)
    BY <1>1, <1>3, <1>4 DEF Reads!Register, Reads!Becomes, Requests
  <2>4. ~Reads!StartTask(s)
    BY <1>1, <1>3 DEF Reads!StartTask, Reads!Becomes, Requests
  <2>5. ~Reads!GiveUp(s) /\ ~Reads!Again(s)
    BY <1>3, <1>4 DEF Reads!GiveUp, Reads!Again, Reads!Becomes, Reads!Idle
  <2>6. QED
    BY <1>2, <2>1, <2>2, <2>3, <2>4, <2>5 DEF Reads!Read
<1>6. /\ reader[s].at = "body" /\ readEnv.ready /\ current.rev # 0
      /\ reader[s].key = <<readEnv.epoch, current.rev>>
      /\ Reads!Becomes(s, [reader[s] EXCEPT !.at = "served"])
  BY <1>4, <1>5 DEF Reads!Answer
<1>7. r = s /\ reader'[r] = [reader[s] EXCEPT !.at = "served"]
  BY <1>3, <1>6 DEF Reads!Becomes
<1>8. reader'[r].text = reader[r].text
  BY <1>1, <1>7 DEF Requests
<1>9. reader[r].text = texts[<<readEnv.epoch, current.rev>>]
  BY <1>1, <1>6, <1>7 DEF RequestTrue
<1>10. texts[<<readEnv.epoch, current.rev>>] = current.text
  BY <1>6 DEF ReadsInv, StoreTrue, HistoryTrue
<1>11. QED
  BY <1>6, <1>8, <1>9, <1>10

\* For any readers, keys, limits and number of faults: a text that a request, a task or
\* the cache holds is that of its key, and what is counted is what is held.
THEOREM ReadsInvariant == AllSpec => []ReadsInv
<1>1. AllInit => ReadsInv
  BY ReadsStart DEF AllInit
<1>2. ReadsInv /\ [AllNext]_allVars => ReadsInv'
  BY ReadStepKeeps, ReadsUnchanged DEF AllNext, allVars
<1>3. QED
  BY <1>1, <1>2, PTL DEF AllSpec

\* rebuild.go, service.go: a cached body is that of its revision in its epoch, no slot
\* leaks or is given back twice, and a request serves what the database holds at its
\* last query.
THEOREM ReadsStaySafe == AllSpec => ReadsSafe
<1>1. ReadsInv => Reads!TypeOK /\ Reads!CacheTrue /\ Reads!SlotsBalance
  BY ReadTypes DEF ReadsInv, StoreTrue, CountsTrue
<1>2. ReadsInv /\ [AllNext]_allVars => [Reads!ServesCurrent]_allVars
  <2> SUFFICES ASSUME ReadsInv, AllNext PROVE Reads!ServesCurrent \/ UNCHANGED allVars
    OBVIOUS
  <2>1. CASE Reads!Next
    BY <2>1, OnlyCurrentServed
  <2>2. CASE UNCHANGED readVars
    BY <2>2 DEF readVars, Reads!ServesCurrent
  <2>3. QED
    BY <2>1, <2>2 DEF AllNext
<1>3. QED
  BY <1>1, <1>2, ReadsInvariant, PTL DEF AllSpec, ReadsSafe
=============================================================================
