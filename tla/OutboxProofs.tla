---------------------------- MODULE OutboxProofs ----------------------------
(***************************************************************************)
(* Proofs about Outbox for any events, replicas, slots and publishers: the *)
(* type invariant, the two safety invariants from one inductive invariant, *)
(* and the refinement of AtLeastOnce.                                      *)
(***************************************************************************)
EXTENDS Outbox, TLAPS

\* A job is idle exactly when it has no event.
IdleIsNone == \A d \in Dispatchers, s \in Slots :
                job[d][s].stage = "idle" <=> job[d][s].event = None

\* A job past the broker's answer carries an event the broker took.
RoutedWasAccepted == \A d \in Dispatchers, s \in Slots :
                       job[d][s].stage \in {"routed", "confirmed"} => job[d][s].event \in accepted

\* Only committed events are in jobs or on their way to the broker.
OnlyCommitted == /\ \A d \in Dispatchers, s \in Slots :
                      job[d][s].event # None => status[job[d][s].event] # "absent"
                 /\ \A e \in adrift : status[e] # "absent"

\* Before the first overrun every job still holds the lease of its event.
JobsHoldLeases == ~overrun => \A d \in Dispatchers, s \in Slots :
                                job[d][s].event # None => Holds(d, job[d][s].event)

IInv == /\ TypeOK
        /\ IdleIsNone
        /\ RoutedWasAccepted
        /\ OnlyCommitted
        /\ SettledWasAccepted
        /\ JobsHoldLeases
        /\ ExclusiveWithinLease

USE OutboxAssumption

\* The initial states satisfy the invariant.
LEMMA InitIInv == Init => IInv
<1> SUFFICES ASSUME Init PROVE IInv
  OBVIOUS
<1>1. NoJob \in Jobs
  BY DEF NoJob, Jobs, Stages
<1>2. job \in [Dispatchers -> [Slots -> Jobs]]
  BY <1>1 DEF Init
<1>3. \A d \in Dispatchers, s \in Slots : job[d][s].event = None /\ job[d][s].stage = "idle"
  BY DEF Init, NoJob
<1>4. TypeOK
  BY <1>2 DEF Init, TypeOK, Statuses, Branches
<1>5. QED
  BY <1>3, <1>4 DEF Init, IInv, IdleIsNone, RoutedWasAccepted, OnlyCommitted,
                    SettledWasAccepted, JobsHoldLeases, ExclusiveWithinLease

-----------------------------------------------------------------------------
(* What the updates of job do                                               *)

\* Replacing what all slots of one dispatcher do leaves the other dispatchers alone.
LEMMA AllSlots ==
  ASSUME TypeOK, NEW d \in Dispatchers, NEW f \in [Slots -> Jobs],
         job' = [job EXCEPT ![d] = f]
  PROVE  /\ job' \in [Dispatchers -> [Slots -> Jobs]]
         /\ job'[d] = f
         /\ \A x \in Dispatchers : x # d => job'[x] = job[x]
  BY DEF TypeOK

\* The empty job.
LEMMA NoJobShape == NoJob \in Jobs /\ NoJob.event = None /\ NoJob.stage = "idle"
  BY DEF NoJob, Jobs, Stages

\* A job is a record of its event and its stage.
LEMMA JobShapes ==
  ASSUME NEW e \in Events \cup {None}, NEW st \in Stages
  PROVE  /\ [event |-> e, stage |-> st] \in Jobs
         /\ [event |-> e, stage |-> st].event = e
         /\ [event |-> e, stage |-> st].stage = st
  BY DEF Jobs

\* What the fields of a job range over.
LEMMA JobFields ==
  ASSUME TypeOK, NEW d \in Dispatchers, NEW s \in Slots
  PROVE  job[d][s].event \in Events \cup {None} /\ job[d][s].stage \in Stages
  BY DEF TypeOK, Jobs

\* Advance changes the stage of one slot and keeps its event.
LEMMA AdvanceEffect ==
  ASSUME TypeOK, NEW d \in Dispatchers, NEW s \in Slots, NEW st \in Stages, Advance(d, s, st)
  PROVE  /\ job' \in [Dispatchers -> [Slots -> Jobs]]
         /\ job'[d][s].event = job[d][s].event
         /\ job'[d][s].stage = st
         /\ \A x \in Dispatchers, y \in Slots : x # d \/ y # s => job'[x][y] = job[x][y]
<1>1. job[d][s].event \in Events \cup {None}
  BY JobFields
<1> DEFINE j == [event |-> job[d][s].event, stage |-> st]
<1>2. j \in Jobs /\ j.event = job[d][s].event /\ j.stage = st
  BY <1>1, JobShapes
<1>3. job' = [job EXCEPT ![d][s] = j]
  BY DEF Advance
<1> HIDE DEF j
<1>4. /\ job' \in [Dispatchers -> [Slots -> Jobs]]
      /\ job'[d][s] = j
      /\ \A x \in Dispatchers, y \in Slots : x # d \/ y # s => job'[x][y] = job[x][y]
  BY <1>2, <1>3 DEF TypeOK
<1>5. QED
  BY <1>2, <1>4

\* Finish empties one slot.
LEMMA FinishEffect ==
  ASSUME TypeOK, NEW d \in Dispatchers, NEW s \in Slots, Finish(d, s)
  PROVE  /\ job' \in [Dispatchers -> [Slots -> Jobs]]
         /\ job'[d][s] = NoJob
         /\ \A x \in Dispatchers, y \in Slots : x # d \/ y # s => job'[x][y] = job[x][y]
<1>1. job' = [job EXCEPT ![d][s] = NoJob]
  BY DEF Finish
<1>2. QED
  BY <1>1, NoJobShape DEF TypeOK

\* Acknowledged or abandoned slots are emptied together.
LEMMA EmptyEffect ==
  ASSUME TypeOK, NEW d \in Dispatchers, NEW B \in SUBSET Slots,
         job' = [job EXCEPT ![d] = [s \in Slots |-> IF s \in B THEN NoJob ELSE job[d][s]]]
  PROVE  /\ job' \in [Dispatchers -> [Slots -> Jobs]]
         /\ \A y \in B : job'[d][y] = NoJob
         /\ \A x \in Dispatchers, y \in Slots : x # d \/ y \notin B => job'[x][y] = job[x][y]
<1> DEFINE f == [s \in Slots |-> IF s \in B THEN NoJob ELSE job[d][s]]
<1>1. f \in [Slots -> Jobs]
  BY NoJobShape DEF TypeOK
<1>2. \A y \in Slots : f[y] = IF y \in B THEN NoJob ELSE job[d][y]
  OBVIOUS
<1>3. job' = [job EXCEPT ![d] = f]
  OBVIOUS
<1> HIDE DEF f
<1>4. QED
  BY <1>1, <1>2, <1>3, AllSlots

\* A claim puts each of its events into a free slot of its own and changes no other slot.
LEMMA ClaimEffect ==
  ASSUME TypeOK, IdleIsNone, NEW d \in Dispatchers, NEW S \in SUBSET Events, Claim(d, S)
  PROVE  /\ job' \in [Dispatchers -> [Slots -> Jobs]]
         /\ \A x \in Dispatchers : x # d => job'[x] = job[x]
         /\ \A y \in Slots : \/ job'[d][y] = job[d][y]
                             \/ /\ job[d][y].stage = "idle"
                                /\ job'[d][y].event \in S
                                /\ job'[d][y].stage = "queued"
         /\ \A y, z \in Slots : /\ job'[d][y].event = job'[d][z].event
                                /\ job'[d][y].event \in S
                                /\ job[d][y].event \notin S
                                /\ job[d][z].event \notin S
                                => y = z
<1>1. PICK place \in Injection(S, Free(d)) :
        job' = [job EXCEPT ![d] = [s \in Slots |->
                 IF \E e \in S : place[e] = s
                 THEN [event |-> CHOOSE e \in S : place[e] = s, stage |-> "queued"]
                 ELSE job[d][s]]]
  BY DEF Claim
<1>2. /\ place \in [S -> Free(d)]
      /\ \A a, b \in S : place[a] = place[b] => a = b
  BY DEF Injection, IsInjective
<1> DEFINE At(s) == CHOOSE e \in S : place[e] = s
           f == [s \in Slots |-> IF \E e \in S : place[e] = s
                                 THEN [event |-> At(s), stage |-> "queued"]
                                 ELSE job[d][s]]
<1>3. \A y \in Slots : (\E e \in S : place[e] = y) => At(y) \in S /\ place[At(y)] = y
  OBVIOUS
<1> HIDE DEF At
<1>4. "queued" \in Stages
  BY DEF Stages
<1>5. \A y \in Slots : (\E e \in S : place[e] = y)
        => f[y] \in Jobs /\ f[y].event = At(y) /\ f[y].stage = "queued"
  BY <1>3, <1>4, JobShapes
<1>6. \A y \in Slots : ~(\E e \in S : place[e] = y) => f[y] = job[d][y] /\ f[y] \in Jobs
  BY DEF TypeOK
<1>7. f \in [Slots -> Jobs]
  BY <1>5, <1>6
<1>8. job' = [job EXCEPT ![d] = f]
  BY <1>1 DEF At
<1> HIDE DEF f
<1>9. /\ job' \in [Dispatchers -> [Slots -> Jobs]]
      /\ job'[d] = f
      /\ \A x \in Dispatchers : x # d => job'[x] = job[x]
  BY <1>7, <1>8, AllSlots
<1>10. \A y \in Slots : (\E e \in S : place[e] = y) => job[d][y].stage = "idle"
  BY <1>2 DEF Free
<1>11. \A y, z \in Slots : /\ f[y].event = f[z].event
                           /\ f[y].event \in S
                           /\ job[d][y].event \notin S
                           /\ job[d][z].event \notin S
                           => y = z
  BY <1>3, <1>5, <1>6
<1>12. QED
  BY <1>3, <1>5, <1>6, <1>9, <1>10, <1>11

-----------------------------------------------------------------------------
(* The inductive invariant, action by action                                *)

\* Committing an event and the passing of backoffs and retentions touch no job.
LEMMA RowSteps ==
  ASSUME IInv, NEW e \in Events, Submit(e) \/ BackoffElapses(e) \/ RetentionElapses(e)
  PROVE  IInv'
<1> USE DEF IInv
<1>1. TypeOK'
  BY DEF TypeOK, Submit, BackoffElapses, RetentionElapses, Statuses
<1>2. /\ job' = job /\ accepted' = accepted /\ adrift' = adrift /\ overrun' = overrun
      /\ owner' = owner /\ lapsed' = lapsed
      /\ \A x \in Events : \/ status'[x] = status[x]
                           \/ status[x] = "absent" /\ status'[x] = "pending"
  BY DEF TypeOK, Submit, BackoffElapses, RetentionElapses
<1>3. IdleIsNone' /\ RoutedWasAccepted' /\ ExclusiveWithinLease'
  BY <1>2 DEF IdleIsNone, RoutedWasAccepted, ExclusiveWithinLease
<1>4. \A d \in Dispatchers, s \in Slots : job[d][s].event \in Events \cup {None}
  BY JobFields
<1>5. OnlyCommitted' /\ SettledWasAccepted' /\ JobsHoldLeases'
  BY <1>2, <1>4 DEF OnlyCommitted, SettledWasAccepted, JobsHoldLeases, Holds, TypeOK
<1>6. QED
  BY <1>1, <1>3, <1>5

\* A lease that lapses under a job is an overrun.
LEMMA LapseStep ==
  ASSUME IInv, NEW e \in Events, LeaseLapses(e)
  PROVE  IInv'
<1> USE DEF IInv
<1>1. TypeOK'
  BY DEF TypeOK, LeaseLapses, Held
<1>2. /\ job' = job /\ accepted' = accepted /\ adrift' = adrift
      /\ owner' = owner /\ status' = status
      /\ \A x \in Events : x # e => lapsed'[x] = lapsed[x]
      /\ overrun' = (overrun \/ Held(e))
  BY DEF TypeOK, LeaseLapses
<1>3. IdleIsNone' /\ RoutedWasAccepted' /\ OnlyCommitted' /\ SettledWasAccepted'
  BY <1>2 DEF IdleIsNone, RoutedWasAccepted, OnlyCommitted, SettledWasAccepted
<1>7. ExclusiveWithinLease'
  <2>1. CASE overrun'
    BY <2>1 DEF ExclusiveWithinLease
  <2>2. CASE ~overrun'
    <3>1. ~overrun
      BY <1>2, <2>2
    <3>2. QED
      BY <1>2, <3>1 DEF ExclusiveWithinLease
  <2>3. QED
    BY <2>1, <2>2
<1>4. \A d \in Dispatchers, s \in Slots : job[d][s].event \in Events \cup {None}
  BY JobFields
<1>5. JobsHoldLeases'
  <2> SUFFICES ASSUME ~overrun', NEW d \in Dispatchers, NEW s \in Slots,
                      job[d][s].event # None
               PROVE  Holds(d, job[d][s].event)'
    BY <1>2 DEF JobsHoldLeases
  <2>1. ~overrun /\ ~Held(e)
    BY <1>2
  <2>2. Holds(d, job[d][s].event) /\ job[d][s].event # e /\ job[d][s].event \in Events
    BY <1>4, <2>1 DEF JobsHoldLeases, Held
  <2>3. QED
    BY <1>2, <2>2 DEF Holds
<1>6. QED
  BY <1>1, <1>3, <1>5, <1>7

\* Messages that arrive late only add to what the broker has taken.
LEMMA LateAcceptStep ==
  ASSUME IInv, NEW e \in Events, LateAccept(e)
  PROVE  IInv'
  BY DEF IInv, LateAccept, TypeOK, IdleIsNone, RoutedWasAccepted, OnlyCommitted,
         SettledWasAccepted, JobsHoldLeases, ExclusiveWithinLease, Holds, rowVars

\* The cleanup takes published rows only, which no job holds before an overrun.
LEMMA CleanupStep ==
  ASSUME IInv, NEW S \in SUBSET Events, CleanupPublished(S)
  PROVE  IInv'
<1> USE DEF IInv
<1>1. TypeOK'
  BY DEF TypeOK, CleanupPublished, Statuses
<1>2. /\ job' = job /\ accepted' = accepted /\ adrift' = adrift /\ overrun' = overrun
      /\ owner' = owner /\ lapsed' = lapsed
      /\ \A x \in Events : \/ status'[x] = status[x]
                           \/ status[x] = "published" /\ status'[x] = "deleted"
  BY DEF TypeOK, CleanupPublished
<1>3. IdleIsNone' /\ RoutedWasAccepted' /\ ExclusiveWithinLease'
  BY <1>2 DEF IdleIsNone, RoutedWasAccepted, ExclusiveWithinLease
<1>4. \A d \in Dispatchers, s \in Slots : job[d][s].event \in Events \cup {None}
  BY JobFields
<1>5. OnlyCommitted' /\ SettledWasAccepted' /\ JobsHoldLeases'
  BY <1>2, <1>4 DEF OnlyCommitted, SettledWasAccepted, JobsHoldLeases, Holds, TypeOK
<1>6. QED
  BY <1>1, <1>3, <1>5

\* What the lease update of a claim does to the rows.
LEMMA LeaseEffect ==
  ASSUME TypeOK, NEW d \in Dispatchers, NEW S \in SUBSET Events,
         NEW n, S \in {{}} \cup Batches(turn[d], n), Lease(d, S)
  PROVE  /\ status' \in [Events -> Statuses]
         /\ owner' \in [Events -> Dispatchers \cup {None}]
         /\ lapsed' \in [Events -> BOOLEAN]
         /\ \A x \in S : /\ status[x] = "pending" \/ (status[x] = "leased" /\ lapsed[x])
                         /\ status'[x] = "leased" /\ owner'[x] = d /\ ~lapsed'[x]
         /\ \A x \in Events \ S : /\ status'[x] = status[x] /\ owner'[x] = owner[x]
                                  /\ lapsed'[x] = lapsed[x]
<1>1. \A x \in S : status[x] = "pending" \/ (status[x] = "leased" /\ lapsed[x])
  BY DEF Batches, Claimable
<1>2. QED
  BY <1>1 DEF Lease, TypeOK, Statuses

\* Taking the other branch next keeps the turns in their type.
LEMMA TurnType ==
  ASSUME TypeOK, NEW d \in Dispatchers, NextTurn(d)
  PROVE  turn' \in [Dispatchers -> Branches]
  BY DEF TypeOK, NextTurn, Other, Branches

\* A claim takes rows no job holds, unless a lease was overrun.
LEMMA ClaimStep ==
  ASSUME IInv, NEW d \in Dispatchers, NEW S \in SUBSET Events, Claim(d, S)
  PROVE  IInv'
<1> USE DEF IInv
<1>1. /\ job' \in [Dispatchers -> [Slots -> Jobs]]
      /\ \A x \in Dispatchers : x # d => job'[x] = job[x]
      /\ \A y \in Slots : \/ job'[d][y] = job[d][y]
                          \/ /\ job[d][y].stage = "idle"
                             /\ job'[d][y].event \in S
                             /\ job'[d][y].stage = "queued"
      /\ \A y, z \in Slots : /\ job'[d][y].event = job'[d][z].event
                             /\ job'[d][y].event \in S
                             /\ job[d][y].event \notin S
                             /\ job[d][z].event \notin S
                             => y = z
  BY ClaimEffect
<1>2. /\ status' \in [Events -> Statuses]
      /\ owner' \in [Events -> Dispatchers \cup {None}]
      /\ lapsed' \in [Events -> BOOLEAN]
      /\ \A x \in S : /\ status[x] = "pending" \/ (status[x] = "leased" /\ lapsed[x])
                      /\ status'[x] = "leased" /\ owner'[x] = d /\ ~lapsed'[x]
      /\ \A x \in Events \ S : /\ status'[x] = status[x] /\ owner'[x] = owner[x]
                               /\ lapsed'[x] = lapsed[x]
  BY LeaseEffect DEF Claim
<1>3. turn' \in [Dispatchers -> Branches]
  BY TurnType DEF Claim
<1>4. /\ due' = due /\ aged' = aged /\ accepted' = accepted /\ adrift' = adrift
      /\ up' = up /\ overrun' = overrun
  BY DEF Claim
<1>5. TypeOK'
  BY <1>1, <1>2, <1>3, <1>4 DEF TypeOK
<1>6. \A x \in Dispatchers, y \in Slots : job[x][y].event \in Events \cup {None}
  BY JobFields
<1>7. IdleIsNone'
  BY <1>1 DEF IdleIsNone
<1>8. RoutedWasAccepted'
  BY <1>1, <1>4 DEF RoutedWasAccepted
<1>9. \A x \in Dispatchers, y \in Slots :
        \/ job'[x][y] = job[x][y]
        \/ x = d /\ job[x][y].event = None /\ job'[x][y].event \in S
  BY <1>1 DEF IdleIsNone
<1>10. OnlyCommitted'
  BY <1>2, <1>4, <1>6, <1>9 DEF OnlyCommitted, TypeOK
<1>11. SettledWasAccepted'
  BY <1>2, <1>4 DEF SettledWasAccepted
<1>12. ~overrun => \A x \in Dispatchers, y \in Slots : job[x][y].event \notin S
  BY <1>2 DEF JobsHoldLeases, Holds
<1>13. JobsHoldLeases'
  BY <1>2, <1>4, <1>6, <1>9, <1>12 DEF JobsHoldLeases, Holds
<1>14. ExclusiveWithinLease'
  <2> SUFFICES ASSUME ~overrun', NEW d1 \in Dispatchers, NEW d2 \in Dispatchers,
                      NEW s1 \in Slots, NEW s2 \in Slots,
                      job'[d1][s1].event = job'[d2][s2].event, job'[d1][s1].event # None
               PROVE  d1 = d2 /\ s1 = s2
    BY DEF ExclusiveWithinLease
  <2>1. CASE job'[d1][s1].event \in S
    BY <1>1, <1>4, <1>9, <1>12, <2>1
  <2>2. CASE job'[d1][s1].event \notin S
    BY <1>4, <1>9, <2>2 DEF ExclusiveWithinLease
  <2>3. QED
    BY <2>1, <2>2
<1>15. QED
  BY <1>5, <1>7, <1>8, <1>10, <1>11, <1>13, <1>14
\* Steps of one slot's job keep every job on the event it has, or empty it.
JobSteps == \A x \in Dispatchers, y \in Slots :
              \/ job'[x][y].event = job[x][y].event
              \/ job'[x][y].event = None

\* No job takes up a new event: what such a step preserves whatever else it does.
LEMMA NoNewWork ==
  ASSUME IInv, JobSteps, UNCHANGED <<overrun>>
  PROVE  ExclusiveWithinLease'
<1> SUFFICES ASSUME ~overrun', NEW d1 \in Dispatchers, NEW d2 \in Dispatchers,
                    NEW s1 \in Slots, NEW s2 \in Slots,
                    job'[d1][s1].event = job'[d2][s2].event, job'[d1][s1].event # None
             PROVE  d1 = d2 /\ s1 = s2
  BY DEF ExclusiveWithinLease
<1>1. job[d1][s1].event = job[d2][s2].event /\ job[d1][s1].event # None
  BY DEF JobSteps
<1>2. QED
  BY <1>1 DEF IInv, ExclusiveWithinLease

\* A worker's step: the slot's job advances and the rows stay as they are.
LEMMA AdvanceStep ==
  ASSUME IInv, NEW d \in Dispatchers, NEW s \in Slots, NEW st \in Stages,
         Advance(d, s, st), st # "idle", job[d][s].stage # "idle",
         accepted \subseteq accepted', accepted' \subseteq Events,
         adrift' \subseteq adrift \cup {job[d][s].event},
         st \in {"routed", "confirmed"} => job[d][s].event \in accepted',
         UNCHANGED <<rowVars, up, turn, overrun>>
  PROVE  IInv'
<1> USE DEF IInv
<1>1. /\ job' \in [Dispatchers -> [Slots -> Jobs]]
      /\ job'[d][s].event = job[d][s].event
      /\ job'[d][s].stage = st
      /\ \A x \in Dispatchers, y \in Slots : x # d \/ y # s => job'[x][y] = job[x][y]
  BY AdvanceEffect
<1>2. job[d][s].event \in Events
  BY JobFields DEF IdleIsNone
<1>3. TypeOK'
  BY <1>1, <1>2 DEF TypeOK, rowVars
<1>4. IdleIsNone'
  BY <1>1 DEF IdleIsNone
<1>5. RoutedWasAccepted'
  BY <1>1 DEF RoutedWasAccepted
<1>6. \A x \in Dispatchers, y \in Slots : job'[x][y].event = job[x][y].event
  BY <1>1
<1>7. OnlyCommitted'
  BY <1>2, <1>6 DEF OnlyCommitted, IdleIsNone, rowVars
<1>8. SettledWasAccepted'
  BY DEF SettledWasAccepted, rowVars
<1>9. JobsHoldLeases'
  BY <1>6 DEF JobsHoldLeases, Holds, rowVars
<1>10. ExclusiveWithinLease'
  BY <1>6, NoNewWork DEF JobSteps
<1>11. QED
  BY <1>3, <1>4, <1>5, <1>7, <1>8, <1>9, <1>10

\* Workers: taking a job, the broker's answer, and its absence.
LEMMA WorkerSteps ==
  ASSUME IInv, NEW d \in Dispatchers, NEW s \in Slots,
         \/ StartPublish(d, s) \/ BrokerAccepts(d, s)
         \/ PublishConfirmed(d, s) \/ PublishFails(d, s)
  PROVE  IInv'
<1>1. {"queued", "publishing", "routed", "confirmed", "failed"} \subseteq Stages
  BY DEF Stages
<1>2. job[d][s].event \in Events
  BY JobFields DEF IInv, IdleIsNone, StartPublish, BrokerAccepts, PublishConfirmed, PublishFails
<1>3. accepted \subseteq Events /\ adrift \subseteq Events
  BY DEF IInv, TypeOK
<1>4. CASE StartPublish(d, s)
  <2>1. PICK st \in {"failed", "publishing"} : Advance(d, s, st)
    BY <1>4 DEF StartPublish
  <2>2. job[d][s].stage = "queued" /\ UNCHANGED <<rowVars, brokerVars, up, turn, overrun>>
    BY <1>4 DEF StartPublish
  <2>3. QED
    BY <1>1, <1>3, <2>1, <2>2, AdvanceStep DEF brokerVars
<1>5. CASE BrokerAccepts(d, s)
  BY <1>1, <1>2, <1>3, <1>5, AdvanceStep DEF BrokerAccepts
<1>6. CASE PublishConfirmed(d, s)
  <2>1. job[d][s].event \in accepted
    BY <1>6 DEF PublishConfirmed, IInv, RoutedWasAccepted
  <2>2. QED
    BY <1>1, <1>3, <1>6, <2>1, AdvanceStep DEF PublishConfirmed, brokerVars
<1>7. CASE PublishFails(d, s)
  BY <1>1, <1>3, <1>7, AdvanceStep DEF PublishFails
<1>8. QED
  BY <1>4, <1>5, <1>6, <1>7

\* The slots outside B keep their jobs and the slots in B are emptied.
Emptied(d, B) ==
  /\ job' \in [Dispatchers -> [Slots -> Jobs]]
  /\ \A y \in B : job'[d][y] = NoJob
  /\ \A x \in Dispatchers, y \in Slots : x # d \/ y \notin B => job'[x][y] = job[x][y]

\* What holds of the jobs when some of them end.
LEMMA EmptiedJobs ==
  ASSUME IInv, NEW d \in Dispatchers, NEW B \in SUBSET Slots, Emptied(d, B),
         accepted \subseteq accepted', UNCHANGED <<overrun>>
  PROVE  /\ IdleIsNone' /\ RoutedWasAccepted' /\ ExclusiveWithinLease'
         /\ \A x \in Dispatchers, y \in Slots :
              job'[x][y].event # None =>
                job'[x][y].event = job[x][y].event /\ (x # d \/ y \notin B)
<1>1. \A y \in B : job'[d][y].event = None /\ job'[d][y].stage = "idle"
  BY NoJobShape DEF Emptied
<1>2. \A x \in Dispatchers, y \in Slots : x # d \/ y \notin B => job'[x][y] = job[x][y]
  BY DEF Emptied
<1>3. IdleIsNone' /\ RoutedWasAccepted'
  BY <1>1, <1>2 DEF IInv, IdleIsNone, RoutedWasAccepted
<1>4. \A x \in Dispatchers, y \in Slots :
        job'[x][y].event # None =>
          job'[x][y].event = job[x][y].event /\ (x # d \/ y \notin B)
  BY <1>1, <1>2
<1>5. ExclusiveWithinLease'
  BY <1>4, NoNewWork DEF JobSteps
<1>6. QED
  BY <1>3, <1>4, <1>5

\* Jobs that end without touching a row.
LEMMA AbandonStep ==
  ASSUME IInv, NEW d \in Dispatchers, NEW B \in SUBSET Slots, Emptied(d, B),
         UNCHANGED <<rowVars, accepted, overrun>>,
         turn' \in [Dispatchers -> Branches], up' \in [Dispatchers -> BOOLEAN],
         adrift' \subseteq Events, \A e \in adrift' : status[e] # "absent"
  PROVE  IInv'
<1> USE DEF IInv
<1>1. /\ IdleIsNone' /\ RoutedWasAccepted' /\ ExclusiveWithinLease'
      /\ \A x \in Dispatchers, y \in Slots :
           job'[x][y].event # None =>
             job'[x][y].event = job[x][y].event /\ (x # d \/ y \notin B)
  BY EmptiedJobs
<1>2. TypeOK'
  BY DEF TypeOK, rowVars, Emptied
<1>3. OnlyCommitted' /\ SettledWasAccepted' /\ JobsHoldLeases'
  BY <1>1 DEF OnlyCommitted, SettledWasAccepted, JobsHoldLeases, Holds, rowVars
<1>4. QED
  BY <1>1, <1>2, <1>3

\* A failed job ends; if it still holds the lease, its row goes back to pending.
LEMMA ReleaseSteps ==
  ASSUME IInv, NEW d \in Dispatchers, NEW s \in Slots,
         ReleaseFailed(d, s) \/ ReleaseErrs(d, s)
  PROVE  IInv'
<1> USE DEF IInv
<1>1. Finish(d, s)
  BY DEF ReleaseFailed, ReleaseErrs
<1>2. Emptied(d, {s})
  BY <1>1, FinishEffect DEF Emptied
<1>3. job[d][s].event \in Events
  BY JobFields DEF IdleIsNone, ReleaseFailed, ReleaseErrs
<1>4. CASE ReleaseErrs(d, s)
  BY <1>2, <1>4, AbandonStep DEF ReleaseErrs, brokerVars, TypeOK, OnlyCommitted
<1>5. CASE ReleaseFailed(d, s)
  <2> DEFINE e == job[d][s].event
  <2>1. CASE ~Holds(d, e)
    <3>1. UNCHANGED <<rowVars, brokerVars, up, turn, overrun>>
      BY <1>5, <2>1 DEF ReleaseFailed, rowVars, brokerVars
    <3>2. QED
      BY <1>2, <3>1, AbandonStep DEF brokerVars, TypeOK, OnlyCommitted
  <2>2. CASE Holds(d, e)
    <3>1. /\ status' = [status EXCEPT ![e] = "pending"]
          /\ owner' = [owner EXCEPT ![e] = None]
          /\ due' = [due EXCEPT ![e] = FALSE]
          /\ UNCHANGED <<lapsed, aged, accepted, adrift, up, turn, overrun>>
      BY <1>5, <2>2 DEF ReleaseFailed
    <3>2. /\ IdleIsNone' /\ RoutedWasAccepted' /\ ExclusiveWithinLease'
          /\ \A x \in Dispatchers, y \in Slots :
               job'[x][y].event # None =>
                 job'[x][y].event = job[x][y].event /\ (x # d \/ y \notin {s})
      BY <1>2, <3>1, EmptiedJobs
    <3>3. TypeOK'
      BY <1>2, <1>3, <3>1 DEF TypeOK, Statuses, Emptied
    <3>4. \A x \in Events : /\ x # e => status'[x] = status[x] /\ owner'[x] = owner[x]
                            /\ status'[e] = "pending"
      BY <1>3, <3>1 DEF TypeOK
    <3>5. \A x \in Dispatchers, y \in Slots : job[x][y].event \in Events \cup {None}
      BY JobFields
    <3>6. adrift \subseteq Events
      BY DEF TypeOK
    <3>7. OnlyCommitted' /\ SettledWasAccepted'
      BY <3>1, <3>2, <3>4, <3>5, <3>6 DEF OnlyCommitted, SettledWasAccepted
    <3>8. JobsHoldLeases'
      <4> SUFFICES ASSUME ~overrun', NEW x \in Dispatchers, NEW y \in Slots,
                          job'[x][y].event # None
                   PROVE  Holds(x, job[x][y].event)'
        BY DEF JobsHoldLeases
      <4>1. job'[x][y].event = job[x][y].event /\ (x # d \/ y # s) /\ ~overrun
        BY <3>1, <3>2
      <4>2. job[x][y].event # e
        BY <4>1 DEF ExclusiveWithinLease
      <4>3. Holds(x, job[x][y].event) /\ job[x][y].event \in Events
        BY <3>5, <4>1 DEF JobsHoldLeases
      <4>4. QED
        BY <3>1, <3>4, <4>1, <4>2, <4>3 DEF Holds
    <3>9. QED
      BY <3>2, <3>3, <3>7, <3>8
  <2>3. QED
    BY <2>1, <2>2
<1>6. QED
  BY <1>4, <1>5

\* Acknowledged jobs end; the rows they still hold were taken by the broker.
LEMMA FlushSteps ==
  ASSUME IInv, NEW d \in Dispatchers, NEW B \in SUBSET Slots,
         Flush(d, B) \/ FlushFails(d, B)
  PROVE  IInv'
<1> USE DEF IInv
<1>1. job' = [job EXCEPT ![d] = [s \in Slots |-> IF s \in B THEN NoJob ELSE job[d][s]]]
  BY DEF Flush, FlushFails
<1>2. Emptied(d, B)
  BY <1>1, EmptyEffect DEF Emptied
<1>3. CASE FlushFails(d, B)
  BY <1>2, <1>3, AbandonStep DEF FlushFails, brokerVars, TypeOK, OnlyCommitted
<1>4. CASE Flush(d, B)
  <2> DEFINE C == Current(d, B)
  <2>1. \A s \in B : job[d][s].stage = "confirmed"
    BY <1>4 DEF Flush
  <2>2. \A e \in C : \E s \in B : e = job[d][s].event /\ Holds(d, e)
    BY DEF Current
  <2>3. \A e \in C : e \in accepted
    BY <2>1, <2>2 DEF RoutedWasAccepted
  <2> HIDE DEF C
  <2>4. /\ status' = [e \in Events |-> IF e \in C THEN "published" ELSE status[e]]
        /\ owner' = [e \in Events |-> IF e \in C THEN None ELSE owner[e]]
        /\ UNCHANGED <<due, lapsed, aged, accepted, adrift, up, turn, overrun>>
    BY <1>4 DEF Flush, C
  <2>5. /\ IdleIsNone' /\ RoutedWasAccepted' /\ ExclusiveWithinLease'
        /\ \A x \in Dispatchers, y \in Slots :
             job'[x][y].event # None =>
               job'[x][y].event = job[x][y].event /\ (x # d \/ y \notin B)
    BY <1>2, <2>4, EmptiedJobs
  <2>6. TypeOK'
    BY <1>2, <2>4 DEF TypeOK, Statuses, Emptied
  <2>7. \A x \in Dispatchers, y \in Slots : job[x][y].event \in Events \cup {None}
    BY JobFields
  <2>8. adrift \subseteq Events
    BY DEF TypeOK
  <2>9. OnlyCommitted' /\ SettledWasAccepted'
    BY <2>3, <2>4, <2>5, <2>7, <2>8 DEF OnlyCommitted, SettledWasAccepted
  <2>10. JobsHoldLeases'
    <3> SUFFICES ASSUME ~overrun', NEW x \in Dispatchers, NEW y \in Slots,
                        job'[x][y].event # None
                 PROVE  Holds(x, job[x][y].event)'
      BY DEF JobsHoldLeases
    <3>1. job'[x][y].event = job[x][y].event /\ (x # d \/ y \notin B) /\ ~overrun
      BY <2>4, <2>5
    <3>2. job[x][y].event \notin C
      BY <2>2, <3>1 DEF ExclusiveWithinLease
    <3>3. Holds(x, job[x][y].event) /\ job[x][y].event \in Events
      BY <2>7, <3>1 DEF JobsHoldLeases
    <3>4. QED
      BY <2>4, <3>1, <3>2, <3>3 DEF Holds
  <2>11. QED
    BY <2>5, <2>6, <2>9, <2>10
<1>5. QED
  BY <1>3, <1>4

\* A replica that stops drops its jobs; what it had sent may still arrive.
LEMMA StopStep ==
  ASSUME IInv, NEW d \in Dispatchers, Stop(d)
  PROVE  IInv'
<1> USE DEF IInv
<1> DEFINE f == [s \in Slots |-> NoJob]
<1>1. f \in [Slots -> Jobs] /\ \A y \in Slots : f[y] = NoJob
  BY NoJobShape
<1>2. job' = [job EXCEPT ![d] = f]
  BY DEF Stop
<1> HIDE DEF f
<1>3. Emptied(d, Slots)
  BY <1>1, <1>2, AllSlots DEF Emptied
<1>4. \A y \in Slots : job[d][y].stage = "publishing" =>
        job[d][y].event \in Events /\ status[job[d][y].event] # "absent"
  BY JobFields DEF IdleIsNone, OnlyCommitted
<1>5. adrift' \subseteq Events /\ \A e \in adrift' : status[e] # "absent"
  BY <1>4 DEF Stop, TypeOK, OnlyCommitted
<1>6. /\ UNCHANGED <<rowVars, accepted, turn, overrun>>
      /\ turn' \in [Dispatchers -> Branches] /\ up' \in [Dispatchers -> BOOLEAN]
  BY DEF Stop, TypeOK
<1>7. QED
  BY <1>3, <1>5, <1>6, AbandonStep

\* A replica that starts has no jobs and scans pending rows first.
LEMMA RestartStep ==
  ASSUME IInv, NEW d \in Dispatchers, Restart(d)
  PROVE  IInv'
<1>1. /\ UNCHANGED <<rowVars, brokerVars, job, overrun>>
      /\ turn' \in [Dispatchers -> Branches] /\ up' \in [Dispatchers -> BOOLEAN]
  BY DEF Restart, IInv, TypeOK, Branches
<1>2. Emptied(d, {})
  BY <1>1 DEF Emptied, IInv, TypeOK
<1>3. QED
  BY <1>1, <1>2, AbandonStep DEF IInv, TypeOK, OnlyCommitted, brokerVars
\* Claiming without learning of it leases rows that no job holds.
LEMMA ClaimFailsStep ==
  ASSUME IInv, NEW d \in Dispatchers, NEW S \in SUBSET Events, ClaimFails(d, S)
  PROVE  IInv'
<1> USE DEF IInv
<1>1. /\ status' \in [Events -> Statuses]
      /\ owner' \in [Events -> Dispatchers \cup {None}]
      /\ lapsed' \in [Events -> BOOLEAN]
      /\ \A x \in S : /\ status[x] = "pending" \/ (status[x] = "leased" /\ lapsed[x])
                      /\ status'[x] = "leased" /\ owner'[x] = d /\ ~lapsed'[x]
      /\ \A x \in Events \ S : /\ status'[x] = status[x] /\ owner'[x] = owner[x]
                               /\ lapsed'[x] = lapsed[x]
  BY LeaseEffect DEF ClaimFails
<1>2. turn' \in [Dispatchers -> Branches]
  BY TurnType DEF ClaimFails
<1>3. UNCHANGED <<due, aged, accepted, adrift, up, job, overrun>>
  BY DEF ClaimFails
<1>4. TypeOK'
  BY <1>1, <1>2, <1>3 DEF TypeOK
<1>5. IdleIsNone' /\ RoutedWasAccepted' /\ ExclusiveWithinLease'
  BY <1>3 DEF IdleIsNone, RoutedWasAccepted, ExclusiveWithinLease
<1>6. \A x \in Dispatchers, y \in Slots : job[x][y].event \in Events \cup {None}
  BY JobFields
<1>7. OnlyCommitted' /\ SettledWasAccepted'
  BY <1>1, <1>3, <1>6 DEF OnlyCommitted, SettledWasAccepted, TypeOK
<1>8. JobsHoldLeases'
  <2>1. ~overrun => \A x \in Dispatchers, y \in Slots : job[x][y].event \notin S
    BY <1>1 DEF JobsHoldLeases, Holds
  <2>2. QED
    BY <1>1, <1>3, <1>6, <2>1 DEF JobsHoldLeases, Holds
<1>9. QED
  BY <1>4, <1>5, <1>7, <1>8

\* Every step of every replica, of the clock and of the broker keeps the invariant.
LEMMA IInvStep == IInv /\ [Next]_vars => IInv'
<1> SUFFICES ASSUME IInv, [Next]_vars PROVE IInv'
  OBVIOUS
<1>1. CASE UNCHANGED vars
  BY <1>1 DEF vars, IInv, TypeOK, IdleIsNone, RoutedWasAccepted, OnlyCommitted,
              SettledWasAccepted, JobsHoldLeases, ExclusiveWithinLease, Holds
<1>2. CASE \E e \in Events : \/ Submit(e) \/ BackoffElapses(e) \/ LeaseLapses(e)
                             \/ RetentionElapses(e) \/ LateAccept(e)
  BY <1>2, RowSteps, LapseStep, LateAcceptStep
<1>3. CASE \E S \in SUBSET Events : CleanupPublished(S)
  BY <1>3, CleanupStep
<1>4. CASE \E d \in Dispatchers, S \in SUBSET Events : Claim(d, S) \/ ClaimFails(d, S)
  BY <1>4, ClaimStep, ClaimFailsStep
<1>5. CASE \E d \in Dispatchers, B \in SUBSET Slots : Flush(d, B) \/ FlushFails(d, B)
  BY <1>5, FlushSteps
<1>6. CASE \E d \in Dispatchers, s \in Slots :
             \/ StartPublish(d, s) \/ BrokerAccepts(d, s)
             \/ PublishConfirmed(d, s) \/ PublishFails(d, s)
  BY <1>6, WorkerSteps
<1>7. CASE \E d \in Dispatchers, s \in Slots : ReleaseFailed(d, s) \/ ReleaseErrs(d, s)
  BY <1>7, ReleaseSteps
<1>8. CASE \E d \in Dispatchers : Stop(d) \/ Restart(d)
  BY <1>8, StopStep, RestartStep
<1>9. QED
  BY <1>1, <1>2, <1>3, <1>4, <1>5, <1>6, <1>7, <1>8 DEF Next

\* The inductive invariant holds in every behaviour of the outbox.
LEMMA Invariance == Spec => []IInv
  BY InitIInv, IInvStep, PTL DEF Spec

-----------------------------------------------------------------------------
(* Theorems                                                                 *)

\* The state of the outbox keeps its type: a lease names a dispatcher or nobody, and the
\* records of a claim land in slots of the dispatcher that claimed them.
THEOREM TypeCorrect == Spec => []TypeOK
<1>1. IInv => TypeOK
  BY DEF IInv
<1>2. QED
  BY <1>1, Invariance, PTL

\* MarkPublishedBatch and CleanupPublished never retire an event the broker did not
\* take, for any number of events, replicas, slots and publishers.
THEOREM SettledSafe == Spec => []SettledWasAccepted
<1>1. IInv => SettledWasAccepted
  BY DEF IInv
<1>2. QED
  BY <1>1, Invariance, PTL

\* As long as no job outlives its lease, no event is worked on twice at a time.
THEOREM ExclusiveSafe == Spec => []ExclusiveWithinLease
<1>1. IInv => ExclusiveWithinLease
  BY DEF IInv
<1>2. QED
  BY <1>1, Invariance, PTL

-----------------------------------------------------------------------------
(* The refinement of AtLeastOnce                                            *)

\* The empty outbox owes nothing.
LEMMA PromiseInit == Init => Promise!Init
  BY DEF Init, Promise!Init, Phase
\* Rows that stay where they are, go back and forth between pending and leased, or are
\* cleaned up keep their phase.
SameSide == \A e \in Events :
              \/ status'[e] = status[e]
              \/ status[e] \in {"pending", "leased"} /\ status'[e] \in {"pending", "leased"}
              \/ status[e] = "published" /\ status'[e] = "deleted"

\* The phases depend on nothing else.
LEMMA SamePhase == ASSUME SameSide PROVE Phase' = Phase
<1>1. \A e \in Events :
        (CASE status'[e] = "absent" -> "none"
           [] status'[e] \in {"pending", "leased"} -> "owed"
           [] OTHER -> "settled")
        = (CASE status[e] = "absent" -> "none"
             [] status[e] \in {"pending", "leased"} -> "owed"
             [] OTHER -> "settled")
  BY DEF SameSide
<1>2. QED
  BY <1>1 DEF Phase

\* Rows change sides in Submit and Flush only.
LEMMA OtherSteps ==
  ASSUME IInv, Next,
         ~ \E e \in Events : Submit(e),
         ~ \E d \in Dispatchers, B \in SUBSET Slots : Flush(d, B)
  PROVE  SameSide
<1> USE DEF IInv
<1>1. CASE \E e \in Events : \/ BackoffElapses(e) \/ LeaseLapses(e)
                             \/ RetentionElapses(e) \/ LateAccept(e)
  BY <1>1 DEF BackoffElapses, LeaseLapses, RetentionElapses, LateAccept, rowVars, SameSide
<1>2. CASE \E S \in SUBSET Events : CleanupPublished(S)
  BY <1>2 DEF CleanupPublished, SameSide
<1>3. CASE \E d \in Dispatchers, S \in SUBSET Events : Claim(d, S) \/ ClaimFails(d, S)
  <2>1. PICK d \in Dispatchers, S \in SUBSET Events : Claim(d, S) \/ ClaimFails(d, S)
    BY <1>3
  <2>2. Lease(d, S) /\ S \in {{}} \cup Batches(turn[d], Cardinality(Free(d)))
    BY <2>1 DEF Claim, ClaimFails
  <2>3. QED
    BY <2>2, LeaseEffect DEF SameSide
<1>4. CASE \E d \in Dispatchers, B \in SUBSET Slots : FlushFails(d, B)
  BY <1>4 DEF FlushFails, rowVars, SameSide
<1>5. CASE \E d \in Dispatchers, s \in Slots :
             \/ StartPublish(d, s) \/ BrokerAccepts(d, s)
             \/ PublishConfirmed(d, s) \/ PublishFails(d, s)
  BY <1>5 DEF StartPublish, BrokerAccepts, PublishConfirmed, PublishFails, rowVars, SameSide
<1>6. CASE \E d \in Dispatchers, s \in Slots : ReleaseFailed(d, s)
  BY <1>6 DEF ReleaseFailed, Holds, TypeOK, SameSide
<1>7. CASE \E d \in Dispatchers, s \in Slots : ReleaseErrs(d, s)
  BY <1>7 DEF ReleaseErrs, rowVars, SameSide
<1>8. CASE \E d \in Dispatchers : Stop(d) \/ Restart(d)
  BY <1>8 DEF Stop, Restart, rowVars, SameSide
<1>9. QED
  BY <1>1, <1>2, <1>3, <1>4, <1>5, <1>6, <1>7, <1>8 DEF Next

\* The broker takes events one at a time, and only those that were committed.
LEMMA AcceptSteps ==
  ASSUME IInv, Next
  PROVE  \/ accepted' = accepted
         \/ \E e \in Events : /\ status[e] # "absent" /\ accepted' = accepted \cup {e}
                              /\ status' = status
<1> USE DEF IInv
<1>1. CASE \E e \in Events : LateAccept(e)
  BY <1>1 DEF LateAccept, OnlyCommitted, rowVars
<1>2. CASE \E d \in Dispatchers, s \in Slots : BrokerAccepts(d, s)
  <2>1. PICK d \in Dispatchers, s \in Slots : BrokerAccepts(d, s)
    BY <1>2
  <2>2. job[d][s].event \in Events /\ status[job[d][s].event] # "absent"
    BY <2>1, JobFields DEF BrokerAccepts, IdleIsNone, OnlyCommitted
  <2>3. QED
    BY <2>1, <2>2 DEF BrokerAccepts, rowVars
<1>3. CASE /\ ~ \E e \in Events : LateAccept(e)
           /\ ~ \E d \in Dispatchers, s \in Slots : BrokerAccepts(d, s)
  BY <1>3 DEF Next, Submit, BackoffElapses, LeaseLapses, RetentionElapses, CleanupPublished,
              Claim, ClaimFails, Flush, FlushFails, StartPublish, PublishConfirmed, PublishFails,
              ReleaseFailed, ReleaseErrs, Stop, Restart, brokerVars
<1>4. QED
  BY <1>1, <1>2, <1>3

\* Each step of the outbox is a step of the promise, or changes nothing it speaks of.
LEMMA PromiseStep == IInv /\ [Next]_vars => [Promise!Next]_(Promise!vars)
<1> SUFFICES ASSUME IInv, [Next]_vars PROVE [Promise!Next]_(Promise!vars)
  OBVIOUS
<1>1. CASE UNCHANGED vars
  <2>1. SameSide
    BY <1>1 DEF vars, SameSide
  <2>2. QED
    BY <1>1, <2>1, SamePhase DEF vars, Promise!vars
<1>2. CASE \E e \in Events : Submit(e)
  <2>1. PICK e \in Events : Submit(e)
    BY <1>2
  <2>2. Phase[e] = "none" /\ Phase' = [Phase EXCEPT ![e] = "owed"]
    BY <2>1 DEF Submit, Phase, IInv, TypeOK
  <2>3. QED
    BY <2>1, <2>2 DEF Submit, Promise!Next, Promise!Submit
<1>3. CASE \E d \in Dispatchers, B \in SUBSET Slots : Flush(d, B)
  <2>1. PICK d \in Dispatchers, B \in SUBSET Slots : Flush(d, B)
    BY <1>3
  <2> DEFINE C == Current(d, B)
  <2>2. \A s \in B : job[d][s].event \in Events /\ job[d][s].event \in accepted
    BY <2>1, JobFields DEF Flush, IInv, IdleIsNone, RoutedWasAccepted
  <2>3. C \subseteq Events /\ \A e \in C : status[e] = "leased" /\ e \in accepted
    BY <2>2 DEF Current, Holds
  <2> HIDE DEF C
  <2>4. /\ status' = [e \in Events |-> IF e \in C THEN "published" ELSE status[e]]
        /\ accepted' = accepted
    BY <2>1 DEF Flush, C
  <2>5. \A e \in C : Phase[e] = "owed"
    BY <2>3 DEF Phase
  <2>6. Phase' = [e \in Events |-> IF e \in C THEN "settled" ELSE Phase[e]]
    BY <2>4 DEF Phase
  <2>7. Promise!Settle(C)
    BY <2>3, <2>4, <2>5, <2>6 DEF Promise!Settle
  <2>8. QED
    BY <2>3, <2>7 DEF Promise!Next
<1>4. CASE /\ Next
           /\ ~ \E e \in Events : Submit(e)
           /\ ~ \E d \in Dispatchers, B \in SUBSET Slots : Flush(d, B)
  <2>1. Phase' = Phase
    BY <1>4, OtherSteps, SamePhase
  <2>2. CASE accepted' = accepted
    BY <2>1, <2>2 DEF Promise!vars
  <2>3. CASE \E e \in Events : status[e] # "absent" /\ accepted' = accepted \cup {e}
    <3>1. PICK e \in Events : status[e] # "absent" /\ accepted' = accepted \cup {e}
      BY <2>3
    <3>2. Phase[e] # "none"
      BY <3>1 DEF Phase
    <3>3. QED
      BY <2>1, <3>1, <3>2 DEF Promise!Next, Promise!Accept
  <2>4. QED
    BY <1>4, <2>2, <2>3, AcceptSteps
<1>5. QED
  BY <1>1, <1>2, <1>3, <1>4

\* The lease protocol implements at-least-once delivery, whatever stops, lapses or fails.
THEOREM Refinement == Spec => KeepsPromise
  BY PromiseInit, PromiseStep, Invariance, PTL DEF Spec, KeepsPromise, Promise!Spec
=============================================================================
