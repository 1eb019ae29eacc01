------------------------------- MODULE Outbox -------------------------------
(***************************************************************************)
(* The transactional outbox of the business backend: the rows of the       *)
(* business_outbox table, the lease protocol of outbox.Repository and the  *)
(* delivery loop of outbox.Dispatcher, run by several replicas against one *)
(* table and one message broker.                                           *)
(*                                                                         *)
(* Time is abstract.  A row carries two facts about it: whether its        *)
(* available_at has come (due) and whether its lease_expires_at has passed *)
(* (lapsed); both may change at any moment, so a job may outlive its lease *)
(* by an arbitrary pause.  How long the work may take is the subject of    *)
(* DispatcherLoop.  The attempt counter only selects the length of the     *)
(* backoff and is left out with it.                                        *)
(*                                                                         *)
(* The claim batch is the bound on leased work in one dispatcher, so a     *)
(* dispatcher is a set of Slots; which job a publisher picks first, and    *)
(* which completions one flush acknowledges, is left open.                 *)
(***************************************************************************)
EXTENDS Naturals, FiniteSets, Functions

CONSTANTS Events,        \* committed business events, one outbox row each
          Malformed,     \* the events whose stored payload does not decode
          Dispatchers,   \* dispatcher owners: instance identity and process id
          Slots,         \* in-flight capacity of one dispatcher: the claim batch
          Publishers,    \* workers of one dispatcher, each with one publish in flight
          None           \* no owner, no event

ASSUME OutboxAssumption == /\ Malformed \subseteq Events
                           /\ None \notin Events \cup Dispatchers
                           /\ IsFiniteSet(Slots)
                           /\ Publishers \in Nat \ {0}

VARIABLES
  status,     \* the row's status; "absent" before the commit, "deleted" after cleanup
  owner,      \* lease_owner
  due,        \* available_at <= now
  lapsed,     \* lease_expires_at <= now
  aged,       \* published_at is older than the retention and nothing protects the row
  accepted,   \* events the broker has routed to its queues at least once
  adrift,     \* publishes given up by their sender that the broker may still take
  up,         \* dispatchers that are running
  turn,       \* the branch Claim scans first: claimTurn
  job,        \* what each slot of each dispatcher is doing
  overrun     \* history: some job held an event when the event's lease lapsed

rowVars == <<status, owner, due, lapsed, aged>>
brokerVars == <<accepted, adrift>>
vars == <<status, owner, due, lapsed, aged, accepted, adrift, up, turn, job, overrun>>

Statuses == {"absent", "pending", "leased", "published", "deleted"}
Stages == {"idle", "queued", "publishing", "routed", "confirmed", "failed"}
Branches == {"pending", "leased"}
Jobs == [event : Events \cup {None}, stage : Stages]
NoJob == [event |-> None, stage |-> "idle"]

TypeOK == /\ status \in [Events -> Statuses]
          /\ owner \in [Events -> Dispatchers \cup {None}]
          /\ due \in [Events -> BOOLEAN]
          /\ lapsed \in [Events -> BOOLEAN]
          /\ aged \in [Events -> BOOLEAN]
          /\ accepted \subseteq Events
          /\ adrift \subseteq Events
          /\ up \in [Dispatchers -> BOOLEAN]
          /\ turn \in [Dispatchers -> Branches]
          /\ job \in [Dispatchers -> [Slots -> Jobs]]
          /\ overrun \in BOOLEAN

Init == /\ status = [e \in Events |-> "absent"]
        /\ owner = [e \in Events |-> None]
        /\ due = [e \in Events |-> FALSE]
        /\ lapsed = [e \in Events |-> FALSE]
        /\ aged = [e \in Events |-> FALSE]
        /\ accepted = {}
        /\ adrift = {}
        /\ up = [d \in Dispatchers |-> TRUE]
        /\ turn = [d \in Dispatchers |-> "pending"]
        /\ job = [d \in Dispatchers |-> [s \in Slots |-> NoJob]]
        /\ overrun = FALSE

-----------------------------------------------------------------------------
(* Rows                                                                     *)

\* (bug) The lease scan forgets that an unexpired lease is somebody's.
ClaimableIgnoringLease(branch) ==
  IF branch = "pending" THEN {e \in Events : status[e] = "pending" /\ due[e]}
                        ELSE {e \in Events : status[e] = "leased"}

\* What Claim may take from each of its two scans.
Claimable(branch) ==
  IF branch = "pending" THEN {e \in Events : status[e] = "pending" /\ due[e]}
                        ELSE {e \in Events : status[e] = "leased" /\ lapsed[e]}

\* (bug) The lease transitions go by the row's id alone.
HoldsById(d, e) == e \in Events

\* The condition of every lease transition: status, owner and unexpired lease.
Holds(d, e) == status[e] = "leased" /\ owner[e] = d /\ ~lapsed[e]

\* (bug) The turn counts one scan too many.
OtherOfThree(branch) == CASE branch = "pending" -> "leased"
                          [] branch = "leased" -> "published"
                          [] OTHER -> "pending"

\* The branch whose turn is next.
Other(branch) == IF branch = "pending" THEN "leased" ELSE "pending"

\* (bug) The turn never changes: pending rows are always scanned first.
NextTurnStuck(d) == turn' = turn

\* claimTurn.Add(1) % 2: consecutive claims prefer alternate branches.
NextTurn(d) == turn' = [turn EXCEPT ![d] = Other(turn[d])]

\* The rows one claim may take: up to n, the preferred branch first.
Batches(preferred, n) ==
  {S \in SUBSET (Claimable("pending") \cup Claimable("leased")) :
     LET first == S \cap Claimable(preferred)
         second == S \cap Claimable(Other(preferred))
     IN  /\ Cardinality(S) <= n
         /\ Cardinality(S) < n => S = Claimable("pending") \cup Claimable("leased")
         /\ second # {} => first = Claimable(preferred)}

\* The business transaction commits: the event's row becomes visible as pending.
Submit(e) ==
  /\ status[e] = "absent"
  /\ status' = [status EXCEPT ![e] = "pending"]
  /\ due' = [due EXCEPT ![e] = TRUE]
  /\ UNCHANGED <<owner, lapsed, aged, accepted, adrift, up, turn, job, overrun>>

BackoffElapses(e) ==
  /\ status[e] = "pending" /\ ~due[e]
  /\ due' = [due EXCEPT ![e] = TRUE]
  /\ UNCHANGED <<status, owner, lapsed, aged, accepted, adrift, up, turn, job, overrun>>

\* Some job of some dispatcher is still at work on the event.
Held(e) == \E d \in Dispatchers, s \in Slots : job[d][s].event = e

LeaseLapses(e) ==
  /\ status[e] = "leased" /\ ~lapsed[e]
  /\ lapsed' = [lapsed EXCEPT ![e] = TRUE]
  /\ overrun' = (overrun \/ Held(e))
  /\ UNCHANGED <<status, owner, due, aged, accepted, adrift, up, turn, job>>

\* The retention has passed and every requirement and command of the event is closed.
RetentionElapses(e) ==
  /\ status[e] = "published" /\ ~aged[e]
  /\ aged' = [aged EXCEPT ![e] = TRUE]
  /\ UNCHANGED <<status, owner, due, lapsed, accepted, adrift, up, turn, job, overrun>>

\* (bug) The DELETE loses its status condition.
CleanupUnchecked(S) ==
  /\ S # {}
  /\ \A e \in S : status[e] # "absent"
  /\ status' = [e \in Events |-> IF e \in S THEN "deleted" ELSE status[e]]
  /\ UNCHANGED <<owner, due, lapsed, aged, accepted, adrift, up, turn, job, overrun>>

\* One cleanup transaction; which rows the cursor visits is EventRetention's subject.
CleanupPublished(S) ==
  /\ S # {}
  /\ \A e \in S : status[e] = "published" /\ aged[e]
  /\ status' = [e \in Events |-> IF e \in S THEN "deleted" ELSE status[e]]
  /\ UNCHANGED <<owner, due, lapsed, aged, accepted, adrift, up, turn, job, overrun>>

-----------------------------------------------------------------------------
(* One dispatcher: claim, publish, acknowledge or release                   *)

Free(d) == {s \in Slots : job[d][s].stage = "idle"}

\* A worker is busy from taking a job until its completion is handed back.
Busy(d) == {s \in Slots : job[d][s].stage \in {"publishing", "routed", "failed"}}

\* Lease the rows of S to d: one UPDATE in the transaction that locked them.
Lease(d, S) ==
  /\ status' = [e \in Events |-> IF e \in S THEN "leased" ELSE status[e]]
  /\ owner' = [e \in Events |-> IF e \in S THEN d ELSE owner[e]]
  /\ lapsed' = [e \in Events |-> IF e \in S THEN FALSE ELSE lapsed[e]]

\* Claim commits and its records enter the jobs channel.
Claim(d, S) ==
  /\ up[d]
  /\ Free(d) # {}
  /\ S \in Batches(turn[d], Cardinality(Free(d)))
  /\ Lease(d, S)
  /\ NextTurn(d)
  /\ \E place \in Injection(S, Free(d)) :
       job' = [job EXCEPT ![d] = [s \in Slots |->
                 IF \E e \in S : place[e] = s
                 THEN [event |-> CHOOSE e \in S : place[e] = s, stage |-> "queued"]
                 ELSE job[d][s]]]
  /\ UNCHANGED <<due, aged, accepted, adrift, up, overrun>>

\* Claim reports an error: nothing was leased, or the commit's answer was lost.
ClaimFails(d, S) ==
  /\ up[d]
  /\ Free(d) # {}
  /\ S \in {{}} \cup Batches(turn[d], Cardinality(Free(d)))
  /\ Lease(d, S)
  /\ NextTurn(d)
  /\ UNCHANGED <<due, aged, accepted, adrift, up, job, overrun>>

\* The slot's job moves to another stage.
Advance(d, s, stage) ==
  job' = [job EXCEPT ![d][s] = [event |-> job[d][s].event, stage |-> stage]]

\* The slot's job is over: inFlight is decremented.
Finish(d, s) == job' = [job EXCEPT ![d][s] = NoJob]

\* A worker takes a job; a payload that does not decode is released unpublished.
StartPublish(d, s) ==
  /\ up[d]
  /\ job[d][s].stage = "queued"
  /\ Cardinality(Busy(d)) < Publishers
  /\ Advance(d, s, IF job[d][s].event \in Malformed THEN "failed" ELSE "publishing")
  /\ UNCHANGED <<rowVars, brokerVars, up, turn, overrun>>

\* The broker routes the message to its queues; the publisher does not know yet.
BrokerAccepts(d, s) ==
  /\ job[d][s].stage = "publishing"
  /\ accepted' = accepted \cup {job[d][s].event}
  /\ Advance(d, s, "routed")
  /\ UNCHANGED <<rowVars, adrift, up, turn, overrun>>

\* The publisher confirm arrives before the publish timeout.
PublishConfirmed(d, s) ==
  /\ up[d]
  /\ job[d][s].stage = "routed"
  /\ Advance(d, s, "confirmed")
  /\ UNCHANGED <<rowVars, brokerVars, up, turn, overrun>>

\* Timeout, nack, unroutable or lost channel: the message may still be on its way.
PublishFails(d, s) ==
  /\ up[d]
  /\ job[d][s].stage \in {"publishing", "routed"}
  /\ Advance(d, s, "failed")
  /\ \/ adrift' = adrift
     \/ /\ job[d][s].stage = "publishing"
        /\ adrift' = adrift \cup {job[d][s].event}
  /\ UNCHANGED <<rowVars, accepted, up, turn, overrun>>

\* ReleaseFailed: back to pending behind a backoff, or ErrLeaseLost and no change.
ReleaseFailed(d, s) ==
  LET e == job[d][s].event IN
  /\ up[d]
  /\ job[d][s].stage = "failed"
  /\ IF Holds(d, e)
     THEN /\ status' = [status EXCEPT ![e] = "pending"]
          /\ owner' = [owner EXCEPT ![e] = None]
          /\ due' = [due EXCEPT ![e] = FALSE]
     ELSE UNCHANGED <<status, owner, due>>
  /\ Finish(d, s)
  /\ UNCHANGED <<lapsed, aged, accepted, adrift, up, turn, overrun>>

\* ReleaseFailed fails in the store: the row stays leased until its lease lapses.
ReleaseErrs(d, s) ==
  /\ up[d]
  /\ job[d][s].stage = "failed"
  /\ Finish(d, s)
  /\ UNCHANGED <<rowVars, brokerVars, up, turn, overrun>>

\* The rows MarkPublishedBatch changes: those of the batch whose lease is current.
Current(d, B) == {e \in {job[d][s].event : s \in B} : Holds(d, e)}

\* (bug) Every completion is acknowledged, whatever the broker said.
FlushEverything(d, B) ==
  /\ up[d]
  /\ B # {}
  /\ \A s \in B : job[d][s].stage \in {"confirmed", "failed"}
  /\ status' = [e \in Events |-> IF e \in Current(d, B) THEN "published" ELSE status[e]]
  /\ owner' = [e \in Events |-> IF e \in Current(d, B) THEN None ELSE owner[e]]
  /\ job' = [job EXCEPT ![d] = [s \in Slots |-> IF s \in B THEN NoJob ELSE job[d][s]]]
  /\ UNCHANGED <<due, lapsed, aged, accepted, adrift, up, turn, overrun>>

\* MarkPublishedBatch commits: one transaction for every confirmed job of the flush.
Flush(d, B) ==
  /\ up[d]
  /\ B # {}
  /\ \A s \in B : job[d][s].stage = "confirmed"
  /\ status' = [e \in Events |-> IF e \in Current(d, B) THEN "published" ELSE status[e]]
  /\ owner' = [e \in Events |-> IF e \in Current(d, B) THEN None ELSE owner[e]]
  /\ job' = [job EXCEPT ![d] = [s \in Slots |-> IF s \in B THEN NoJob ELSE job[d][s]]]
  /\ UNCHANGED <<due, lapsed, aged, accepted, adrift, up, turn, overrun>>

\* MarkPublishedBatch fails: the jobs are given up and their rows stay leased.
FlushFails(d, B) ==
  /\ up[d]
  /\ B # {}
  /\ \A s \in B : job[d][s].stage = "confirmed"
  /\ job' = [job EXCEPT ![d] = [s \in Slots |-> IF s \in B THEN NoJob ELSE job[d][s]]]
  /\ UNCHANGED <<rowVars, brokerVars, up, turn, overrun>>

\* Shutdown or crash: no release, no acknowledgement; what was sent may still arrive.
Stop(d) ==
  /\ up[d]
  /\ up' = [up EXCEPT ![d] = FALSE]
  /\ job' = [job EXCEPT ![d] = [s \in Slots |-> NoJob]]
  /\ \E S \in SUBSET {job[d][s].event : s \in {t \in Slots : job[d][t].stage = "publishing"}} :
       adrift' = adrift \cup S
  /\ UNCHANGED <<rowVars, accepted, turn, overrun>>

\* The process starts again under the same owner name.
Restart(d) ==
  /\ ~up[d]
  /\ up' = [up EXCEPT ![d] = TRUE]
  /\ turn' = [turn EXCEPT ![d] = "pending"]
  /\ UNCHANGED <<rowVars, brokerVars, job, overrun>>

\* The broker takes a message whose sender gave up on it.
LateAccept(e) ==
  /\ e \in adrift
  /\ accepted' = accepted \cup {e}
  /\ adrift' = adrift \ {e}
  /\ UNCHANGED <<rowVars, up, turn, job, overrun>>

Next ==
  \/ \E e \in Events : \/ Submit(e) \/ BackoffElapses(e) \/ LeaseLapses(e)
                       \/ RetentionElapses(e) \/ LateAccept(e)
  \/ \E S \in SUBSET Events : CleanupPublished(S)
  \/ \E d \in Dispatchers :
       \/ \E S \in SUBSET Events : Claim(d, S) \/ ClaimFails(d, S)
       \/ \E B \in SUBSET Slots : Flush(d, B) \/ FlushFails(d, B)
       \/ \E s \in Slots : \/ StartPublish(d, s) \/ BrokerAccepts(d, s)
                          \/ PublishConfirmed(d, s) \/ PublishFails(d, s)
                          \/ ReleaseFailed(d, s) \/ ReleaseErrs(d, s)
       \/ Stop(d) \/ Restart(d)

Spec == Init /\ [][Next]_vars

\* A claim that hands event e to dispatcher d.
ClaimOf(d, e) == \E S \in SUBSET Events : e \in S /\ Claim(d, S)

\* What d does with a job for event e, with the outcome a healthy dependency gives.
StartOf(d, e) == \E s \in Slots : job[d][s].event = e /\ StartPublish(d, s)
AcceptOf(d, e) == \E s \in Slots : job[d][s].event = e /\ BrokerAccepts(d, s)
ConfirmOf(d, e) == \E s \in Slots : job[d][s].event = e /\ PublishConfirmed(d, s)
FlushOf(d, e) ==
  \E B \in SUBSET Slots : (\E s \in B : job[d][s].event = e) /\ Flush(d, B)

\* The claim timer of d fires, whatever the claim returns.
Poll(d) == \E S \in SUBSET Events : Claim(d, S) \/ ClaimFails(d, S)

\* A worker or the ticker of d moves on, whatever the outcome.
Work(d) ==
  \/ \E s \in Slots : StartPublish(d, s) \/ ReleaseFailed(d, s) \/ ReleaseErrs(d, s)
  \/ \E B \in SUBSET Slots : Flush(d, B) \/ FlushFails(d, B)

(***************************************************************************)
(* Clocks advance and a stopped replica is started again; workers, the     *)
(* claim timer and the acknowledgement ticker keep running.  A dependency  *)
(* may fail any number of times but not on every try for ever: that is the *)
(* strong fairness of claims, publishes and acknowledgements, asked only   *)
(* for the events that can be delivered.  For claims it also rests on the  *)
(* order of the two scans: a row that is released again gets a later       *)
(* available_at, so no row of one branch is passed over for ever by rows   *)
(* of the same branch.  Replicas may stop, and jobs may outlive their      *)
(* lease, any finite number of times: each start begins with the pending   *)
(* branch, so a replica that stops after every claim would never scan      *)
(* orphaned leases; that the lower bound on the lease makes an overrun the *)
(* exception is what DispatcherLoop checks.                                *)
(***************************************************************************)
Fairness ==
  /\ \A d \in Dispatchers : WF_vars(Restart(d)) /\ WF_vars(Poll(d)) /\ WF_vars(Work(d))
  /\ \A e \in Events \ Malformed :
       /\ WF_vars(BackoffElapses(e))
       /\ WF_vars(~Held(e) /\ LeaseLapses(e))
       /\ \A d \in Dispatchers :
            /\ SF_vars(ClaimOf(d, e))
            /\ SF_vars(StartOf(d, e))
            /\ SF_vars(AcceptOf(d, e))
            /\ SF_vars(ConfirmOf(d, e))
            /\ SF_vars(FlushOf(d, e))

\* From some point on no replica stops and no job outlives its lease.
EventuallyCalm == <>[][/\ \A d \in Dispatchers : ~Stop(d)
                       /\ \A e \in Events : LeaseLapses(e) => ~Held(e)]_vars

FairSpec == Spec /\ Fairness /\ EventuallyCalm

-----------------------------------------------------------------------------
(* Properties                                                               *)

\* An event leaves the queue of owed work only after the broker took it: no
\* interleaving of lost answers, stale jobs, crashes and lapsed leases lets
\* MarkPublishedBatch or the cleanup retire an event nobody will ever receive.
SettledWasAccepted ==
  \A e \in Events : status[e] \in {"published", "deleted"} => e \in accepted

\* As long as no job has outlived its lease, no event is in two jobs, of one
\* dispatcher or of two: the lease protocol itself never publishes twice.
ExclusiveWithinLease ==
  ~overrun => \A d1, d2 \in Dispatchers, s1, s2 \in Slots :
                /\ job[d1][s1].event = job[d2][s2].event
                /\ job[d1][s1].event # None
                => d1 = d2 /\ s1 = s2

\* Every event that was committed and can be decoded is settled in the end, even if
\* its lease is orphaned, its claim's answer is lost, or undecodable and failing
\* events come back to the queue for ever.
EverySubmittedEventSettles ==
  \A e \in Events \ Malformed : (status[e] = "pending") ~> (status[e] = "published")

\* What a row says about its event: pending and leased rows are owed, published ones settled.
Phase == [e \in Events |-> CASE status[e] = "absent" -> "none"
                             [] status[e] \in {"pending", "leased"} -> "owed"
                             [] OTHER -> "settled"]

\* The abstract outbox.
Promise == INSTANCE AtLeastOnce WITH phase <- Phase

\* The outbox keeps the promise: each of its steps is a step of AtLeastOnce or none.
KeepsPromise == Promise!Spec
=============================================================================
