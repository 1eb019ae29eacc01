--------------------------- MODULE DispatcherLoop ---------------------------
(***************************************************************************)
(* The delivery loop of one outbox dispatcher in time: the goroutine that  *)
(* selects on the acknowledgement ticker, the completions and the claim    *)
(* timer, and the workers it feeds through the jobs channel.  Outbox says  *)
(* what the loop does to the rows; this module says when it does it, and   *)
(* whether NewDispatcher's lower bound on the lease covers it.             *)
(*                                                                         *)
(* Time passes in units (a second, say).  An operation lasts any number of *)
(* units up to its timeout, a select between two operations lasts none,    *)
(* and select takes any ready case, as Go's does.  One record is watched:  *)
(* lease is the time left of its lease.                                    *)
(***************************************************************************)
EXTENDS Integers, FiniteSets, SequencesExt

CONSTANTS Batch,            \* claimBatch: also the capacity of the channels jobs and done
          Publishers,       \* the workers
          PublishTimeout,
          DatabaseTimeout,
          PollInterval,
          Backoff,          \* the least wait after a claim that failed
          Margin,           \* DispatcherLeaseSafetyMargin
          Luck              \* how often select may start a query with a completion ready

VARIABLES
  queue,      \* the jobs channel
  worker,     \* what each worker does, and since when
  done,       \* the channel of completions
  pending,    \* confirmed jobs that wait for a flush
  inFlight,   \* the loop's own count of leased work
  loop,       \* what the loop's goroutine does, and since when
  timer,      \* time until the claim timer fires, or Off
  nextClaim,  \* time until nextClaimAt
  ticked,     \* a tick waits in the ticker's channel
  lease,      \* time left of the watched job's lease
  late,       \* history: for how long the watched job was held after its lease
  luck        \* what is left of Luck

vars == <<queue, worker, done, pending, inFlight, loop, timer, nextClaim, ticked, lease, late, luck>>

\* Rows to claim: one more than the loop may hold.
Records == 1..Batch + 1
Watched == 1
Off == -1
Longest == IF PollInterval > Backoff THEN PollInterval ELSE Backoff

\* Bound of late, one query beyond what OverrunPaid allows.
MostLate == (Luck + 1) * DatabaseTimeout


\* The sum NewDispatcher asks of the lease: every publish in turn, a claim, an
\* acknowledgement and a release for every record, and the margin.
RequiredLease ==
  ((Batch + Cardinality(Publishers) - 1) \div Cardinality(Publishers)) * PublishTimeout
    + (Batch + 2) * DatabaseTimeout + Margin

Idle == [record |-> 0, stage |-> "idle", spent |-> 0]
Select == [op |-> "select", spent |-> 0]

TypeOK == /\ queue \in Seq(Records)
          /\ worker \in [Publishers -> [record : {0} \cup Records,
                                        stage : {"idle", "publish", "release"},
                                        spent : 0..PublishTimeout + DatabaseTimeout]]
          /\ done \in Seq([record : Records, published : BOOLEAN])
          /\ pending \subseteq Records
          /\ inFlight \in 0..Batch
          /\ loop \in [op : {"select", "claim", "flush", "stopping", "stopped"},
                       spent : 0..DatabaseTimeout]
          /\ timer \in Off..Longest
          /\ nextClaim \in 0..Longest
          /\ ticked \in BOOLEAN
          /\ lease \in 0..RequiredLease
          /\ late \in 0..MostLate
          /\ luck \in 0..Luck

Init == /\ queue = <<>>
        /\ worker = [p \in Publishers |-> Idle]
        /\ done = <<>>
        /\ pending = {}
        /\ inFlight = 0
        /\ loop = Select
        /\ timer = 0
        /\ nextClaim = 0
        /\ ticked = FALSE
        /\ lease = 0
        /\ late = 0
        /\ luck = Luck

-----------------------------------------------------------------------------
(* The jobs                                                                 *)

\* Records some worker has.
Working == {worker[p].record : p \in Publishers} \ {0}

Completed == {done[i].record : i \in DOMAIN done}

\* Records still leased for this loop: a completion without a confirmation has
\* released its row or given it up.
Leased == ToSet(queue) \cup Working \cup pending
            \cup {done[i].record : i \in {j \in DOMAIN done : done[j].published}}

\* Records the loop is not done with, whatever became of the row.
Used == Leased \cup Completed

\* (bug) The last job to end does not wake the claim timer up.
ScheduleUnlessIdle(count) ==
  timer' = IF count < Batch /\ count > 0 THEN nextClaim ELSE timer

\* scheduleClaim, if there is room for a claim.
Schedule(count) == timer' = IF count < Batch THEN nextClaim ELSE timer

-----------------------------------------------------------------------------
(* Workers                                                                  *)

Running == loop.op # "stopped"

TakeJob(p) ==
  /\ Running
  /\ worker[p].stage = "idle" /\ queue # <<>>
  /\ worker' = [worker EXCEPT ![p] = [record |-> Head(queue), stage |-> "publish", spent |-> 0]]
  /\ queue' = Tail(queue)
  /\ UNCHANGED <<done, pending, inFlight, loop, timer, nextClaim, ticked, lease, late, luck>>

\* (bug) The channel of completions has room for one.
CompleteOneByOne(p, published) ==
  /\ Len(done) < 1
  /\ done' = Append(done, [record |-> worker[p].record, published |-> published])
  /\ worker' = [worker EXCEPT ![p] = Idle]
  /\ UNCHANGED <<queue, pending, inFlight, loop, timer, nextClaim, ticked, lease, late, luck>>

\* The worker hands its completion over; the channel has room or it blocks.
Complete(p, published) ==
  /\ Len(done) < Batch
  /\ done' = Append(done, [record |-> worker[p].record, published |-> published])
  /\ worker' = [worker EXCEPT ![p] = Idle]
  /\ UNCHANGED <<queue, pending, inFlight, loop, timer, nextClaim, ticked, lease, late, luck>>

\* The broker confirmed the publish.
PublishEnds(p) == Running /\ worker[p].stage = "publish" /\ Complete(p, TRUE)

\* The publish failed or timed out, or the payload does not decode: the row is released.
PublishFails(p) ==
  /\ loop.op \notin {"stopping", "stopped"}
  /\ worker[p].stage = "publish"
  /\ worker' = [worker EXCEPT ![p].stage = "release", ![p].spent = 0]
  /\ UNCHANGED <<queue, done, pending, inFlight, loop, timer, nextClaim, ticked, lease, late, luck>>

ReleaseEnds(p) == Running /\ worker[p].stage = "release" /\ Complete(p, FALSE)

\* A cancelled context ends the publish without a release.
PublishCancelled(p) == loop.op = "stopping" /\ worker[p].stage = "publish" /\ Complete(p, FALSE)

-----------------------------------------------------------------------------
(* The loop                                                                 *)

\* The ticker's phase is unknown: its channel may fill at any moment.
Tick == /\ Running /\ ~ticked
        /\ ticked' = TRUE
        /\ UNCHANGED <<queue, worker, done, pending, inFlight, loop, timer, nextClaim, lease, late, luck>>

\* Starting a query while a completion or a tick is ready takes luck: bad luck.
Tempting == done # <<>> \/ (ticked /\ pending # {})
Gamble(tempting) == IF tempting THEN luck > 0 /\ luck' = luck - 1 ELSE luck' = luck

\* case <-ackTimer.C: a flush, if anything is pending.
SelectTick ==
  /\ loop.op = "select" /\ ticked
  /\ ticked' = FALSE
  /\ loop' = IF pending = {} THEN loop ELSE [op |-> "flush", spent |-> 0]
  /\ Gamble(pending # {} /\ done # <<>>)
  /\ UNCHANGED <<queue, worker, done, pending, inFlight, timer, nextClaim, lease, late>>

\* case result := <-done
SelectDone ==
  /\ loop.op = "select" /\ done # <<>>
  /\ done' = Tail(done)
  /\ IF Head(done).published
     THEN /\ pending' = pending \cup {Head(done).record}
          /\ inFlight' = inFlight
          /\ IF Cardinality(pending') >= (IF Batch < 10 THEN Batch ELSE 10)
             THEN loop' = [op |-> "flush", spent |-> 0] /\ timer' = timer
             ELSE loop' = loop /\ Schedule(inFlight')
     ELSE /\ inFlight' = inFlight - 1
          /\ Schedule(inFlight')
          /\ UNCHANGED <<pending, loop>>
  /\ UNCHANGED <<queue, worker, nextClaim, ticked, lease, late, luck>>

\* (bug) A flush that fails keeps its jobs in the count.
FlushEndsUncounted ==
  /\ loop.op = "flush"
  /\ inFlight' \in {inFlight, inFlight - Cardinality(pending)}
  /\ pending' = {}
  /\ loop' = Select
  /\ Schedule(inFlight')
  /\ UNCHANGED <<queue, worker, done, nextClaim, ticked, lease, late, luck>>

\* MarkPublishedBatch returns, with or without an error: its jobs are over.
FlushEnds ==
  /\ loop.op = "flush"
  /\ inFlight' = inFlight - Cardinality(pending)
  /\ pending' = {}
  /\ loop' = Select
  /\ Schedule(inFlight')
  /\ UNCHANGED <<queue, worker, done, nextClaim, ticked, lease, late, luck>>

\* case <-claimTimer.C: a claim of the free capacity, if there is any.
SelectClaim ==
  /\ loop.op = "select" /\ timer = 0
  /\ timer' = Off
  /\ loop' = IF inFlight >= Batch THEN loop ELSE [op |-> "claim", spent |-> 0]
  /\ Gamble(inFlight < Batch /\ Tempting)
  /\ UNCHANGED <<queue, worker, done, pending, inFlight, nextClaim, ticked, lease, late>>

\* (bug) The claim asks for a whole batch, whatever is in flight.
ClaimEndsFull ==
  /\ loop.op = "claim"
  /\ \E S \in SUBSET (Records \ Used) :
       /\ Cardinality(S) <= Batch
       /\ \E records \in SetToSeqs(S) : queue' = queue \o records
       /\ inFlight' = inFlight + Cardinality(S)
       /\ lease' = IF Watched \in S THEN RequiredLease - loop.spent ELSE lease
  /\ nextClaim' = PollInterval /\ timer' = PollInterval
  /\ loop' = Select
  /\ UNCHANGED <<worker, done, pending, ticked, late, luck>>

\* The claim returns records; their leases run since it began.
ClaimEnds ==
  LET free == Batch - inFlight IN
  /\ loop.op = "claim"
  /\ \E S \in SUBSET (Records \ Used) :
       /\ Cardinality(S) <= free
       /\ \E records \in SetToSeqs(S) : queue' = queue \o records
       /\ inFlight' = inFlight + Cardinality(S)
       /\ lease' = IF Watched \in S THEN RequiredLease - loop.spent ELSE lease
       /\ IF Cardinality(S) < free
          THEN nextClaim' = PollInterval /\ timer' = PollInterval
          ELSE nextClaim' = 0 /\ timer' = timer
  /\ loop' = Select
  /\ UNCHANGED <<worker, done, pending, ticked, late, luck>>

\* The claim fails: the next one waits for the storage backoff.
ClaimErrs ==
  /\ loop.op = "claim"
  /\ nextClaim' = Backoff /\ timer' = Backoff
  /\ loop' = Select
  /\ UNCHANGED <<queue, worker, done, pending, inFlight, ticked, lease, late, luck>>

\* case <-ctx.Done(): the operation under way returns, workers are cancelled.
Stop ==
  /\ loop.op \notin {"stopping", "stopped"}
  /\ loop' = [op |-> "stopping", spent |-> 0]
  /\ UNCHANGED <<queue, worker, done, pending, inFlight, timer, nextClaim, ticked, lease, late, luck>>

\* workers.Wait() returns once every worker has left.
Stopped ==
  /\ loop.op = "stopping"
  /\ \A p \in Publishers : worker[p].stage = "idle"
  /\ loop' = [op |-> "stopped", spent |-> 0]
  /\ UNCHANGED <<queue, worker, done, pending, inFlight, timer, nextClaim, ticked, lease, late, luck>>

-----------------------------------------------------------------------------
(* Time                                                                     *)

\* Nothing that takes no time is left to do.
LoopWaits == IF loop.op = "select"
             THEN /\ ~ticked \/ pending = {}
                  /\ done = <<>> /\ timer # 0
             ELSE loop.spent < DatabaseTimeout

WorkerWaits(p) ==
  CASE worker[p].stage = "idle" -> queue = <<>>
    [] worker[p].stage = "publish" -> worker[p].spent < PublishTimeout
    [] worker[p].stage = "release" -> worker[p].spent < DatabaseTimeout

\* A countdown that stays where it ended, or is off.
Less(time) == IF time > 0 THEN time - 1 ELSE time

\* One unit passes, and the ticker, which is faster, has ticked.
Pass ==
  /\ loop.op \in {"select", "claim", "flush"}
  /\ LoopWaits
  /\ \A p \in Publishers : WorkerWaits(p)
  /\ loop' = IF loop.op = "select" THEN loop ELSE [loop EXCEPT !.spent = @ + 1]
  /\ worker' = [p \in Publishers |->
                  IF worker[p].stage = "idle" THEN Idle ELSE [worker[p] EXCEPT !.spent = @ + 1]]
  /\ timer' = Less(timer)
  /\ nextClaim' = Less(nextClaim)
  /\ ticked' = TRUE
  /\ lease' = IF Watched \in Leased THEN Less(lease) ELSE 0
  /\ late' = IF Watched \in Leased /\ lease = 0 /\ late < MostLate THEN late + 1 ELSE late
  /\ UNCHANGED <<queue, done, pending, inFlight, luck>>

Next ==
  \/ \E p \in Publishers : \/ TakeJob(p) \/ PublishEnds(p) \/ PublishFails(p)
                          \/ ReleaseEnds(p) \/ PublishCancelled(p)
  \/ Tick \/ SelectTick \/ SelectDone \/ SelectClaim
  \/ FlushEnds \/ ClaimEnds \/ ClaimErrs
  \/ Stop \/ Stopped
  \/ Pass

Spec == Init /\ [][Next]_vars

\* Once cancelled, workers and loop run to their end.
Fairness ==
  /\ WF_vars(Stopped)
  /\ \A p \in Publishers : WF_vars(ReleaseEnds(p)) /\ WF_vars(PublishCancelled(p))

FairSpec == Spec /\ Fairness

-----------------------------------------------------------------------------
(* Properties                                                               *)

\* What the contract of the outbox says of the bound (docs, 19): the watched job is never
\* held after its lease, since the claim that leased it, the jobs before it and the
\* operations the loop is in when it completes fit into RequiredLease.
LeaseCovered == late = 0

\* What is true of it: a job outlives its lease only by queries that select began although
\* a completion or a tick was ready, which RequiredLease has no term for; each of them
\* costs at most its timeout, and the margin pays for the first part.
OverrunPaid == late > 0 => late + Margin <= (Luck - luck) * DatabaseTimeout

\* The loop's count is the number of jobs that are queued, worked on, completed or
\* pending: counted twice it would starve the claims, missed it would overrun the bound.
\* With at most Batch jobs in the count, no send to the channels jobs and done can block.
CountedExactly == inFlight = Cardinality(Used)

\* The loop never goes to sleep with capacity to spare: whenever it waits and could
\* claim, its claim timer is running.
ClaimScheduled == loop.op = "select" /\ inFlight < Batch => timer # Off

\* Run returns after its context is cancelled: no worker waits for the loop for ever.
StopsWhenCancelled == loop.op = "stopping" ~> loop.op = "stopped"
=============================================================================
