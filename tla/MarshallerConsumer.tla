------------------------- MODULE MarshallerConsumer -------------------------
(***************************************************************************)
(* The Kafka consumer of the marshaller (consumer.Kafka, Ownership and     *)
(* Processor): one partition, consumed by the members of a group.          *)
(*                                                                         *)
(* Three activities of a member run concurrently: the client, whose        *)
(* callbacks assign and revoke leases; the poll loop, which takes a lease  *)
(* for each record of a batch when it is about to queue it; and the        *)
(* partition's worker, which writes a record to its target and commits its *)
(* offset while the record's lease is valid.  A lease is the number of the *)
(* assignment that gave it.                                                *)
(*                                                                         *)
(* The semaphore that bounds the workers of all partitions, and the slots  *)
(* for backoff sleepers, only delay; a retry is the same step taken again. *)
(***************************************************************************)
EXTENDS Naturals, Sequences, FiniteSets

CONSTANTS Members,         \* processes of the consumer group
          Last,            \* the partition holds the offsets 0..Last
          Invalid,         \* records that decoding, routing, transformation or target refuse
          MaxPoll,         \* the most records a poll returns: MaxInFlight
          MaxAssignments,  \* bound on assignments, and with it on crashes and rebalances
          NoOwner

ASSUME ConsumerAssumption == Last \in Nat /\ MaxPoll \in Nat /\ MaxAssignments \in Nat

VARIABLES
  owner,      \* the member the group coordinator gave the partition to
  epoch,      \* the number of assignments so far
  committed,  \* the group's committed offset: the next one to consume
  stored,     \* offsets the target holds
  rejected,   \* offsets discarded with a permanent error
  lease,      \* Ownership: the lease each member has, 0 for none
  position,   \* the next offset the client of a member fetches
  polled,     \* history: the lease a member had when the poll returned
  batch,      \* records of the poll that EachRecord has not come to
  sending,    \* the record waiting for room in the worker's queue
  queue,      \* the worker's queue
  working,    \* the record in Processor.Handle
  mishaps     \* history: what separated a record from the rest of its poll

group == <<owner, epoch>>
loop == <<polled, batch, sending>>
vars == <<owner, epoch, committed, stored, rejected, lease, position, polled, batch,
          sending, queue, working, mishaps>>

Offsets == 0..Last
Leases == 0..MaxAssignments
Tasks == [offset : Offsets, lease : Leases \ {0}, stage : {"queued", "write", "commit"}]
NoTask == [offset |-> 0, lease |-> 0, stage |-> "none"]

TypeOK ==
  /\ owner \in Members \cup {NoOwner}
  /\ epoch \in Leases
  /\ committed \in 0..(Last + 1)
  /\ stored \subseteq Offsets /\ rejected \subseteq Invalid
  /\ lease \in [Members -> Leases]
  /\ position \in [Members -> 0..(Last + 1)]
  /\ polled \in [Members -> Leases]
  /\ batch \in [Members -> Seq(Offsets)]
  /\ sending \in [Members -> Tasks \cup {NoTask}]
  /\ queue \in [Members -> Seq(Tasks)] /\ \A m \in Members : Len(queue[m]) <= 1
  /\ working \in [Members -> Tasks \cup {NoTask}]
  /\ mishaps \subseteq {"straddled", "discarded"}

Init ==
  /\ owner = NoOwner /\ epoch = 0 /\ committed = 0
  /\ stored = {} /\ rejected = {}
  /\ lease = [m \in Members |-> 0]
  /\ position = [m \in Members |-> 0]
  /\ polled = [m \in Members |-> 0]
  /\ batch = [m \in Members |-> <<>>]
  /\ sending = [m \in Members |-> NoTask]
  /\ queue = [m \in Members |-> <<>>]
  /\ working = [m \in Members |-> NoTask]
  /\ mishaps = {}

\* (bug) A lease counts as valid whenever the member owns the partition.
ValidIfOwned(m, task) == lease[m] # 0

\* Lease.Valid: the partition is owned under this very generation.
Valid(m, task) == task.lease = lease[m]

-----------------------------------------------------------------------------
(* The group coordinator and the client's callbacks                         *)

\* (bug) Without a committed offset consumption starts at the end.
StartAtEnd == IF committed = 0 THEN Last + 1 ELSE committed

\* Where an assigned partition is consumed from: the committed offset or the start.
StartOffset == committed

\* The partition is given to m; OnPartitionsAssigned makes a new lease.
Assign(m) ==
  /\ owner = NoOwner /\ epoch < MaxAssignments
  /\ owner' = m
  /\ epoch' = epoch + 1
  /\ lease' = [lease EXCEPT ![m] = epoch + 1]
  /\ position' = [position EXCEPT ![m] = StartOffset]
  /\ UNCHANGED <<committed, stored, rejected, loop, queue, working, mishaps>>

\* An orderly rebalance: OnPartitionsRevoked ends the lease before the group moves on.
Revoke(m) ==
  /\ owner = m /\ lease[m] = epoch /\ epoch < MaxAssignments
  /\ owner' = NoOwner
  /\ lease' = [lease EXCEPT ![m] = 0]
  /\ UNCHANGED <<epoch, committed, stored, rejected, position, loop, queue, working, mishaps>>

\* The coordinator gives up on m, which does not know yet.
SessionExpires(m) ==
  /\ owner = m /\ epoch < MaxAssignments
  /\ owner' = NoOwner
  /\ UNCHANGED <<epoch, committed, stored, rejected, lease, position, loop, queue, working,
                 mishaps>>

\* OnPartitionsLost: m learns that its assignment is over.
Lose(m) ==
  /\ lease[m] # 0
  /\ owner # m \/ lease[m] # epoch
  /\ lease' = [lease EXCEPT ![m] = 0]
  /\ UNCHANGED <<group, committed, stored, rejected, position, loop, queue, working, mishaps>>

-----------------------------------------------------------------------------
(* The poll loop                                                            *)

\* PollRecords returns the next records of the partition.
Poll(m) ==
  /\ lease[m] # 0
  /\ batch[m] = <<>> /\ sending[m] = NoTask
  /\ position[m] <= Last
  /\ \E n \in 1..MaxPoll :
       /\ position[m] + n <= Last + 1
       /\ batch' = [batch EXCEPT ![m] = [i \in 1..n |-> position[m] + i - 1]]
       /\ position' = [position EXCEPT ![m] = @ + n]
  /\ polled' = [polled EXCEPT ![m] = lease[m]]
  /\ UNCHANGED <<group, committed, stored, rejected, lease, sending, queue, working, mishaps>>

\* The poll reports an error, of this or another partition: its records are discarded,
\* though the client has moved past them.
PollFails(m) ==
  /\ lease[m] # 0
  /\ batch[m] = <<>> /\ sending[m] = NoTask
  /\ \E n \in 1..MaxPoll : /\ position[m] + n <= Last + 1
                            /\ position' = [position EXCEPT ![m] = @ + n]
  /\ mishaps' = mishaps \cup {"discarded"}
  /\ UNCHANGED <<group, committed, stored, rejected, lease, loop, queue, working>>

\* EachRecord comes to the next record and asks for a lease; without one it drops it.
TakeLease(m) ==
  /\ batch[m] # <<>> /\ sending[m] = NoTask
  /\ batch' = [batch EXCEPT ![m] = Tail(@)]
  /\ IF lease[m] = 0
     THEN UNCHANGED <<sending, mishaps>>
     ELSE /\ sending' = [sending EXCEPT ![m] = [offset |-> Head(batch[m]), lease |-> lease[m],
                                                stage |-> "queued"]]
          /\ mishaps' = IF lease[m] = polled[m] THEN mishaps ELSE mishaps \cup {"straddled"}
  /\ UNCHANGED <<group, committed, stored, rejected, lease, position, polled, queue, working>>

\* (bug) The queue is not bounded.
SendAnyway(m) ==
  /\ sending[m] # NoTask
  /\ queue' = [queue EXCEPT ![m] = Append(@, sending[m])]
  /\ sending' = [sending EXCEPT ![m] = NoTask]
  /\ UNCHANGED <<group, committed, stored, rejected, lease, position, polled, batch, working,
                 mishaps>>

\* The record enters the worker's queue, which holds one.
Send(m) ==
  /\ sending[m] # NoTask
  /\ queue[m] = <<>>
  /\ queue' = [queue EXCEPT ![m] = <<sending[m]>>]
  /\ sending' = [sending EXCEPT ![m] = NoTask]
  /\ UNCHANGED <<group, committed, stored, rejected, lease, position, polled, batch, working,
                 mishaps>>

-----------------------------------------------------------------------------
(* The worker of the partition                                              *)

\* The worker goes on with the record in another stage, or is done with it.
Proceed(m, stage) == working' = [working EXCEPT ![m].stage = stage]
Drop(m) == working' = [working EXCEPT ![m] = NoTask]

\* The worker takes a record; under a lease that is over it is skipped.
Take(m) ==
  /\ queue[m] # <<>> /\ working[m] = NoTask
  /\ queue' = [queue EXCEPT ![m] = Tail(@)]
  /\ IF Valid(m, Head(queue[m]))
     THEN working' = [working EXCEPT ![m] = [Head(queue[m]) EXCEPT !.stage = "write"]]
     ELSE UNCHANGED working
  /\ UNCHANGED <<group, committed, stored, rejected, lease, position, loop, mishaps>>

\* A permanent error: the record is discarded and its offset committed.
Reject(m) ==
  /\ working[m].stage = "write" /\ working[m].offset \in Invalid
  /\ rejected' = rejected \cup {working[m].offset}
  /\ Proceed(m, "commit")
  /\ UNCHANGED <<group, committed, stored, lease, position, loop, queue, mishaps>>

\* The target accepts the record; the commit follows if the lease is still valid.
Write(m) ==
  /\ working[m].stage = "write" /\ working[m].offset \notin Invalid
  /\ stored' = stored \cup {working[m].offset}
  /\ IF Valid(m, working[m]) THEN Proceed(m, "commit") ELSE Drop(m)
  /\ UNCHANGED <<group, committed, rejected, lease, position, loop, queue, mishaps>>

\* The write fails or times out, though the target may hold the record; it is retried.
WriteFails(m) ==
  /\ working[m].stage = "write" /\ working[m].offset \notin Invalid
  /\ Valid(m, working[m])
  /\ stored' = stored \cup {working[m].offset}
  /\ UNCHANGED <<group, committed, rejected, lease, position, loop, queue, working, mishaps>>

\* The coordinator takes the commit: it refuses members that do not own the partition.
\* The client sends it under its current assignment; between the check of the lease and
\* the cancellation of the request that may be a later one.
Fenced(m) == owner # m

\* The offset is committed, with an answer or without.
Commit(m) ==
  /\ working[m].stage = "commit" /\ ~Fenced(m)
  /\ committed' = working[m].offset + 1
  /\ Drop(m) \/ UNCHANGED working
  /\ UNCHANGED <<group, stored, rejected, lease, position, loop, queue, mishaps>>

\* ErrOwnershipLost: the lease is over and the record is left to the next owner.
LoseOwnership(m) ==
  /\ working[m].stage \in {"write", "commit"}
  /\ ~Valid(m, working[m])
  /\ Drop(m)
  /\ UNCHANGED <<group, committed, stored, rejected, lease, position, loop, queue, mishaps>>

\* The process ends: by a crash, or halted because a commit failed three times.
Crash(m) ==
  /\ epoch < MaxAssignments
  /\ lease' = [lease EXCEPT ![m] = 0]
  /\ owner' = IF owner = m THEN NoOwner ELSE owner
  /\ polled' = [polled EXCEPT ![m] = 0]
  /\ batch' = [batch EXCEPT ![m] = <<>>]
  /\ sending' = [sending EXCEPT ![m] = NoTask]
  /\ queue' = [queue EXCEPT ![m] = <<>>]
  /\ Drop(m)
  /\ UNCHANGED <<epoch, committed, stored, rejected, position, mishaps>>

Next ==
  \E m \in Members :
    \/ Assign(m) \/ Revoke(m) \/ SessionExpires(m) \/ Lose(m) \/ Crash(m)
    \/ Poll(m) \/ PollFails(m) \/ TakeLease(m) \/ Send(m)
    \/ Take(m) \/ Reject(m) \/ Write(m) \/ WriteFails(m) \/ Commit(m) \/ LoseOwnership(m)

Spec == Init /\ [][Next]_vars

\* An offset is committed and the worker learns it.
CommitAnswered(m) == Commit(m) /\ working'[m] = NoTask

(***************************************************************************)
(* The coordinator assigns the partition to somebody, the client reports   *)
(* lost partitions, the poll loop and the worker run.  A target that keeps *)
(* failing is retried without limit, so that it answers in the end is the  *)
(* fairness of Write and Reject.                                           *)
(***************************************************************************)
Fairness ==
  /\ WF_vars(\E m \in Members : Assign(m))
  /\ \A m \in Members :
       /\ WF_vars(Lose(m)) /\ WF_vars(Poll(m)) /\ WF_vars(TakeLease(m)) /\ WF_vars(Send(m))
       /\ WF_vars(Take(m)) /\ WF_vars(Write(m) \/ Reject(m))
       /\ WF_vars(CommitAnswered(m)) /\ WF_vars(LoseOwnership(m))

FairSpec == Spec /\ Fairness

-----------------------------------------------------------------------------
(* Properties                                                               *)

Settled == stored \cup rejected

\* The committed offset is never past a record that nobody stored or rejected: after a
\* crash or rebalance no record is skipped.
NoGap == \A o \in Offsets : o < committed => o \in Settled

\* That is so as long as no poll was discarded and every record was leased under the
\* assignment its poll belongs to, however leases end while records wait in the batch,
\* the queue or the worker.
NoGapWithoutMishap == mishaps = {} => NoGap

\* consumer.go: unless a poll was discarded or a record leased under another assignment,
\* no committed offset is past a record that nobody stored or rejected.
NoRecordSkipped == TypeOK /\ NoGapWithoutMishap

\* Every record of the partition is stored or rejected in the end, unless records were
\* leased or discarded that way.
EverythingSettles == [](mishaps = {}) => <>[](Settled = Offsets)
=============================================================================
