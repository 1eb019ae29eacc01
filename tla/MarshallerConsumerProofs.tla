---------------------- MODULE MarshallerConsumerProofs ----------------------
(***************************************************************************)
(* Proofs about MarshallerConsumer for any members, records and polls: no  *)
(* committed offset is past a record that nobody stored or rejected,       *)
(* unless a poll was discarded or straddled two assignments.               *)
(***************************************************************************)
EXTENDS MarshallerConsumer, SequenceTheorems, TLAPS

\* Every record before o is stored or rejected.
Below(o) == \A i \in Offsets : i < o => i \in Settled

\* What m holds was leased by an assignment that has been made.
LeasesGiven ==
  \A m \in Members :
    /\ lease[m] <= epoch /\ polled[m] <= epoch
    /\ sending[m].lease <= epoch /\ working[m].lease <= epoch
    /\ queue[m] # <<>> => queue[m][1].lease <= epoch

\* o follows what m holds under its present lease: in the worker, up to the
\* queue, up to the record that waits for the queue.  Records of an earlier
\* lease do not count.  Where nothing is held, all before o is settled.
AfterWorking(m, o) == IF Valid(m, working[m]) THEN o = working[m].offset + 1 ELSE Below(o)
AfterQueue(m, o) ==
  IF queue[m] # <<>> /\ Valid(m, queue[m][1]) THEN o = queue[m][1].offset + 1
                                              ELSE AfterWorking(m, o)
AfterSending(m, o) ==
  IF Valid(m, sending[m]) THEN o = sending[m].offset + 1 ELSE AfterQueue(m, o)

\* The rest of a poll under the present lease ends where the client goes on.
OwnBatch(m) == batch[m] # <<>> /\ polled[m] = lease[m]
BatchInPlace(m) ==
  \A i \in 1..Len(batch[m]) : batch[m][i] = position[m] - Len(batch[m]) + i - 1

\* What m holds under its present lease follows without a gap.
InOrder(m) ==
  /\ queue[m] # <<>> /\ Valid(m, queue[m][1]) => AfterWorking(m, queue[m][1].offset)
  /\ Valid(m, sending[m]) => AfterQueue(m, sending[m].offset)
  /\ OwnBatch(m) => BatchInPlace(m) /\ AfterSending(m, position[m] - Len(batch[m]))
  /\ ~OwnBatch(m) => AfterSending(m, position[m])

\* A record the worker has was preceded by settled ones only, whatever became of
\* its lease since; before it is committed it is settled itself.
WorkFollows(m) ==
  /\ working[m].stage = "write" => Below(working[m].offset)
  /\ working[m].stage = "commit" => Below(working[m].offset + 1)

Ordered ==
  /\ Below(committed)
  /\ \A m \in Members : WorkFollows(m) /\ (lease[m] # 0 => InOrder(m))

IInv == TypeOK /\ LeasesGiven /\ (mishaps = {} => Ordered)

-----------------------------------------------------------------------------
(* Types and leases                                                         *)

\* The record of no task is none, and fields of a task have their sets.
LEMMA TaskFields ==
  /\ NoTask.lease = 0 /\ NoTask.stage = "none" /\ NoTask.offset = 0 /\ NoTask \notin Tasks
  /\ \A t \in Tasks : t.offset \in Offsets /\ t.lease \in Leases \ {0}
                      /\ t.stage \in {"queued", "write", "commit"}
  BY DEF NoTask, Tasks

\* A task that goes to another stage.
LEMMA StagedTask ==
  ASSUME NEW t \in Tasks, NEW stage \in {"queued", "write", "commit"}
  PROVE  [t EXCEPT !.stage = stage] \in Tasks
  BY DEF Tasks

\* The model starts in a state of its type.
LEMMA InitType == Init => TypeOK
  BY ConsumerAssumption DEF Init, TypeOK, Offsets, Leases, Tasks

\* Every step keeps the type.
LEMMA TypeStep == TypeOK /\ [Next]_vars => TypeOK'
<1> SUFFICES ASSUME TypeOK, [Next]_vars PROVE TypeOK'
  OBVIOUS
<1> USE ConsumerAssumption
<1>0. CASE UNCHANGED vars
  BY <1>0 DEF TypeOK, vars
<1>1. CASE Next
  <2> PICK m \in Members :
        \/ Assign(m) \/ Revoke(m) \/ SessionExpires(m) \/ Lose(m) \/ Crash(m)
        \/ Poll(m) \/ PollFails(m) \/ TakeLease(m) \/ Send(m)
        \/ Take(m) \/ Reject(m) \/ Write(m) \/ WriteFails(m) \/ Commit(m) \/ LoseOwnership(m)
    BY <1>1 DEF Next
  <2>0. epoch \in Nat /\ Leases \subseteq Nat /\ Offsets \subseteq Nat
    BY DEF TypeOK, Leases, Offsets
  <2>w. working[m].stage \in {"write", "commit"} => working[m] \in Tasks
    BY TaskFields DEF TypeOK
  <2>1. CASE Assign(m)
    BY <2>1 DEF Assign, TypeOK, StartOffset, loop, Leases
  <2>2. CASE Revoke(m) \/ SessionExpires(m) \/ Lose(m)
    <3>1. owner' \in Members \cup {NoOwner} /\ epoch' = epoch
      BY <2>2 DEF Revoke, SessionExpires, Lose, TypeOK, group
    <3>2. lease' \in [Members -> Leases]
      BY <2>2 DEF Revoke, SessionExpires, Lose, TypeOK, Leases
    <3>3. UNCHANGED <<committed, stored, rejected, position, loop, queue, working, mishaps>>
      BY <2>2 DEF Revoke, SessionExpires, Lose
    <3> QED
      BY <3>1, <3>2, <3>3 DEF TypeOK, loop
  <2>3. CASE Crash(m)
    <3>1. <<>> \in Seq(Offsets) /\ <<>> \in Seq(Tasks) /\ Len(<<>>) = 0 /\ 0 \in Leases
      BY DEF Leases
    <3> QED
      BY <2>3, <3>1 DEF Crash, TypeOK, Drop
  <2>4. CASE Poll(m)
    <3>1. PICK n \in 1..MaxPoll :
            /\ position[m] + n <= Last + 1
            /\ batch' = [batch EXCEPT ![m] = [i \in 1..n |-> position[m] + i - 1]]
            /\ position' = [position EXCEPT ![m] = @ + n]
      BY <2>4 DEF Poll
    <3>2. position[m] \in 0..(Last + 1)
      BY DEF TypeOK
    <3>3. position[m] + n \in 0..(Last + 1) /\ \A i \in 1..n : position[m] + i - 1 \in Offsets
      BY <3>1, <3>2 DEF Offsets
    <3>4. [i \in 1..n |-> position[m] + i - 1] \in Seq(Offsets)
      BY <3>3
    <3>5. batch' \in [Members -> Seq(Offsets)] /\ position' \in [Members -> 0..(Last + 1)]
      BY <3>1, <3>3, <3>4 DEF TypeOK
    <3>6. polled' \in [Members -> Leases]
      BY <2>4 DEF Poll, TypeOK
    <3> QED
      BY <2>4, <3>5, <3>6 DEF Poll, TypeOK, group
  <2>5. CASE PollFails(m)
    <3>1. PICK n \in 1..MaxPoll : /\ position[m] + n <= Last + 1
                                   /\ position' = [position EXCEPT ![m] = @ + n]
      BY <2>5 DEF PollFails
    <3>2. position[m] \in 0..(Last + 1)
      BY DEF TypeOK
    <3>3. position' \in [Members -> 0..(Last + 1)]
      BY <3>1, <3>2 DEF TypeOK
    <3> QED
      BY <2>5, <3>3 DEF PollFails, TypeOK, group, loop
  <2>6. CASE TakeLease(m)
    <3>1. batch[m] \in Seq(Offsets) /\ batch[m] # <<>>
      BY <2>6 DEF TakeLease, TypeOK
    <3>2. Tail(batch[m]) \in Seq(Offsets) /\ Head(batch[m]) \in Offsets
      BY <3>1, HeadTailProperties
    <3>3. batch' \in [Members -> Seq(Offsets)]
      BY <2>6, <3>2 DEF TakeLease, TypeOK
    <3>4. lease[m] \in Leases
      BY DEF TypeOK
    <3>5. lease[m] # 0 =>
            [offset |-> Head(batch[m]), lease |-> lease[m], stage |-> "queued"] \in Tasks
      BY <3>2, <3>4 DEF Tasks
    <3>6. sending' \in [Members -> Tasks \cup {NoTask}]
      BY <2>6, <3>5 DEF TakeLease, TypeOK
    <3>7. mishaps' \subseteq {"straddled", "discarded"}
      BY <2>6 DEF TakeLease, TypeOK
    <3> QED
      BY <2>6, <3>3, <3>6, <3>7 DEF TakeLease, TypeOK, group
  <2>7. CASE Send(m)
    <3>1. sending[m] \in Tasks
      BY <2>7 DEF Send, TypeOK
    <3>2. <<sending[m]>> \in Seq(Tasks) /\ Len(<<sending[m]>>) = 1
      BY <3>1
    <3> QED
      BY <2>7, <3>2 DEF Send, TypeOK, group
  <2>8. CASE Take(m)
    <3>1. queue[m] \in Seq(Tasks) /\ queue[m] # <<>> /\ Len(queue[m]) <= 1
      BY <2>8 DEF Take, TypeOK
    <3>2. Tail(queue[m]) \in Seq(Tasks) /\ Head(queue[m]) \in Tasks
          /\ Len(Tail(queue[m])) = Len(queue[m]) - 1 /\ Len(queue[m]) \in Nat
      BY <3>1, HeadTailProperties, LenProperties
    <3>3. [Head(queue[m]) EXCEPT !.stage = "write"] \in Tasks
      BY <3>2, StagedTask
    <3>4. working' \in [Members -> Tasks \cup {NoTask}]
      BY <2>8, <3>3 DEF Take, TypeOK
    <3>5. queue' \in [Members -> Seq(Tasks)]
      BY <2>8, <3>2 DEF Take, TypeOK
    <3>6. \A n \in Members : Len(queue'[n]) <= 1
      BY <2>8, <3>1, <3>2 DEF Take, TypeOK
    <3> QED
      BY <2>8, <3>4, <3>5, <3>6 DEF Take, TypeOK, group, loop
  <2>9. CASE Reject(m)
    <3>1. [working[m] EXCEPT !.stage = "commit"] \in Tasks
      BY <2>9, <2>w, StagedTask DEF Reject
    <3>2. working' \in [Members -> Tasks \cup {NoTask}]
      BY <2>9, <3>1 DEF Reject, Proceed, TypeOK
    <3> QED
      BY <2>9, <3>2 DEF Reject, TypeOK, group, loop
  <2>10. CASE Write(m)
    <3>1. [working[m] EXCEPT !.stage = "commit"] \in Tasks /\ working[m].offset \in Offsets
      BY <2>10, <2>w, StagedTask, TaskFields DEF Write
    <3>2. working' \in [Members -> Tasks \cup {NoTask}]
      BY <2>10, <3>1 DEF Write, Proceed, Drop, TypeOK
    <3> QED
      BY <2>10, <3>1, <3>2 DEF Write, TypeOK, group, loop
  <2>11. CASE WriteFails(m)
    <3>1. working[m].offset \in Offsets
      BY <2>11, <2>w, TaskFields DEF WriteFails
    <3> QED
      BY <2>11, <3>1 DEF WriteFails, TypeOK, group, loop
  <2>12. CASE Commit(m)
    <3>1. working[m].offset + 1 \in 0..(Last + 1)
      BY <2>12, <2>w, TaskFields DEF Commit, Offsets
    <3>2. working' \in [Members -> Tasks \cup {NoTask}]
      BY <2>12 DEF Commit, Drop, TypeOK
    <3> QED
      BY <2>12, <3>1, <3>2 DEF Commit, TypeOK, group, loop
  <2>13. CASE LoseOwnership(m)
    BY <2>13 DEF LoseOwnership, Drop, TypeOK, group, loop
  <2> QED
    BY <2>1, <2>2, <2>3, <2>4, <2>5, <2>6, <2>7, <2>8, <2>9, <2>10, <2>11, <2>12, <2>13
<1> QED
  BY <1>0, <1>1

\* A lease is the number of an assignment that has been made, so that the next one is new.
LEMMA LeasesStep == TypeOK /\ LeasesGiven /\ [Next]_vars => LeasesGiven'
<1> SUFFICES ASSUME TypeOK, LeasesGiven, [Next]_vars PROVE LeasesGiven'
  OBVIOUS
<1>n. epoch \in Nat /\ \A m \in Members : lease[m] \in Nat /\ polled[m] \in Nat
  BY ConsumerAssumption DEF TypeOK, Leases
<1> SUFFICES ASSUME NEW n \in Members
             PROVE  /\ lease'[n] <= epoch' /\ polled'[n] <= epoch'
                    /\ sending'[n].lease <= epoch' /\ working'[n].lease <= epoch'
                    /\ queue'[n] # <<>> => queue'[n][1].lease <= epoch'
  BY DEF LeasesGiven
<1>i. /\ lease[n] <= epoch /\ polled[n] <= epoch
      /\ sending[n].lease <= epoch /\ working[n].lease <= epoch
      /\ queue[n] # <<>> => queue[n][1].lease <= epoch
  BY DEF LeasesGiven
<1>0. CASE UNCHANGED vars
  BY <1>0, <1>i DEF vars
<1>1. CASE Next
  <2> PICK m \in Members :
        \/ Assign(m) \/ Revoke(m) \/ SessionExpires(m) \/ Lose(m) \/ Crash(m)
        \/ Poll(m) \/ PollFails(m) \/ TakeLease(m) \/ Send(m)
        \/ Take(m) \/ Reject(m) \/ Write(m) \/ WriteFails(m) \/ Commit(m) \/ LoseOwnership(m)
    BY <1>1 DEF Next
  <2>1. CASE Assign(m)
    <3>1. epoch' = epoch + 1 /\ lease' = [lease EXCEPT ![m] = epoch + 1]
          /\ UNCHANGED <<polled, sending, working, queue>>
      BY <2>1 DEF Assign, loop
    <3>2. /\ sending[n].lease \in Nat /\ working[n].lease \in Nat
          /\ queue[n] # <<>> => queue[n][1].lease \in Nat
      <4>1. \A t \in Tasks \cup {NoTask} : t.lease \in Nat
        BY TaskFields, ConsumerAssumption DEF Leases
      <4>2. queue[n] # <<>> => queue[n][1] \in Tasks
        BY DEF TypeOK
      <4> QED
        BY <4>1, <4>2 DEF TypeOK
    <3>3. lease'[n] \in {lease[n], epoch + 1}
      BY <3>1 DEF TypeOK
    <3>4. \A k \in Nat : k <= epoch => k <= epoch + 1
      BY <1>n
    <3> QED
      BY <3>1, <3>2, <3>3, <3>4, <1>i, <1>n
  <2>2. CASE Revoke(m) \/ SessionExpires(m) \/ Lose(m) \/ Crash(m)
    <3>1. epoch' = epoch /\ lease'[n] \in {lease[n], 0} /\ polled'[n] \in {polled[n], 0}
          /\ sending'[n] \in {sending[n], NoTask} /\ working'[n] \in {working[n], NoTask}
          /\ queue'[n] \in {queue[n], <<>>}
      BY <2>2 DEF Revoke, SessionExpires, Lose, Crash, Drop, TypeOK, group, loop
    <3> QED
      BY <3>1, <1>i, <1>n, TaskFields
  <2>3. CASE Poll(m) \/ PollFails(m)
    <3>1. UNCHANGED <<epoch, lease, sending, queue, working>>
          /\ polled'[n] \in {polled[n], lease[n]}
      BY <2>3 DEF Poll, PollFails, group, loop, TypeOK
    <3> QED
      BY <3>1, <1>i
  <2>4. CASE TakeLease(m)
    <3>1. UNCHANGED <<epoch, lease, polled, queue, working>>
          /\ (sending'[n] = sending[n] \/ sending'[n].lease = lease[n])
      BY <2>4 DEF TakeLease, group, TypeOK
    <3> QED
      BY <3>1, <1>i
  <2>5. CASE Send(m)
    <3>1. UNCHANGED <<epoch, lease, polled, working>>
          /\ sending'[n] \in {sending[n], NoTask}
          /\ queue'[n] \in {queue[n], <<sending[n]>>}
      BY <2>5 DEF Send, group, TypeOK
    <3> QED
      BY <3>1, <1>i, <1>n, TaskFields
  <2>6. CASE Take(m)
    <3>1. UNCHANGED <<epoch, lease, polled, sending>>
      BY <2>6 DEF Take, group, loop
    <3>2. CASE n # m
      BY <2>6, <3>1, <3>2, <1>i DEF Take, TypeOK
    <3>3. CASE n = m
      <4>1. queue[m] \in Seq(Tasks) /\ queue[m] # <<>> /\ Len(queue[m]) <= 1
        BY <2>6 DEF Take, TypeOK
      <4>2. Tail(queue[m]) = <<>>
        BY <4>1
      <4>3. Head(queue[m]) = queue[m][1] /\ queue[m][1] \in Tasks
        BY <4>1
      <4>4. [Head(queue[m]) EXCEPT !.stage = "write"].lease = queue[m][1].lease
        BY <4>3 DEF Tasks
      <4>5. queue'[m] = <<>>
        BY <2>6, <4>2 DEF Take, TypeOK
      <4>6. working'[m] = working[m] \/ working'[m].lease = queue[m][1].lease
        BY <2>6, <4>4 DEF Take, TypeOK
      <4> QED
        BY <3>1, <3>3, <4>1, <4>5, <4>6, <1>i
    <3> QED
      BY <3>2, <3>3
  <2>7. CASE Reject(m) \/ Write(m) \/ WriteFails(m) \/ Commit(m) \/ LoseOwnership(m)
    <3>1. UNCHANGED <<epoch, lease, polled, sending, queue>>
      BY <2>7 DEF Reject, Write, WriteFails, Commit, LoseOwnership, group, loop
    <3>2. \/ working'[n] = working[n] \/ working'[n] = NoTask
          \/ n = m /\ working[m] \in Tasks /\ working'[m] = [working[m] EXCEPT !.stage = "commit"]
      BY <2>7, TaskFields
      DEF Reject, Write, WriteFails, Commit, LoseOwnership, Proceed, Drop, TypeOK
    <3>3. working'[n].lease = working[n].lease \/ working'[n].lease = 0
      BY <3>2, TaskFields DEF Tasks
    <3> QED
      BY <3>1, <3>3, <1>i, <1>n
  <2> QED
    BY <2>1, <2>2, <2>3, <2>4, <2>5, <2>6, <2>7
<1> QED
  BY <1>0, <1>1

-----------------------------------------------------------------------------
(* The order of what a member holds                                         *)

\* What is settled stays settled.
LEMMA BelowKept ==
  ASSUME Settled \subseteq Settled'
  PROVE  \A o : Below(o) => Below(o)'
  BY DEF Below

\* A record is settled, and with it all up to it.
LEMMA BelowNext ==
  ASSUME NEW o \in Offsets, Below(o), o \in Settled
  PROVE  Below(o + 1)
  BY ConsumerAssumption DEF Below, Offsets

\* A step that leaves what n holds alone leaves it in order.
LEMMA OrderKept ==
  ASSUME TypeOK, NEW n \in Members, Settled \subseteq Settled',
         lease'[n] = lease[n], polled'[n] = polled[n], batch'[n] = batch[n],
         position'[n] = position[n], sending'[n] = sending[n], queue'[n] = queue[n],
         working'[n] = working[n],
         lease[n] # 0 => InOrder(n)
  PROVE  lease'[n] # 0 => InOrder(n)'
<1>1. \A o : Below(o) => Below(o)'
  BY BelowKept
<1>2. \A o : AfterWorking(n, o) => AfterWorking(n, o)'
  BY <1>1 DEF AfterWorking, Valid
<1>3. \A o : AfterQueue(n, o) => AfterQueue(n, o)'
  BY <1>2 DEF AfterQueue, Valid
<1>4. \A o : AfterSending(n, o) => AfterSending(n, o)'
  BY <1>3 DEF AfterSending, Valid
<1> QED
  BY <1>2, <1>3, <1>4 DEF InOrder, OwnBatch, BatchInPlace, Valid

\* A step that leaves the worker's record alone leaves it where it may be.
LEMMA WorkKept ==
  ASSUME NEW n \in Members, Settled \subseteq Settled', WorkFollows(n),
         working'[n] = working[n] \/ working'[n] = NoTask
  PROVE  WorkFollows(n)'
  BY BelowKept, TaskFields DEF WorkFollows
\* A new lease covers nothing that m still holds: consumption starts at the committed
\* offset, before which all is settled.
LEMMA AssignOrdered ==
  ASSUME TypeOK, LeasesGiven, Below(committed), NEW m \in Members, Assign(m)
  PROVE  InOrder(m)'
<1>1. /\ lease'[m] = epoch + 1 /\ position'[m] = committed
      /\ UNCHANGED <<committed, stored, rejected, polled, batch, sending, queue, working>>
  BY DEF Assign, StartOffset, TypeOK, loop
<1>n. epoch \in Nat /\ polled[m] \in Nat /\ \A t \in Tasks \cup {NoTask} : t.lease \in Nat
  BY TaskFields, ConsumerAssumption DEF TypeOK, Leases
<1>2. polled[m] # epoch + 1 /\ sending[m].lease # epoch + 1 /\ working[m].lease # epoch + 1
  BY <1>n DEF LeasesGiven, TypeOK
<1>3. queue[m] # <<>> => queue[m][1].lease # epoch + 1
  <2>1. queue[m] # <<>> => queue[m][1] \in Tasks
    BY DEF TypeOK
  <2> QED
    BY <2>1, <1>n DEF LeasesGiven
<1>4. Below(committed)'
  BY <1>1, BelowKept DEF Settled
<1>5. ~Valid(m, working[m])' /\ ~Valid(m, sending[m])' /\ ~OwnBatch(m)'
      /\ ~(queue[m] # <<>> /\ Valid(m, queue[m][1]))'
  BY <1>1, <1>2, <1>3 DEF Valid, OwnBatch
<1>6. AfterSending(m, position[m])'
  BY <1>1, <1>4, <1>5 DEF AfterSending, AfterQueue, AfterWorking
<1> QED
  BY <1>5, <1>6 DEF InOrder

\* A poll returns the records from the client's position on.
LEMMA PollOrdered ==
  ASSUME TypeOK, NEW m \in Members, lease[m] # 0, InOrder(m), Poll(m)
  PROVE  InOrder(m)'
<1>1. PICK n \in 1..MaxPoll :
        /\ position[m] + n <= Last + 1
        /\ batch' = [batch EXCEPT ![m] = [i \in 1..n |-> position[m] + i - 1]]
        /\ position' = [position EXCEPT ![m] = @ + n]
  BY DEF Poll
<1>2. position[m] \in Nat /\ n \in Nat
  BY <1>1, ConsumerAssumption DEF TypeOK
<1>3. /\ batch'[m] = [i \in 1..n |-> position[m] + i - 1] /\ position'[m] = position[m] + n
      /\ Len(batch'[m]) = n /\ batch'[m] # <<>>
  <2>1. batch'[m] = [i \in 1..n |-> position[m] + i - 1] /\ position'[m] = position[m] + n
    BY <1>1, <1>2 DEF TypeOK
  <2>2. Len([i \in 1..n |-> position[m] + i - 1]) = n
    BY <1>2
  <2> QED
    BY <2>1, <2>2
<1>4. /\ batch[m] = <<>> /\ polled'[m] = lease[m]
      /\ UNCHANGED <<committed, stored, rejected, lease, sending, queue, working>>
  BY DEF Poll, TypeOK
<1>5. AfterSending(m, position[m])
  BY <1>4 DEF InOrder, OwnBatch
<1>6. \A o : AfterSending(m, o) => AfterSending(m, o)'
  BY <1>4, BelowKept DEF AfterSending, AfterQueue, AfterWorking, Valid, Settled
<1>7. \A o : AfterQueue(m, o) => AfterQueue(m, o)'
  BY <1>4, BelowKept DEF AfterQueue, AfterWorking, Valid, Settled
<1>8. \A o : AfterWorking(m, o) => AfterWorking(m, o)'
  BY <1>4, BelowKept DEF AfterWorking, Valid, Settled
<1>9. position'[m] - Len(batch'[m]) = position[m]
  BY <1>2, <1>3
<1>10. BatchInPlace(m)'
  BY <1>2, <1>3, <1>9 DEF BatchInPlace
<1>11. AfterSending(m, position[m] - Len(batch[m]))'
  <2>1. \A o : o = position[m] => AfterSending(m, o)'
    BY <1>5, <1>6
  <2> QED
    BY <2>1, <1>9
<1>12. OwnBatch(m)'
  BY <1>3, <1>4 DEF OwnBatch
<1> QED
  BY <1>4, <1>7, <1>8, <1>10, <1>11, <1>12 DEF InOrder, Valid

\* A record leased under its poll's assignment goes on where the rest of the poll begins.
LEMMA TakeLeaseOrdered ==
  ASSUME TypeOK, NEW m \in Members, lease[m] # 0, InOrder(m), TakeLease(m), mishaps' = {}
  PROVE  InOrder(m)'
<1>1. /\ batch[m] # <<>> /\ sending[m] = NoTask /\ lease[m] = polled[m]
      /\ batch'[m] = Tail(batch[m])
      /\ sending'[m] = [offset |-> Head(batch[m]), lease |-> lease[m], stage |-> "queued"]
      /\ UNCHANGED <<committed, stored, rejected, lease, polled, position, queue, working>>
  BY DEF TakeLease, TypeOK, group
<1>2. /\ batch[m] \in Seq(Offsets) /\ Len(batch[m]) \in Nat /\ Len(batch[m]) >= 1
      /\ Head(batch[m]) = batch[m][1] /\ Len(Tail(batch[m])) = Len(batch[m]) - 1
      /\ \A i \in 1..(Len(batch[m]) - 1) : Tail(batch[m])[i] = batch[m][i + 1]
  BY <1>1 DEF TypeOK
<1>3. position[m] \in Nat
  BY ConsumerAssumption DEF TypeOK
<1>4. OwnBatch(m) /\ BatchInPlace(m) /\ AfterSending(m, position[m] - Len(batch[m]))
  BY <1>1 DEF OwnBatch, InOrder
<1>5. batch[m][1] = position[m] - Len(batch[m])
  BY <1>2, <1>3, <1>4 DEF BatchInPlace
<1>6. ~Valid(m, sending[m])
  BY <1>1, TaskFields DEF Valid
<1>7. AfterQueue(m, batch[m][1])
  BY <1>4, <1>5, <1>6 DEF AfterSending
<1>8. /\ \A o : AfterWorking(m, o) => AfterWorking(m, o)'
      /\ \A o : AfterQueue(m, o) => AfterQueue(m, o)'
  BY <1>1, BelowKept DEF AfterQueue, AfterWorking, Valid, Settled
<1>9. Valid(m, sending[m])' /\ sending'[m].offset = batch[m][1]
  BY <1>1, <1>2 DEF Valid
<1>10. AfterQueue(m, sending[m].offset)'
  <2>1. \A o : o = batch[m][1] => AfterQueue(m, o)'
    BY <1>7, <1>8
  <2> QED
    BY <2>1, <1>9
<1>11. queue'[m] # <<>> /\ Valid(m, queue[m][1])' => AfterWorking(m, queue[m][1].offset)'
  BY <1>1, <1>8 DEF InOrder, Valid
<1>12. \A o : o = batch[m][1] + 1 => AfterSending(m, o)'
  BY <1>9 DEF AfterSending
<1>13. CASE Tail(batch[m]) # <<>>
  <2>1. position'[m] - Len(batch'[m]) = batch[m][1] + 1
    BY <1>1, <1>2, <1>3, <1>5
  <2>2. \A i \in 1..Len(batch'[m]) : batch'[m][i] = position'[m] - Len(batch'[m]) + i - 1
    <3> SUFFICES ASSUME NEW i \in 1..(Len(batch[m]) - 1)
                 PROVE  Tail(batch[m])[i] = position[m] - (Len(batch[m]) - 1) + i - 1
      BY <1>1, <1>2
    <3>1. Tail(batch[m])[i] = batch[m][i + 1] /\ i + 1 \in 1..Len(batch[m])
      BY <1>2
    <3>2. batch[m][i + 1] = position[m] - Len(batch[m]) + (i + 1) - 1
      BY <1>4, <3>1 DEF BatchInPlace
    <3> QED
      BY <3>1, <3>2, <1>2, <1>3
  <2>3. OwnBatch(m)'
    BY <1>1, <1>13 DEF OwnBatch
  <2>4. AfterSending(m, position[m] - Len(batch[m]))'
    BY <2>1, <1>12
  <2> QED
    BY <1>10, <1>11, <2>2, <2>3, <2>4 DEF InOrder, BatchInPlace
<1>14. CASE Tail(batch[m]) = <<>>
  <2>0. Len(batch[m]) = 1
    <3>1. \A r : r = <<>> => Len(r) = 0
      OBVIOUS
    <3>2. Len(Tail(batch[m])) = 0
      BY <3>1, <1>14, Zenon
    <3> QED
      BY <3>2, <1>2
  <2>1. position'[m] = batch[m][1] + 1
    BY <1>1, <1>3, <1>5, <2>0
  <2>2. ~OwnBatch(m)'
    BY <1>1, <1>14 DEF OwnBatch
  <2>3. AfterSending(m, position[m])'
    BY <2>1, <1>12
  <2> QED
    BY <1>10, <1>11, <2>2, <2>3 DEF InOrder
<1> QED
  BY <1>13, <1>14

\* The record that waited is now the one in the queue.
LEMMA SendOrdered ==
  ASSUME TypeOK, NEW m \in Members, lease[m] # 0, InOrder(m), Send(m)
  PROVE  InOrder(m)'
<1>1. /\ sending[m] # NoTask /\ queue[m] = <<>>
      /\ queue'[m] = <<sending[m]>> /\ sending'[m] = NoTask
      /\ UNCHANGED <<committed, stored, rejected, lease, polled, batch, position, working>>
  BY DEF Send, TypeOK, group
<1>2. queue'[m] # <<>> /\ queue'[m][1] = sending[m]
  BY <1>1
<1>3. ~Valid(m, sending[m])'
  BY <1>1, TaskFields DEF Valid
<1>4. \A o : AfterWorking(m, o) => AfterWorking(m, o)'
  BY <1>1, BelowKept DEF AfterWorking, Valid, Settled
<1>5. \A o : AfterQueue(m, o) <=> AfterWorking(m, o)
  BY <1>1 DEF AfterQueue
<1>6. \A o : AfterSending(m, o) => AfterSending(m, o)'
  BY <1>1, <1>2, <1>3, <1>4, <1>5 DEF AfterSending, AfterQueue, Valid
<1>7. Valid(m, queue[m][1])' => AfterWorking(m, queue[m][1].offset)'
  <2> DEFINE o == sending[m].offset
  <2>1. Valid(m, sending[m]) => AfterQueue(m, o)
    BY DEF InOrder
  <2>2. Valid(m, sending[m]) => \A p : p = o => AfterWorking(m, p)'
    BY <2>1, <1>4, <1>5
  <2>3. queue'[m][1].offset = o
    BY <1>2
  <2>4. Valid(m, queue[m][1])' => Valid(m, sending[m])
    BY <1>1, <1>2 DEF Valid
  <2> QED
    BY <2>2, <2>3, <2>4
<1> QED
  BY <1>1, <1>3, <1>6, <1>7 DEF InOrder, OwnBatch, BatchInPlace

\* The worker takes the record in the queue, before which all is settled.
LEMMA TakeOrdered ==
  ASSUME TypeOK, NEW m \in Members, lease[m] # 0 => InOrder(m), WorkFollows(m), Take(m)
  PROVE  WorkFollows(m)' /\ (lease'[m] # 0 => InOrder(m)')
<1> DEFINE q == queue[m][1]
<1>1. /\ queue[m] \in Seq(Tasks) /\ queue[m] # <<>> /\ Len(queue[m]) <= 1
      /\ working[m] = NoTask
  BY DEF Take, TypeOK
<1>2. Tail(queue[m]) = <<>> /\ Head(queue[m]) = q /\ q \in Tasks
  BY <1>1
<1> DEFINE w == [q EXCEPT !.stage = "write"]
<1>3. w.lease = q.lease /\ w.offset = q.offset /\ w.stage = "write"
  BY <1>2 DEF Tasks
<1>4. /\ queue'[m] = <<>>
      /\ UNCHANGED <<committed, stored, rejected, lease, polled, batch, position, sending>>
      /\ working'[m] = IF Valid(m, q) THEN w ELSE working[m]
  BY <1>2 DEF Take, TypeOK, group, loop
<1> HIDE DEF q, w
<1>5. \A o : Below(o) => Below(o)'
  BY <1>4, BelowKept DEF Settled
<1>6. Valid(m, q) => lease[m] # 0 /\ AfterWorking(m, q.offset)
  BY <1>1, <1>2, TaskFields DEF Valid, InOrder, q
<1>7. Valid(m, q) => Below(q.offset)
  <2>1. lease[m] # 0 => ~Valid(m, working[m])
    BY <1>1, TaskFields DEF Valid
  <2> QED
    BY <1>6, <2>1 DEF AfterWorking
<1>8. WorkFollows(m)'
  <2>1. CASE Valid(m, q)
    <3>1. \A o : o = q.offset => Below(o)'
      BY <1>5, <1>7, <2>1
    <3>2. working'[m] = w
      BY <1>4, <2>1
    <3> QED
      BY <3>1, <3>2, <1>3 DEF WorkFollows
  <2>2. CASE ~Valid(m, q)
    BY <1>1, <1>4, <2>2, TaskFields DEF WorkFollows
  <2> QED
    BY <2>1, <2>2
<1>9. ASSUME lease[m] # 0 PROVE InOrder(m)'
  <2>1. \A o : AfterQueue(m, o) => AfterWorking(m, o)'
    <3>1. CASE Valid(m, q)
      <4>1. \A o : AfterQueue(m, o) => o = q.offset + 1
        BY <1>1, <3>1 DEF AfterQueue, q
      <4>2. working'[m] = w /\ Valid(m, working[m])'
        BY <1>3, <1>4, <3>1 DEF Valid
      <4> QED
        BY <1>3, <4>1, <4>2 DEF AfterWorking
    <3>2. CASE ~Valid(m, q)
      <4>1. \A o : AfterQueue(m, o) => AfterWorking(m, o)
        BY <3>2 DEF AfterQueue, q
      <4>2. \A o : AfterWorking(m, o) => AfterWorking(m, o)'
        BY <1>4, <1>5, <3>2 DEF AfterWorking, Valid
      <4> QED
        BY <4>1, <4>2
    <3> QED
      BY <3>1, <3>2
  <2>2. \A o : AfterQueue(m, o) => AfterQueue(m, o)'
    BY <1>4, <2>1 DEF AfterQueue
  <2>3. \A o : AfterSending(m, o) => AfterSending(m, o)'
    BY <1>4, <2>2 DEF AfterSending, Valid
  <2>4. lease[m] # 0 => InOrder(m)
    OBVIOUS
  <2> QED
    BY <1>4, <1>9, <2>2, <2>3, <2>4 DEF InOrder, OwnBatch, BatchInPlace, Valid
<1> QED
  BY <1>4, <1>8, <1>9

\* A step of the worker alone: its record is settled before the stage of the commit,
\* and only then, or under a lease that is over, does the worker leave it.
LEMMA WorkerOrdered ==
  ASSUME TypeOK, NEW m \in Members, lease[m] # 0 => InOrder(m), WorkFollows(m),
         Reject(m) \/ Write(m) \/ WriteFails(m) \/ Commit(m) \/ LoseOwnership(m)
  PROVE  WorkFollows(m)' /\ (lease'[m] # 0 => InOrder(m)')
<1> DEFINE t == working[m]
<1> DEFINE c == [t EXCEPT !.stage = "commit"]
<1>1. t \in Tasks /\ t.stage \in {"write", "commit"}
  BY TaskFields DEF TypeOK, Reject, Write, WriteFails, Commit, LoseOwnership
<1>2. c.lease = t.lease /\ c.offset = t.offset /\ c.stage = "commit"
  BY <1>1 DEF Tasks
<1>3. /\ Settled \subseteq Settled'
      /\ UNCHANGED <<lease, polled, batch, position, sending, queue>>
  BY DEF Reject, Write, WriteFails, Commit, LoseOwnership, Settled, group, loop
<1>4. \/ working'[m] = t
      \/ working'[m] = c /\ t.stage = "write" /\ t.offset \in Settled'
      \/ working'[m] = NoTask /\ (t.stage = "commit" \/ ~Valid(m, t))
  BY DEF Reject, Write, WriteFails, Commit, LoseOwnership, Settled, Proceed, Drop, TypeOK
<1> HIDE DEF c, t
<1>5. t.offset \in Offsets
  BY <1>1, TaskFields
<1>6. \A o : Below(o) => Below(o)'
  BY <1>3, BelowKept
<1>7. t.stage = "write" => Below(t.offset)
  BY DEF WorkFollows, t
<1>8. t.stage = "commit" => Below(t.offset + 1)
  BY DEF WorkFollows, t
<1>9. t.stage = "write" /\ t.offset \in Settled' => \A o : o = t.offset + 1 => Below(o)'
  <2> SUFFICES ASSUME t.stage = "write", t.offset \in Settled'
               PROVE  \A o : o = t.offset + 1 => Below(o)'
    OBVIOUS
  <2>1. \A o : o = t.offset => Below(o)'
    BY <1>6, <1>7
  <2>2. \A i \in Offsets : i < t.offset => i \in Settled'
    BY <2>1 DEF Below
  <2>3. \A i \in Offsets : i < t.offset + 1 => i \in Settled'
    BY <2>2, <1>5, ConsumerAssumption DEF Offsets
  <2> QED
    BY <2>3 DEF Below
<1>10. WorkFollows(m)'
  <2>1. CASE working'[m] = t
    <3>1. /\ t.stage = "write" => \A o : o = t.offset => Below(o)'
          /\ t.stage = "commit" => \A o : o = t.offset + 1 => Below(o)'
      BY <1>6, <1>7, <1>8
    <3> QED
      BY <2>1, <3>1 DEF WorkFollows
  <2>2. CASE working'[m] = c /\ t.stage = "write" /\ t.offset \in Settled'
    BY <2>2, <1>2, <1>9 DEF WorkFollows
  <2>3. CASE working'[m] = NoTask
    BY <2>3, TaskFields DEF WorkFollows
  <2> QED
    BY <1>4, <2>1, <2>2, <2>3
<1>11. \A o : lease[m] # 0 /\ AfterWorking(m, o) => AfterWorking(m, o)'
  <2> SUFFICES ASSUME NEW o, lease[m] # 0, AfterWorking(m, o) PROVE AfterWorking(m, o)'
    OBVIOUS
  <2>0. Valid(m, t) => o = t.offset + 1
    BY DEF AfterWorking, t
  <2>00. ~Valid(m, t) => Below(o)
    BY DEF AfterWorking, t
  <2>1. CASE working'[m] = t \/ working'[m] = c
    BY <2>0, <2>00, <2>1, <1>2, <1>3, <1>6 DEF AfterWorking, Valid
  <2>2. CASE working'[m] = NoTask /\ (t.stage = "commit" \/ ~Valid(m, t))
    <3>1. Below(o)'
      <4>1. Below(o)
        BY <2>0, <2>00, <2>2, <1>8
      <4> QED
        BY <4>1, <1>6
    <3>2. ~Valid(m, working[m])'
      BY <2>2, <1>3, TaskFields DEF Valid
    <3> QED
      BY <3>1, <3>2 DEF AfterWorking
  <2> QED
    BY <1>4, <2>1, <2>2
<1>12. ASSUME lease[m] # 0 PROVE InOrder(m)'
  <2>1. \A o : AfterWorking(m, o) => AfterWorking(m, o)'
    BY <1>11, <1>12
  <2>2. \A o : AfterQueue(m, o) => AfterQueue(m, o)'
    BY <1>3, <2>1 DEF AfterQueue, Valid
  <2>3. \A o : AfterSending(m, o) => AfterSending(m, o)'
    BY <1>3, <2>2 DEF AfterSending, Valid
  <2>4. InOrder(m)
    BY <1>12
  <2> QED
    BY <1>3, <2>1, <2>2, <2>3, <2>4 DEF InOrder, OwnBatch, BatchInPlace, Valid
<1> QED
  BY <1>3, <1>10, <1>12

-----------------------------------------------------------------------------
(* The invariant                                                            *)

\* Every step keeps the order, unless it is a mishap.
LEMMA OrderedStep ==
  ASSUME IInv, [Next]_vars, mishaps' = {}
  PROVE  Ordered'
<1>t. TypeOK /\ LeasesGiven
  BY DEF IInv
<1>1. mishaps = {}
  BY <1>t DEF vars, loop, group, Next, Assign, Revoke, SessionExpires, Lose, Crash, Poll, PollFails,
     TakeLease, Send, Take, Reject, Write, WriteFails, Commit, LoseOwnership
<1>2. Below(committed) /\ \A m \in Members : WorkFollows(m) /\ (lease[m] # 0 => InOrder(m))
  BY <1>1 DEF IInv, Ordered
<1>3. Settled \subseteq Settled'
  BY DEF vars, loop, group, Next, Assign, Revoke, SessionExpires, Lose, Crash, Poll, PollFails,
     TakeLease, Send, Take, Reject, Write, WriteFails, Commit, LoseOwnership, Settled
<1>4. CASE UNCHANGED vars
  <2>1. Below(committed)'
    BY <1>2, <1>3, <1>4, BelowKept DEF vars
  <2>2. ASSUME NEW n \in Members PROVE WorkFollows(n)' /\ (lease'[n] # 0 => InOrder(n)')
    BY <1>t, <1>2, <1>3, <1>4, OrderKept, WorkKept DEF vars, loop, group
  <2> QED
    BY <2>1, <2>2 DEF Ordered
<1>5. CASE Next
  <2> PICK m \in Members :
        \/ Assign(m) \/ Revoke(m) \/ SessionExpires(m) \/ Lose(m) \/ Crash(m)
        \/ Poll(m) \/ PollFails(m) \/ TakeLease(m) \/ Send(m)
        \/ Take(m) \/ Reject(m) \/ Write(m) \/ WriteFails(m) \/ Commit(m) \/ LoseOwnership(m)
    BY <1>5 DEF Next
  <2>0. ~PollFails(m)
    BY DEF PollFails
  \* Only m moves.
  <2>1. ASSUME NEW n \in Members, n # m
        PROVE  WorkFollows(n)' /\ (lease'[n] # 0 => InOrder(n)')
    <3>1. /\ lease'[n] = lease[n] /\ polled'[n] = polled[n] /\ batch'[n] = batch[n]
          /\ position'[n] = position[n] /\ sending'[n] = sending[n] /\ queue'[n] = queue[n]
      BY <2>1, <1>t DEF TypeOK, loop, group, Assign, Revoke, SessionExpires, Lose, Crash, Poll,
         PollFails, TakeLease, Send, Take, Reject, Write, WriteFails, Commit, LoseOwnership
    <3>2. working'[n] = working[n]
      BY <2>1, <1>t DEF TypeOK, loop, group, Assign, Revoke, SessionExpires, Lose, Crash, Poll,
         PollFails, TakeLease, Send, Take, Reject, Write, WriteFails, Commit, LoseOwnership,
         Proceed, Drop
    <3> QED
      BY <3>1, <3>2, <1>t, <1>2, <1>3, OrderKept, WorkKept
  <2>2. Below(committed)'
    <3>1. CASE committed' = committed
      BY <3>1, <1>2, <1>3, BelowKept
    <3>2. CASE Commit(m)
      <4>1. \A o : o = working[m].offset + 1 => Below(o)'
        BY <3>2, <1>2, <1>3, BelowKept DEF Commit, WorkFollows
      <4> QED
        BY <3>2, <4>1 DEF Commit
    <3> QED
      BY <3>1, <3>2 DEF Assign, Revoke, SessionExpires, Lose, Crash, Poll,
         PollFails, TakeLease, Send, Take, Reject, Write, WriteFails, LoseOwnership
  <2>3. WorkFollows(m)' /\ (lease'[m] # 0 => InOrder(m)')
    <3>1. CASE Assign(m)
      <4>1. working' = working
        BY <3>1 DEF Assign
      <4> QED
        BY <3>1, <4>1, <1>t, <1>2, <1>3, AssignOrdered, WorkKept
    <3>2. CASE Revoke(m) \/ Lose(m) \/ Crash(m)
      <4>1. lease'[m] = 0
        BY <3>2, <1>t DEF Revoke, Lose, Crash, TypeOK
      <4>2. working'[m] = working[m] \/ working'[m] = NoTask
        BY <3>2, <1>t DEF Revoke, Lose, Crash, Drop, TypeOK
      <4> QED
        BY <4>1, <4>2, <1>2, <1>3, WorkKept
    <3>3. CASE SessionExpires(m)
      <4>1. UNCHANGED <<lease, polled, batch, position, sending, queue, working>>
        BY <3>3 DEF SessionExpires, loop
      <4> QED
        BY <4>1, <1>t, <1>2, <1>3, OrderKept, WorkKept
    <3>4. CASE Poll(m) \/ TakeLease(m) \/ Send(m)
      <4>1. working' = working /\ lease' = lease
        BY <3>4 DEF Poll, TakeLease, Send
      <4>2. WorkFollows(m)'
        BY <4>1, <1>2, <1>3, WorkKept
      <4>3. lease[m] # 0 => InOrder(m)'
        BY <3>4, <1>t, <1>2, PollOrdered, TakeLeaseOrdered, SendOrdered
      <4> QED
        BY <4>1, <4>2, <4>3
    <3>5. CASE Take(m)
      BY <3>5, <1>t, <1>2, TakeOrdered
    <3>6. CASE Reject(m) \/ Write(m) \/ WriteFails(m) \/ Commit(m) \/ LoseOwnership(m)
      BY <3>6, <1>t, <1>2, WorkerOrdered
    <3> QED
      BY <2>0, <3>1, <3>2, <3>3, <3>4, <3>5, <3>6
  <2> QED
    BY <2>1, <2>2, <2>3 DEF Ordered
<1> QED
  BY <1>4, <1>5

\* The invariant holds at the start.
LEMMA InitIInv == Init => IInv
<1> SUFFICES ASSUME Init PROVE IInv
  OBVIOUS
<1>1. TypeOK
  BY InitType
<1>2. LeasesGiven
  BY TaskFields DEF Init, LeasesGiven
<1>3. Below(committed)
  BY ConsumerAssumption DEF Init, Below, Offsets
<1>4. \A m \in Members : WorkFollows(m) /\ lease[m] = 0
  BY TaskFields DEF Init, WorkFollows
<1> QED
  BY <1>1, <1>2, <1>3, <1>4 DEF IInv, Ordered

\* The inductive invariant of the consumer.
THEOREM ConsumerInvariant == Spec => []IInv
<1>1. IInv /\ [Next]_vars => IInv'
  <2> SUFFICES ASSUME IInv, [Next]_vars PROVE IInv'
    OBVIOUS
  <2>1. TypeOK' /\ LeasesGiven'
    BY TypeStep, LeasesStep DEF IInv
  <2>2. mishaps' = {} => Ordered'
    BY OrderedStep
  <2> QED
    BY <2>1, <2>2 DEF IInv
<1> QED
  BY InitIInv, <1>1, PTL DEF Spec

\* No committed offset is past a record that nobody stored or rejected, whatever
\* rebalances, crashes, failed writes and stale commits interleave, as long as no poll
\* was discarded and none straddled two assignments (kafka.go, processor.go).
THEOREM NoRecordIsSkipped == Spec => []NoRecordSkipped
<1>1. IInv => NoRecordSkipped
  BY DEF IInv, NoRecordSkipped, NoGapWithoutMishap, NoGap, Ordered, Below
<1> QED
  BY ConsumerInvariant, <1>1, PTL
=============================================================================
