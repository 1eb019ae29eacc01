--------------------------- MODULE EventConsumer ---------------------------
(***************************************************************************)
(* The consumers of RabbitMQ (business-worker and search-indexer): several *)
(* processes take deliveries from one queue, each at most Prefetch at a    *)
(* time and one at a time per post.  A delivery is processed, parked,      *)
(* published to the retry queue with a higher attempt, or published to the *)
(* dead queue; only then is it acknowledged.  The retry queue gives a      *)
(* message back to the main queue when its delay is over.  The broker puts *)
(* back whatever a lost session had not acknowledged.                      *)
(*                                                                         *)
(* A queue counts its copies: their order is left open, since retries and  *)
(* redeliveries change it.  What a handler still does once its session *)
(* is lost repeats what the redelivered message does, and is left out.     *)
(***************************************************************************)
EXTENDS Integers, Sequences, FiniteSets, SequencesExt

CONSTANTS Messages,     \* the events published to the queue
          PostOf,       \* the post of each event
          Foreign,      \* events of another epoch, or undecodable
          Poison,       \* events that can never be processed
          Deferred,     \* post events of schema v2, to the search consumer
          Workers,      \* the consumer processes
          Prefetch,     \* deliveries a process may hold
          Limits,       \* the values MAX_RETRIES is given
          ParkingRoom,  \* events the parking table may hold
          MaxFaults     \* bound on failures, and on events published twice

ASSUME ConsumerAssumption ==
  /\ Foreign \cup Poison \cup Deferred \subseteq Messages
  /\ DOMAIN PostOf = Messages
  /\ Prefetch \in Nat \ {0} /\ ParkingRoom \in Nat /\ MaxFaults \in Nat
  /\ Limits # {} /\ Limits \subseteq Nat /\ IsFiniteSet(Limits)
  /\ IsFiniteSet(Workers)

VARIABLES
  main, delayed, dead,  \* the three queues, without the unacknowledged
  held,                 \* the deliveries of each process, oldest first
  session,              \* the AMQP session of each process
  limit,                \* MAX_RETRIES of each process
  applied,              \* events whose transaction has committed
  parked,               \* business_message_parking
  faults

broker == <<main, delayed, dead>>
vars == <<main, delayed, dead, held, session, limit, applied, parked, faults>>

MaxLimit == CHOOSE n \in Limits : \A k \in Limits : k <= n
MinLimit == CHOOSE n \in Limits : \A k \in Limits : n <= k

Copies == [msg : Messages, attempt : 0..MaxLimit]
Slots == [copy : Copies, at : {"queued", "process", "retry", "dead", "ack"}]

Queues == [Copies -> Nat]
InQueue(q) == {c \in Copies : q[c] > 0}

\* Where the broker has copies of m, but those a process is about to acknowledge.
InPlaces(q, m) == UNION {{c} \X (1..q[c]) : c \in [msg : {m}, attempt : 0..MaxLimit]}
HeldPlaces(h, m) ==
  {p \in Workers \X (1..Prefetch) :
     /\ p[2] <= Len(h[p[1]])
     /\ h[p[1]][p[2]].copy.msg = m /\ h[p[1]][p[2]].at # "ack"}

CopiesOf(m) ==
  Cardinality(InPlaces(main, m)) + Cardinality(InPlaces(delayed, m))
    + Cardinality(InPlaces(dead, m)) + Cardinality(HeldPlaces(held, m))

TypeOK ==
  /\ main \in Queues /\ delayed \in Queues /\ dead \in Queues
  /\ held \in [Workers -> Seq(Slots)]
  /\ \A w \in Workers : Len(held[w]) <= Prefetch
  /\ session \in [Workers -> {"up", "closing", "down"}]
  /\ \A w \in Workers : session[w] = "down" => held[w] = <<>>
  /\ limit \in [Workers -> Limits]
  /\ applied \subseteq Messages \ (Foreign \cup Poison)
  /\ parked \subseteq Foreign /\ IsFiniteSet(parked) /\ Cardinality(parked) <= ParkingRoom
  /\ faults \in 0..MaxFaults

More(q, c) == [q EXCEPT ![c] = @ + 1]
Less(q, c) == [q EXCEPT ![c] = @ - 1]
None == [c \in Copies |-> 0]
First(m) == [msg |-> m, attempt |-> 0]

Init ==
  /\ main = [c \in Copies |-> IF c.attempt = 0 THEN 1 ELSE 0]
  /\ delayed = None /\ dead = None
  /\ held = [w \in Workers |-> <<>>]
  /\ session = [w \in Workers |-> "down"]
  /\ limit \in [Workers -> Limits]
  /\ applied = {} /\ parked = {} /\ faults = 0

-----------------------------------------------------------------------------
(* The broker, and the dispatcher that publishes at least once.            *)

PublishAgain(m) ==
  /\ faults < MaxFaults /\ faults' = faults + 1
  /\ main' = More(main, First(m))
  /\ UNCHANGED <<delayed, dead, held, session, limit, applied, parked>>

\* The delay of the retry queue is over.
Expire(c) ==
  /\ c \in InQueue(delayed)
  /\ delayed' = Less(delayed, c) /\ main' = More(main, c)
  /\ UNCHANGED <<dead, held, session, limit, applied, parked, faults>>

-----------------------------------------------------------------------------
(* The session of a process.                                               *)

Open(w) ==
  /\ session[w] = "down"
  /\ session' = [session EXCEPT ![w] = "up"]
  /\ UNCHANGED <<broker, held, limit, applied, parked, faults>>

\* A process without a session is started again with another setting.
Reconfigure(w, n) ==
  /\ session[w] = "down"
  /\ limit' = [limit EXCEPT ![w] = n]
  /\ UNCHANGED <<broker, held, session, applied, parked, faults>>

Receive(w) ==
  /\ session[w] = "up" /\ Len(held[w]) < Prefetch
  /\ \E c \in InQueue(main) :
       /\ main' = Less(main, c)
       /\ held' = [held EXCEPT ![w] = Append(@, [copy |-> c, at |-> "queued"])]
  /\ UNCHANGED <<delayed, dead, session, limit, applied, parked, faults>>

Unacked(w, c) == Cardinality({i \in DOMAIN held[w] : held[w][i].copy = c})

\* The session ends: what is unacknowledged goes back to the queue.
Down(w) ==
  /\ main' = [c \in Copies |-> main[c] + Unacked(w, c)]
  /\ held' = [held EXCEPT ![w] = <<>>]
  /\ session' = [session EXCEPT ![w] = "down"]
  /\ UNCHANGED <<delayed, dead, limit, applied, parked>>

\* As it would be if drain waited for what it has not started, too.
CloseOutstanding(w) ==
  /\ session[w] = "closing" /\ held[w] = <<>>
  /\ Down(w) /\ UNCHANGED faults

\* drain waits for the handlers that run, and not for the deliveries queued.
Close(w) ==
  /\ session[w] = "closing"
  /\ \A i \in DOMAIN held[w] : held[w][i].at = "queued"
  /\ Down(w) /\ UNCHANGED faults

Shutdown(w) ==
  /\ session[w] = "up" /\ faults < MaxFaults /\ faults' = faults + 1
  /\ session' = [session EXCEPT ![w] = "closing"]
  /\ UNCHANGED <<broker, held, limit, applied, parked>>

\* A crash, a lost connection, an acknowledgement that fails, or a drain that
\* takes too long.
Break(w) ==
  /\ session[w] # "down" /\ faults < MaxFaults /\ faults' = faults + 1
  /\ Down(w)

-----------------------------------------------------------------------------
(* Handling one delivery: slot i of process w.                             *)

Msg(w, i) == held[w][i].copy.msg
Attempt(w, i) == held[w][i].copy.attempt

To(w, i, stage) == held' = [held EXCEPT ![w][i].at = stage]
Drop(w, i) == held' = [held EXCEPT ![w] = RemoveAt(@, i)]

At(w, i, stage) == i \in DOMAIN held[w] /\ held[w][i].at = stage

\* Nothing starts while the session is closing, or before an earlier
\* delivery of the same post is done.
Startable(w, i) ==
  /\ At(w, i, "queued") /\ session[w] = "up"
  /\ \A j \in 1..(i - 1) : PostOf[Msg(w, j)] # PostOf[Msg(w, i)]

\* A full parking table leaves the delivery where it is, to try again,
\* even when the table already has the event.
Park(w, i) ==
  /\ Startable(w, i) /\ Msg(w, i) \in Foreign
  /\ Cardinality(parked) < ParkingRoom
  /\ parked' = parked \cup {Msg(w, i)}
  /\ To(w, i, "ack")
  /\ UNCHANGED <<broker, session, limit, applied, faults>>

\* As it would be if the epoch of an event were not looked at.
AdmitAny(w, i) ==
  /\ Startable(w, i)
  /\ To(w, i, IF Attempt(w, i) > limit[w] THEN "dead" ELSE "process")
  /\ UNCHANGED <<broker, session, limit, applied, parked, faults>>

Admit(w, i) ==
  /\ Startable(w, i) /\ Msg(w, i) \notin Foreign
  /\ To(w, i, IF Attempt(w, i) > limit[w] THEN "dead" ELSE "process")
  /\ UNCHANGED <<broker, session, limit, applied, parked, faults>>

\* Done now, or by an earlier delivery of the same event.
Succeed(w, i) ==
  /\ At(w, i, "process") /\ Msg(w, i) \notin Poison
  /\ applied' = applied \cup {Msg(w, i)}
  /\ To(w, i, "ack")
  /\ UNCHANGED <<broker, session, limit, parked, faults>>

Reject(w, i) ==
  /\ At(w, i, "process") /\ Msg(w, i) \in Poison
  /\ To(w, i, "dead")
  /\ UNCHANGED <<broker, session, limit, applied, parked, faults>>

\* As it would be without deferExhausted.
AfterFailureAlways(w, i) ==
  IF Attempt(w, i) < limit[w] THEN "retry" ELSE "dead"

\* The search consumer never gives up a post event of the current schema.
AfterFailure(w, i) ==
  IF Attempt(w, i) < limit[w] \/ Msg(w, i) \in Deferred THEN "retry" ELSE "dead"

\* Processing fails for a while; the transaction may have committed.
Fail(w, i) ==
  /\ At(w, i, "process") /\ Msg(w, i) \notin Poison
  /\ faults < MaxFaults /\ faults' = faults + 1
  /\ applied' \in {applied, applied \cup {Msg(w, i)}}
  /\ To(w, i, AfterFailure(w, i))
  /\ UNCHANGED <<broker, session, limit, parked>>

\* A deferred event starts the attempts again.
NextAttempt(w, i) ==
  [msg |-> Msg(w, i),
   attempt |-> IF Attempt(w, i) < limit[w] THEN Attempt(w, i) + 1 ELSE 0]

\* The second message: the retry, or the dead letter.
Place(w, i) ==
  \/ /\ At(w, i, "retry") /\ delayed' = More(delayed, NextAttempt(w, i))
     /\ UNCHANGED dead
  \/ /\ At(w, i, "dead") /\ dead' = More(dead, held[w][i].copy)
     /\ UNCHANGED delayed

\* As it would be if the delivery were put back after its second message.
RepublishKeeping(w, i) ==
  /\ Place(w, i) /\ Drop(w, i) /\ main' = More(main, held[w][i].copy)
  /\ UNCHANGED <<session, limit, applied, parked, faults>>

Republish(w, i) ==
  /\ Place(w, i) /\ To(w, i, "ack")
  /\ UNCHANGED <<main, session, limit, applied, parked, faults>>

\* nack with requeue; the handler's error then ends the session.  While the
\* session is closing, it is the cancellation that makes the handler fail.
Requeue(w, i) ==
  /\ \/ session[w] = "closing" /\ UNCHANGED faults
     \/ session[w] = "up" /\ faults < MaxFaults /\ faults' = faults + 1
  /\ main' = More(main, held[w][i].copy) /\ Drop(w, i)
  /\ session' = [session EXCEPT ![w] = "closing"]
  /\ UNCHANGED <<limit, applied, parked>>

\* Admission, parking or the failure record is unavailable, or the
\* processing is cancelled.
Unavailable(w, i) ==
  /\ \/ Startable(w, i)
     \/ \E stage \in {"process", "retry", "dead"} : At(w, i, stage)
  /\ Requeue(w, i) /\ UNCHANGED <<delayed, dead>>

\* As it would be if the delivery were acknowledged without a confirmation.
UnconfirmedAcked(w, i) ==
  /\ At(w, i, "retry") \/ At(w, i, "dead")
  /\ faults < MaxFaults /\ faults' = faults + 1
  /\ To(w, i, "ack")
  /\ UNCHANGED <<broker, session, limit, applied, parked>>

\* No confirmation of the second message: the broker may have it or not.
Unconfirmed(w, i) ==
  /\ At(w, i, "retry") \/ At(w, i, "dead")
  /\ Place(w, i) \/ UNCHANGED <<delayed, dead>>
  /\ Requeue(w, i)

Ack(w, i) ==
  /\ At(w, i, "ack") /\ Drop(w, i)
  /\ UNCHANGED <<broker, session, limit, applied, parked, faults>>

-----------------------------------------------------------------------------

Handle(w, i) ==
  Park(w, i) \/ Admit(w, i) \/ Succeed(w, i) \/ Reject(w, i)
    \/ Republish(w, i) \/ Ack(w, i)

Mishap(w, i) == Fail(w, i) \/ Unavailable(w, i) \/ Unconfirmed(w, i)

Next ==
  \/ \E m \in Messages : PublishAgain(m)
  \/ \E c \in InQueue(delayed) : Expire(c)
  \/ \E w \in Workers :
       \/ Open(w) \/ Receive(w) \/ Shutdown(w) \/ Close(w) \/ Break(w)
       \/ \E n \in Limits : Reconfigure(w, n)
       \/ \E i \in 1..Prefetch : Handle(w, i) \/ Mishap(w, i)

\* Processes run, sessions come back and delays end.
Fairness ==
  /\ WF_vars(\E c \in InQueue(delayed) : Expire(c))
  /\ \A w \in Workers :
       /\ WF_vars(Open(w)) /\ WF_vars(Receive(w)) /\ WF_vars(Close(w))
       /\ \A i \in 1..Prefetch : WF_vars(Handle(w, i))

Spec == Init /\ [][Next]_vars /\ Fairness

-----------------------------------------------------------------------------
(* Properties.                                                             *)

\* A published event has been applied, or is parked, or the broker still
\* has it: no order of failures, lost sessions and second messages lets the
\* acknowledgement come before the event is safe (Handler.Handle, retry,
\* deadLetter).
NothingLost ==
  \A m \in Messages : m \in applied \cup parked \/ CopiesOf(m) > 0

\* Without a failure there is one copy of an event: a second message is
\* published instead of the first, never besides it.
CopiesNeedFaults == \A m \in Messages : CopiesOf(m) <= 1 + faults

\* An event in the dead queue could not be processed, or had used up the
\* attempts the strictest process allows; a deferrable one more than those.
DeadDeserved ==
  \A c \in InQueue(dead) :
    \/ c.msg \in Poison
    \/ c.msg \in Deferred /\ c.attempt > MinLimit
    \/ c.msg \notin Deferred /\ c.attempt >= MinLimit

\* deferExhausted promises that an outage never turns a recoverable event
\* into a dead letter.
DeferredNeverDead == \A c \in InQueue(dead) : c.msg \notin Deferred \ Poison

\* Once the failures are over, every event is settled and no delivery, retry
\* or prefetch slot is left behind.
EverySettles ==
  <>[](main = None /\ delayed = None /\ \A w \in Workers : held[w] = <<>>)
=============================================================================
