------------------------------- MODULE LogPath -------------------------------
(***************************************************************************)
(* The way of a log record from a business process to Monitor's spool: the *)
(* shipper's bounded queue and its single sender, Monitor's ingest         *)
(* handler, and the spool write that a 202 promises.  Requests and answers *)
(* may be lost; Monitor may be away; its vocabulary may refuse a record    *)
(* for good; the process shuts down with a deadline.                       *)
(***************************************************************************)
EXTENDS Naturals, Sequences, FiniteSets, SequencesExt

CONSTANTS Capacity,   \* records the shipper's queue holds
          MaxRecords, \* bound: records logged
          MaxFaults   \* bound: lost requests and answers, failed spool writes

VARIABLES
  queue,      \* the shipper's queue: records [id, ok]
  flight,     \* the record deliver() holds, with the state of its request
  closed,     \* Close has been called: Enqueue refuses
  phase,      \* the sender: "run", "drain" (queue first, then end), "done"
  expired,    \* the shutdown's deadline has passed: the context is cancelled
  accepted,   \* history: records for which Enqueue returned TRUE
  refused,    \* history: records dropped after a permanent rejection
  spool,      \* the identifiers Monitor has written to its log queue, in order
  ghosts,     \* requests given up by the shipper that Monitor may still finish
  count

vars == <<queue, flight, closed, phase, expired, accepted, refused, spool, ghosts, count>>

\* What logs.Validate and NewEnvelope decide of a record, the same at each try:
\* "ok" is false for a message outside the vocabulary, an oversized body, or a
\* field that may be sensitive.
Record == [id : 1..MaxRecords, ok : BOOLEAN]
NoFlight == [rec |-> [id |-> 1, ok |-> TRUE], st |-> "none"]

Init ==
  /\ queue = <<>> /\ flight = NoFlight /\ closed = FALSE /\ phase = "run"
  /\ expired = FALSE /\ accepted = <<>> /\ refused = {} /\ spool = <<>> /\ ghosts = {}
  /\ count = [logged |-> 0, faults |-> 0]

Fault == count.faults < MaxFaults /\ count' = [count EXCEPT !.faults = @ + 1]

\* Enqueue: never blocks; a full queue drops the newest record.
Enqueue ==
  /\ count.logged < MaxRecords
  /\ count' = [count EXCEPT !.logged = @ + 1]
  /\ \E ok \in BOOLEAN :
       LET r == [id |-> count.logged + 1, ok |-> ok] IN
         IF ~closed /\ Len(queue) < Capacity
           THEN queue' = Append(queue, r) /\ accepted' = Append(accepted, r.id)
           ELSE UNCHANGED <<queue, accepted>>
  /\ UNCHANGED <<flight, closed, phase, expired, refused, spool, ghosts>>

\* Close: no record is accepted any more; the sender drains the queue.
Close ==
  /\ ~closed /\ closed' = TRUE
  /\ UNCHANGED <<queue, flight, phase, expired, accepted, refused, spool, ghosts, count>>

\* The deadline of Close: the context is cancelled, requests and waits end.
Expire ==
  /\ closed /\ phase # "done" /\ ~expired /\ expired' = TRUE
  /\ UNCHANGED <<queue, flight, closed, phase, accepted, refused, spool, ghosts, count>>

\* run: the sender sees that the shipper closes, or takes the next record; with
\* both possible, either.
Closing ==
  /\ phase = "run" /\ closed /\ flight.st = "none" /\ phase' = "drain"
  /\ UNCHANGED <<queue, flight, closed, expired, accepted, refused, spool, ghosts, count>>

\* As it would be if the last loop waited for the channel to close.
TakeRunning ==
  /\ phase = "run" /\ flight.st = "none" /\ queue # <<>>
  /\ flight' = [rec |-> Head(queue), st |-> "send"] /\ queue' = Tail(queue)
  /\ UNCHANGED <<closed, phase, expired, accepted, refused, spool, ghosts, count>>

Take ==
  /\ phase \in {"run", "drain"} /\ flight.st = "none" /\ queue # <<>>
  /\ flight' = [rec |-> Head(queue), st |-> "send"] /\ queue' = Tail(queue)
  /\ UNCHANGED <<closed, phase, expired, accepted, refused, spool, ghosts, count>>
Drained ==
  /\ phase = "drain" /\ flight.st = "none" /\ queue = <<>> /\ phase' = "done"
  /\ UNCHANGED <<queue, flight, closed, expired, accepted, refused, spool, ghosts, count>>

\* ingestLog: the record is refused for good, or written to the spool and then
\* answered with 202.  MessageFromRaw keeps the identifier.
Ingest ==
  /\ flight.st = "send" /\ ~expired
  /\ IF flight.rec.ok
       THEN spool' = Append(spool, flight.rec.id) /\ flight' = [flight EXCEPT !.st = "accepted"]
       ELSE flight' = [flight EXCEPT !.st = "rejected"] /\ UNCHANGED spool
  /\ UNCHANGED <<queue, closed, phase, expired, accepted, refused, ghosts, count>>

\* The request never arrives, Monitor or its spool is not available (503), the
\* answer is lost after the handler has done its work, or the shipper's timeout
\* comes first and the handler finishes later.
SendFails ==
  /\ flight.st \in {"send", "accepted", "rejected"} /\ ~expired /\ Fault
  /\ flight' = [flight EXCEPT !.st = "wait"]
  /\ \/ UNCHANGED ghosts
     \/ flight.st = "send" /\ flight.rec.ok /\ ghosts' = ghosts \cup {flight.rec.id}
  /\ UNCHANGED <<queue, closed, phase, expired, accepted, refused, spool>>

LateIngest ==
  /\ \E id \in ghosts : spool' = Append(spool, id) /\ ghosts' = ghosts \ {id}
  /\ UNCHANGED <<queue, flight, closed, phase, expired, accepted, refused, count>>

\* deliver: 202 and a permanent rejection end the record.
Answer ==
  /\ flight.st \in {"accepted", "rejected"} /\ ~expired
  /\ refused' = IF flight.st = "rejected" THEN refused \cup {flight.rec.id} ELSE refused
  /\ flight' = NoFlight
  /\ UNCHANGED <<queue, closed, phase, expired, accepted, spool, ghosts, count>>

\* As it would be if the record went behind the others.
RetryLater ==
  /\ flight.st = "wait" /\ ~expired
  /\ flight' = NoFlight /\ queue' = Append(queue, flight.rec)
  /\ UNCHANGED <<closed, phase, expired, accepted, refused, spool, ghosts, count>>

\* As it would be with one try for each record.
RetryNever ==
  /\ flight.st = "wait" /\ ~expired
  /\ flight' = NoFlight
  /\ UNCHANGED <<queue, closed, phase, expired, accepted, refused, spool, ghosts, count>>

\* deliver: the retry timer; the same bytes and the same identifier again.
Retry ==
  /\ flight.st = "wait" /\ ~expired
  /\ flight' = [flight EXCEPT !.st = "send"]
  /\ UNCHANGED <<queue, closed, phase, expired, accepted, refused, spool, ghosts, count>>

\* The context is cancelled: a request that is under way may still reach Monitor,
\* and the sender ends with what it holds.
GiveUp ==
  /\ expired /\ phase # "done"
  /\ phase' = "done"
  /\ flight' = NoFlight /\ queue' = <<>>
  /\ \/ UNCHANGED ghosts
     \/ flight.st = "send" /\ flight.rec.ok /\ ghosts' = ghosts \cup {flight.rec.id}
  /\ UNCHANGED <<closed, expired, accepted, refused, spool, count>>

Sender == Closing \/ Take \/ Drained \/ Ingest \/ Answer \/ Retry \/ GiveUp
Next == Enqueue \/ Close \/ Expire \/ SendFails \/ LateIngest \/ Sender

Spec == Init /\ [][Next]_vars
\* The sender is one goroutine, requests end by their timeout, and losses are
\* bounded here, so that some try succeeds.
Fairness == WF_vars(Sender)

-----------------------------------------------------------------------------
TypeOK ==
  /\ queue \in Seq(Record) /\ Len(queue) <= Capacity
  /\ flight.rec \in Record /\ flight.st \in {"none", "send", "accepted", "rejected", "wait"}
  /\ {closed, expired} \subseteq BOOLEAN /\ phase \in {"run", "drain", "done"}
  /\ accepted \in Seq(1..MaxRecords) /\ spool \in Seq(1..MaxRecords)

\* Position j of the spool holds the first copy of its record.
FirstCopy(j) == \A i \in 1..(j - 1) : spool[i] # spool[j]

\* Records first reach the spool in the order they were logged, whatever copies
\* retries and late requests leave between them, and nothing arrives that was
\* not accepted.
ArriveInOrder ==
  /\ \A j \in DOMAIN spool :
       FirstCopy(j) => \A i \in 1..(j - 1) : spool[i] < spool[j]
  /\ \A i \in DOMAIN spool : Contains(accepted, spool[i])

\* An accepted record is on the spool, refused for good, or still held by the
\* shipper, until the shutdown's deadline cuts it off.
NoneLost ==
  \A i \in DOMAIN accepted :
    \/ Contains(spool, accepted[i]) \/ accepted[i] \in refused \/ expired
    \/ flight.st # "none" /\ flight.rec.id = accepted[i]
    \/ \E j \in DOMAIN queue : queue[j].id = accepted[i]

\* Close returns: the queue drains, or the deadline cuts it off.
CloseEnds == closed ~> (phase = "done")
=============================================================================
