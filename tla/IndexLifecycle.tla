--------------------------- MODULE IndexLifecycle ---------------------------
(***************************************************************************)
(* The daily indices of the observation store: the log and event writers of *)
(* the Marshaller, which create them by writing, and the retention runner,   *)
(* which deletes those past their day.  Both talk to a cluster that may     *)
(* refuse or lose a call, hold indices of others, or be replaced.            *)
(***************************************************************************)
EXTENDS Naturals, Sequences, FiniteSets

CONSTANTS Streams,         \* among "logs" and "events"
          Batches,         \* Batches[s]: the messages of a stream, each the days of its records
          Foreign,         \* indices <<stream, day>> of someone else under our prefix
          Outdated,        \* indices an older version made, with its mapping
          MaxDay, RetentionDays,
          BatchIndices,    \* deletions a round may try
          MaxRetries,
          MaxFaults,       \* bound: calls refused or lost
          MaxReplacements, \* bound: times the cluster is replaced by an empty one
          MaxRestarts      \* bound: restarts of the Marshaller

Days == 1 .. MaxDay
Names == Streams \X Days

VARIABLES day, cluster,
          template,  \* streams whose index template the cluster has
          index,     \* index[<<stream, day>>]
          writer,    \* the consumer of each stream, at its next call
          stored, dropped,  \* messages acknowledged to Kafka, by their outcome
          runner,    \* the retention round
          bound,     \* the cluster the runner saw first, 0 before that
          faults, restarts

vars == <<day, cluster, template, index, writer, stored, dropped, runner, bound,
          faults, restarts>>
world == <<day, cluster, restarts>>
kafka == <<stored, dropped>>

Absent == [kind |-> "absent", blocked |-> FALSE, docs |-> {}]
Index(kind) == [kind |-> kind, blocked |-> FALSE, docs |-> {}]
Resting == [at |-> "idle", todo |-> {}, name |-> <<"logs", 0>>, attempt |-> 0, left |-> 0]
Waiting(n) == [at |-> "idle", batch |-> n, item |-> 0, on |-> << >>]

Init ==
  /\ day = 1 /\ cluster = 1 /\ template = {}
  /\ index = [i \in Names |-> CASE i \in Foreign -> Index("foreign")
                                [] i \in Outdated -> Index("outdated")
                                [] OTHER -> Absent]
  /\ writer = [s \in Streams |-> Waiting(0)]
  /\ stored = [s \in Streams |-> {}] /\ dropped = [s \in Streams |-> {}]
  /\ runner = Resting /\ bound = 0
  /\ faults = 0 /\ restarts = 0

-----------------------------------------------------------------------------
\* As it would be with a cutoff one day too late.
ExpiredEarly(d) == d + RetentionDays <= day + 1

\* Policy.Classify: the cutoff itself is retained.
Expired(d) == d + RetentionDays <= day

-----------------------------------------------------------------------------
(* Writers.  Logs install the template before they check the date, events    *)
(* after it; events extend the mapping before every document, logs when a    *)
(* document is refused.                                                     *)

First(s) == IF s = "logs" THEN "template" ELSE "check"
AfterCheck(s) == IF s = "logs" THEN "put" ELSE "template"
AfterTemplate(s) == IF s = "logs" THEN "check" ELSE "extend"

Message(s) == Batches[s][writer[s].batch]
Target(s) == <<s, Message(s)[writer[s].item]>>
Doc(s) == <<writer[s].batch, writer[s].item>>
At(s, step) == writer[s].at = step
Goes(s, step) == writer' = [writer EXCEPT ![s].at = step]

\* Any failed call ends Write, and the consumer repeats the whole message.
Again(s) == writer' = [writer EXCEPT ![s].at = First(s), ![s].item = 1, ![s].on = << >>]

\* A permanent error drops the message with all its records.
Drop(s, n) == dropped' = [dropped EXCEPT ![s] = @ \union {n}]
Rejects(s) == writer' = [writer EXCEPT ![s].at = "drop"]

\* The whole batch is refused when one of its records is too old.
Transform(s) ==
  LET n == writer[s].batch + 1 IN
  /\ At(s, "idle") /\ n \in DOMAIN Batches[s]
  /\ \A i \in DOMAIN Batches[s][n] : Batches[s][n][i] <= day
  /\ writer' = [writer EXCEPT ![s] =
       [at |-> IF \E i \in DOMAIN Batches[s][n] : Expired(Batches[s][n][i])
                 THEN "drop" ELSE First(s),
        batch |-> n, item |-> 1, on |-> << >>]]
  /\ UNCHANGED <<world, template, index, kafka, runner, bound, faults>>

CheckDate(s) ==
  /\ At(s, "check")
  /\ IF Expired(Target(s)[2]) THEN Rejects(s) ELSE Goes(s, AfterCheck(s))
  /\ UNCHANGED <<world, template, index, kafka, runner, bound, faults>>

EnsureTemplate(s) ==
  /\ At(s, "template")
  /\ template' = template \union {s}
  /\ Goes(s, AfterTemplate(s))
  /\ UNCHANGED <<world, index, kafka, runner, bound, faults>>

Extended(i) == IF index[i].kind = "outdated" THEN [index[i] EXCEPT !.kind = "ours"]
               ELSE index[i]

\* A missing index is no failure to events, which have not written yet.
ExtendMapping(s) ==
  LET i == Target(s) IN
  /\ At(s, "extend")
  /\ index' = [index EXCEPT ![i] = Extended(i)]
  /\ IF s = "logs" /\ index[i].kind = "absent" THEN Again(s) ELSE Goes(s, "put")
  /\ UNCHANGED <<world, template, kafka, runner, bound, faults>>

\* A document makes its index, by the template if the cluster has one.
With(s, i) ==
  IF index[i].kind = "absent"
    THEN [kind |-> IF s \in template THEN "ours" ELSE "foreign",
          blocked |-> FALSE, docs |-> {Doc(s)}]
    ELSE [index[i] EXCEPT !.docs = @ \union {Doc(s)}]

Refused(i) == index[i].blocked \/ index[i].kind = "outdated"

Put(s) ==
  LET i == Target(s) IN
  /\ At(s, "put")
  /\ IF Refused(i)
       THEN /\ IF s = "logs" /\ ~index[i].blocked THEN Goes(s, "extend") ELSE Again(s)
            /\ UNCHANGED index
       ELSE /\ index' = [index EXCEPT ![i] = With(s, i)]
            /\ writer' = [writer EXCEPT ![s].at = "late", ![s].on = Append(@, cluster)]
  /\ UNCHANGED <<world, template, kafka, runner, bound, faults>>

\* The day may have passed while the document was written.
CheckLate(s) ==
  /\ At(s, "late")
  /\ Goes(s, IF Expired(Target(s)[2]) THEN "block" ELSE "verify")
  /\ UNCHANGED <<world, template, index, kafka, runner, bound, faults>>

BlockExpired(s) ==
  LET i == Target(s) IN
  /\ At(s, "block")
  /\ IF index[i].kind = "absent"
       THEN Again(s) /\ UNCHANGED index
       ELSE Goes(s, "remove") /\ index' = [index EXCEPT ![i].blocked = TRUE]
  /\ UNCHANGED <<world, template, kafka, runner, bound, faults>>

RemoveExpired(s) ==
  /\ At(s, "remove")
  /\ index' = [index EXCEPT ![Target(s)] = Absent]
  /\ Rejects(s)
  /\ UNCHANGED <<world, template, kafka, runner, bound, faults>>

\* The next record of the message, or the acknowledgement of all of it.
NextItem(s) ==
  IF writer[s].item < Len(Message(s))
    THEN writer' = [writer EXCEPT ![s].item = @ + 1, ![s].at = First(s)]
    ELSE Goes(s, "commit")

\* As it would be if the answer to the document were enough.
TrustAnswer(s) ==
  /\ At(s, "verify")
  /\ NextItem(s)
  /\ UNCHANGED <<world, template, index, kafka, runner, bound, faults>>

\* Exactly the properties, types and alias of the template, nothing more.
MeetsContract(i) == index[i].kind = "ours"

\* verifyIndexContract: mapping and alias of the index that was written.
VerifyContract(s) ==
  /\ At(s, "verify")
  /\ IF MeetsContract(Target(s)) THEN NextItem(s) ELSE Again(s)
  /\ UNCHANGED <<world, template, index, kafka, runner, bound, faults>>

Settle(s) ==
  LET n == writer[s].batch IN
  /\ writer[s].at \in {"commit", "drop"}
  /\ IF At(s, "drop") THEN Drop(s, n) /\ UNCHANGED stored
     ELSE stored' = [stored EXCEPT ![s] = @ \union {[batch |-> n, on |-> writer[s].on]}]
          /\ UNCHANGED dropped
  /\ writer' = [writer EXCEPT ![s] = Waiting(n)]
  /\ UNCHANGED <<world, template, index, runner, bound, faults>>

\* What the cluster does for a call whose answer is lost.
LostEffect(s) ==
  LET i == Target(s) IN
  \/ At(s, "template") /\ template' = template \union {s} /\ UNCHANGED index
  \/ /\ UNCHANGED template
     /\ \/ At(s, "extend") /\ index' = [index EXCEPT ![i] = Extended(i)]
        \/ At(s, "put") /\ ~Refused(i) /\ index' = [index EXCEPT ![i] = With(s, i)]
        \/ /\ At(s, "block") /\ index[i].kind # "absent"
           /\ index' = [index EXCEPT ![i].blocked = TRUE]
        \/ At(s, "remove") /\ index' = [index EXCEPT ![i] = Absent]

\* A call of a writer fails, with its effect or without.
WriterFault(s) ==
  /\ writer[s].at \notin {"idle", "check", "late", "commit", "drop"}
  /\ faults < MaxFaults /\ faults' = faults + 1
  /\ UNCHANGED <<template, index>> \/ LostEffect(s)
  /\ Again(s)
  /\ UNCHANGED <<world, kafka, runner, bound>>

-----------------------------------------------------------------------------
(* The retention runner.                                                    *)

Round == IF bound = 0 THEN cluster ELSE bound

\* A round begins with the identity and the list of indices; after the cluster
\* was replaced every round fails until the process is restarted.
StartRound ==
  /\ runner.at = "idle"
  /\ bound' = Round
  /\ cluster = Round
  /\ runner' = [Resting EXCEPT !.at = "pick", !.left = BatchIndices,
                  !.todo = {i \in Names : index[i].kind # "absent"}]
  /\ UNCHANGED <<world, template, index, writer, kafka, faults>>

\* Logs before events, and the oldest day first.
Before(i, j) == \/ i[1] = "logs" /\ j[1] = "events"
                \/ i[1] = j[1] /\ i[2] <= j[2]

\* The next expired index, as long as the round may try one.
Pick ==
  LET due == {i \in runner.todo : Expired(i[2])} IN
  /\ runner.at = "pick"
  /\ IF due = {} \/ runner.left = 0 THEN runner' = Resting
     ELSE \E i \in due :
       /\ \A j \in due : Before(i, j)
       /\ runner' = [at |-> "inspect", todo |-> {j \in runner.todo : ~Before(j, i)},
                     name |-> i, attempt |-> 0, left |-> runner.left - 1]
  /\ UNCHANGED <<world, template, index, writer, kafka, bound, faults>>

Owned(i) == cluster = bound /\ index[i].kind = "ours"

\* Inspect, once before the writes are blocked and once after.
InspectIndex(step, then) ==
  /\ runner.at = step
  /\ runner' = [runner EXCEPT !.at = IF Owned(runner.name) THEN then ELSE "pick"]
  /\ UNCHANGED <<world, template, index, writer, kafka, bound, faults>>

BlockWrites ==
  LET i == runner.name IN
  /\ runner.at = "block"
  /\ IF index[i].kind = "absent"
       THEN runner' = [runner EXCEPT !.at = "pick"] /\ UNCHANGED index
       ELSE /\ runner' = [runner EXCEPT !.at = "inspect again"]
            /\ index' = [index EXCEPT ![i].blocked = TRUE]
  /\ UNCHANGED <<world, template, writer, kafka, bound, faults>>

DeleteIndex ==
  /\ runner.at = "delete"
  /\ index' = [index EXCEPT ![runner.name] = Absent]
  /\ runner' = [runner EXCEPT !.at = "pick"]
  /\ UNCHANGED <<world, template, writer, kafka, bound, faults>>

\* Transient errors are repeated from the first inspection, except those of the
\* second one; the others and the last one go on to the next index.
Retried == \/ runner.at # "inspect again" /\ runner.attempt < MaxRetries
              /\ runner' = [runner EXCEPT !.at = "inspect", !.attempt = @ + 1]
           \/ runner' = [runner EXCEPT !.at = "pick"]

RunnerFault ==
  /\ runner.at \notin {"idle", "pick"}
  /\ faults < MaxFaults /\ faults' = faults + 1
  /\ Retried
  /\ \/ UNCHANGED index
     \/ /\ runner.at = "block" /\ index[runner.name].kind # "absent"
        /\ index' = [index EXCEPT ![runner.name].blocked = TRUE]
     \/ runner.at = "delete" /\ index' = [index EXCEPT ![runner.name] = Absent]
  /\ UNCHANGED <<world, template, writer, kafka, bound>>

RoundTimeout ==
  /\ runner.at # "idle" /\ faults < MaxFaults
  /\ faults' = faults + 1 /\ runner' = Resting
  /\ UNCHANGED <<world, template, index, writer, kafka, bound>>

-----------------------------------------------------------------------------
NextDay == /\ day < MaxDay /\ day' = day + 1
           /\ UNCHANGED <<cluster, restarts, template, index, writer, kafka, runner,
                          bound, faults>>

Replace ==
  /\ cluster <= MaxReplacements /\ cluster' = cluster + 1
  /\ template' = {} /\ index' = [i \in Names |-> Absent]
  /\ UNCHANGED <<day, restarts, writer, kafka, runner, bound, faults>>

\* Kafka delivers again from the last message acknowledged.
Restart ==
  /\ restarts < MaxRestarts /\ restarts' = restarts + 1
  /\ writer' = [s \in Streams |->
       Waiting(IF At(s, "idle") THEN writer[s].batch ELSE writer[s].batch - 1)]
  /\ runner' = Resting /\ bound' = 0
  /\ UNCHANGED <<day, cluster, template, index, kafka, faults>>

Write(s) ==
  \/ Transform(s) \/ CheckDate(s) \/ EnsureTemplate(s) \/ ExtendMapping(s) \/ Put(s)
  \/ CheckLate(s) \/ BlockExpired(s) \/ RemoveExpired(s) \/ VerifyContract(s) \/ Settle(s)

Clean == \/ StartRound \/ Pick \/ BlockWrites \/ DeleteIndex
         \/ InspectIndex("inspect", "block") \/ InspectIndex("inspect again", "delete")

Next == \/ \E s \in Streams : Write(s) \/ WriterFault(s)
        \/ Clean \/ RunnerFault \/ RoundTimeout
        \/ NextDay \/ Replace \/ Restart

\* Days pass, the consumers and the runner go on.
Fairness == WF_vars(NextDay) /\ WF_vars(Clean) /\ \A s \in Streams : WF_vars(Write(s))

Spec == Init /\ [][Next]_vars /\ Fairness

-----------------------------------------------------------------------------
TypeOK ==
  /\ day \in Days /\ template \subseteq Streams
  /\ \A i \in Names : index[i].kind \in {"absent", "ours", "outdated", "foreign"}
  /\ \A s \in Streams : \A d \in dropped[s] : d \in DOMAIN Batches[s]
  /\ bound \in 0 .. cluster /\ faults \in 0 .. MaxFaults

Kept(d) == d > day \/ day - d < RetentionDays

\* client.go, events_client.go: what was acknowledged as stored is there, under an
\* index with our mapping and alias, for as long as it is retained and the cluster
\* that took it stands, whatever the runner and other messages did since.
StoredIsThere ==
  \A s \in Streams : \A m \in stored[s] : \A k \in DOMAIN m.on :
    LET i == <<s, Batches[s][m.batch][k]>> IN
    (m.on[k] = cluster /\ Kept(i[2])) =>
      index[i].kind = "ours" /\ <<m.batch, k>> \in index[i].docs

\* A message is given up only when a record of it is past retention.
DroppedIsOld ==
  \A s \in Streams : \A n \in dropped[s] :
    \E k \in DOMAIN Batches[s][n] : ~Kept(Batches[s][n][k])

\* runner.go, policy.go: no step of the Marshaller deletes an index that is still
\* retained, or one of someone else that it has not itself written to.
DeletesOwn ==
  \A i \in Names :
    (cluster' = cluster /\ index[i].kind # "absent" /\ index'[i].kind = "absent") =>
      /\ ~Kept(i[2])
      /\ index[i].kind = "ours" \/ index[i].docs # {}
DeletesOwnExpired == [][DeletesOwn]_vars

\* Under the fairness above every message is settled, even one that meets an index
\* of someone else (at the latest when it is past retention), and every index of
\* ours is deleted, as long as fewer than BatchIndices of others stand before it.
EverythingAges ==
  /\ \A s \in Streams : \A n \in DOMAIN Batches[s] :
       (At(s, "put") /\ writer[s].batch = n) ~> (At(s, "idle") /\ writer[s].batch >= n)
  /\ \A i \in Names :
       (index[i].kind = "ours" /\ ~Kept(i[2])) ~> index[i].kind # "ours"
=============================================================================
