---------------------------- MODULE StageQueries ----------------------------
(***************************************************************************)
(* The business-stage query (businessstate/query.go, the HTTP handler and   *)
(* the exact visibility search): what became of one post's creation.  The   *)
(* answer is put together from separate reads, of MySQL, the search index   *)
(* and the logs, while the event it asks about is published, applied and    *)
(* cleaned up, the post is edited, and a restore may replace the epoch.     *)
(* A platform replica asks a business replica through its own two limits.   *)
(***************************************************************************)
EXTENDS Naturals, FiniteSets

CONSTANTS Callers,      \* requests that reached a platform replica
          ClientSlots,  \* of the platform's adapter (4)
          ServerSlots,  \* of the business role's service (2)
          MaxEpoch,     \* bound: epochs of the database, 1..MaxEpoch
          MaxRevision,  \* bound: revisions of the post
          MaxFaults,    \* bound: failed reads
          Sources,      \* the reads beyond MySQL a request may ask for
          Selectors     \* what a request may name: "command", "event", "post"

Epochs == 1 .. MaxEpoch

VARIABLES env,         \* business_environment: the current epoch
          row,         \* the durable rows of the creation, all of epoch 1
          rev,         \* posts.content_revision, 0 before the creation
          applied,     \* the revision written to each epoch's index
          searchable,  \* the revision a search of that index finds
          alias,       \* the epoch of the index the alias names
          logged,      \* "no_alias", or the creation's log entries
          clients, servers,   \* slots taken on either side
          query,       \* each caller's request, progress and answer
          seen,        \* history: what held when the caller's query began
          faults

vars == <<env, row, rev, applied, searchable, alias, logged, clients, servers,
          query, seen, faults>>
world == <<env, row, rev, applied, searchable, alias, logged>>
pools == <<clients, servers>>

\* A v1 envelope carries no epoch and its post was created without a command.
NewRow(legacy) ==
  [legacy |-> legacy, command |-> "none", outbox |-> "none",
   need |-> "none", failed |-> FALSE, result |-> FALSE]

Queries == [epoch: Epochs, by: Selectors, include: SUBSET Sources]

Blank == [current |-> 0, command |-> "none", broker |-> "none", row |-> "none",
          event |-> FALSE, post |-> FALSE, bound |-> FALSE,
          consumers |-> {}, visibility |-> "not_requested", fact |-> 0,
          generation |-> 0, matched |-> FALSE, logs |-> "not_requested"]

Idle == [at |-> "idle", waits |-> FALSE, outcome |-> "none"]

Init ==
  /\ env = 1
  /\ \E legacy \in BOOLEAN : row = NewRow(legacy)
  /\ rev = 0
  /\ applied = [e \in Epochs |-> 0]
  /\ searchable = [e \in Epochs |-> 0]
  /\ alias = 1
  /\ logged \in IF "logs" \in Sources THEN {"no_alias", "none"} ELSE {"none"}
  /\ clients = 0 /\ servers = 0
  /\ query = [c \in Callers |-> Idle]
  /\ seen = [c \in Callers |-> [env |-> 0, rev |-> 0, rows |-> {}]]
  /\ faults = 0

\* The rows that exist, and the result, for the history.
Rows ==
  (IF row.command \in {"committed", "expired"} THEN {"command"} ELSE {})
  \union (IF row.outbox \in {"pending", "published"} THEN {"outbox"} ELSE {})
  \union (IF row.need \in {"open", "closed"} THEN {"need"} ELSE {})
  \union (IF row.result THEN {"result"} ELSE {})

-----------------------------------------------------------------------------
(* The other actors, one commit or write at a time.                         *)

\* Bound: the world is of interest while an answer is outstanding.
Outstanding == \E c \in Callers : query[c].at # "done"

Quiet == Outstanding /\ UNCHANGED <<pools, query, seen, faults>>

\* The creation: post, event and, for v2, command and requirement at once.
Commit ==
  /\ rev = 0 /\ env = 1
  /\ rev' = 1
  /\ row' = [row EXCEPT !.outbox = "pending",
                        !.command = IF row.legacy THEN "none" ELSE "committed",
                        !.need = IF row.legacy THEN "none" ELSE "open"]
  /\ Quiet /\ UNCHANGED <<env, applied, searchable, alias, logged>>

Edit ==
  /\ rev \in 1 .. MaxRevision - 1
  /\ rev' = rev + 1
  /\ Quiet /\ UNCHANGED <<env, row, applied, searchable, alias, logged>>

Publish ==
  /\ row.outbox = "pending"
  /\ row' = [row EXCEPT !.outbox = "published"]
  /\ Quiet /\ UNCHANGED <<env, rev, applied, searchable, alias, logged>>

\* The indexer writes the current revision to the index of the epoch.
Apply ==
  /\ rev > 0 /\ applied[env] < rev
  /\ applied' = [applied EXCEPT ![env] = rev]
  /\ Quiet /\ UNCHANGED <<env, row, rev, searchable, alias, logged>>

Refresh(e) ==
  /\ searchable[e] # applied[e]
  /\ searchable' = [searchable EXCEPT ![e] = applied[e]]
  /\ Quiet /\ UNCHANGED <<env, row, rev, applied, alias, logged>>

\* The result of the application closes the requirement in one transaction.
RecordResult ==
  /\ row.need = "open" /\ applied[1] > 0
  /\ row' = [row EXCEPT !.need = "closed", !.result = TRUE]
  /\ Quiet /\ UNCHANGED <<env, rev, applied, searchable, alias, logged>>

RecordFailure ==
  /\ row.need = "open" /\ ~row.failed
  /\ faults < MaxFaults /\ faults' = faults + 1
  /\ row' = [row EXCEPT !.failed = TRUE]
  /\ Outstanding
  /\ UNCHANGED <<env, rev, applied, searchable, alias, logged, pools, query, seen>>

\* Retention: a published row without an open requirement, then the closed
\* requirement with its result and failures, and the receipt of the command.
Clean ==
  /\ \/ /\ row.outbox = "published" /\ row.need # "open"
        /\ row' = [row EXCEPT !.outbox = "gone"]
     \/ /\ row.need = "closed" /\ row.outbox = "gone"
        /\ row' = [row EXCEPT !.need = "gone", !.result = FALSE, !.failed = FALSE]
     \/ /\ row.command = "committed" /\ row.need = "gone"
        /\ row' = [row EXCEPT !.command = "expired"]
     \/ /\ row.command = "expired"
        /\ row' = [row EXCEPT !.command = "gone"]
  /\ Quiet /\ UNCHANGED <<env, rev, applied, searchable, alias, logged>>

Restore ==
  /\ env < MaxEpoch
  /\ env' = env + 1
  /\ Quiet /\ UNCHANGED <<row, rev, applied, searchable, alias, logged>>

SwitchAlias ==
  /\ alias < env
  /\ alias' = env
  /\ applied' = [applied EXCEPT ![env] = rev]
  /\ searchable' = [searchable EXCEPT ![env] = rev]
  /\ Quiet /\ UNCHANGED <<env, row, rev, logged>>

\* Logs arrive with the epoch, or without one from an older process, and the
\* lifecycle removes them with their index.
LogArrives ==
  /\ "logs" \in Sources
  /\ \/ logged \in {"no_alias", "none"} /\ rev > 0
        /\ logged' = IF row.legacy THEN "without_epoch" ELSE "of_epoch"
     \/ logged \notin {"no_alias", "none"} /\ logged' = "none"
  /\ Quiet /\ UNCHANGED <<env, row, rev, applied, searchable, alias>>

World ==
  \/ Commit \/ Edit \/ Publish \/ Apply \/ RecordResult \/ RecordFailure
  \/ Clean \/ Restore \/ SwitchAlias \/ LogArrives
  \/ \E e \in Epochs : Refresh(e)

-----------------------------------------------------------------------------
(* One query.                                                               *)

Running(c) == query[c].at \notin {"idle", "asked", "done"}
Reads(c) == query[c].ask
Ans(c) == query[c].ans
EpochQuality(asked, current) == IF asked = current THEN "known" ELSE "stale_epoch"
AbsentQuality(asked, current) ==
  IF asked = current THEN "no_evidence" ELSE "legacy_unknown"

Step(c, at, ans) ==
  query' = [query EXCEPT ![c].at = at, ![c].ans = ans]

\* Only what exists can be asked about: identifiers come from responses.
Ask(c) ==
  /\ query[c].at = "idle" /\ rev > 0
  /\ IF clients < ClientSlots
       THEN \E r \in Queries :
              /\ query' = [query EXCEPT ![c] = [at |-> "asked", waits |-> TRUE,
                             outcome |-> "none", ask |-> r, ans |-> Blank]]
              /\ clients' = clients + 1
       ELSE query' = [query EXCEPT ![c] = [Idle EXCEPT !.at = "done",
                                                       !.outcome = "busy"]]
            /\ UNCHANGED clients
  /\ UNCHANGED <<world, servers, seen, faults>>

\* The platform's side of an exchange ends: with the answer, with the status of
\* the other side, or at its own deadline while the other side still reads.
Leave(c, outcome) ==
  /\ query' = [query EXCEPT ![c].waits = FALSE, ![c].outcome = outcome]
  /\ clients' = clients - 1

Answered(c, outcome) ==
  IF query[c].waits
    THEN /\ query' = [query EXCEPT ![c].at = "done", ![c].waits = FALSE,
                                   ![c].outcome = outcome]
         /\ clients' = clients - 1
    ELSE query' = [query EXCEPT ![c].at = "done"] /\ UNCHANGED clients

\* A busy service and a service without a backend both answer 503, and the
\* adapter reports either as busy.
Adapted(outcome) == IF outcome = "ok" THEN "ok" ELSE "busy"

Admit(c) ==
  /\ query[c].at = "asked"
  /\ IF servers < ServerSlots
       THEN /\ servers' = servers + 1
            /\ query' = [query EXCEPT ![c].at = "environment"]
            /\ seen' = [seen EXCEPT ![c] = [env |-> env, rev |-> rev, rows |-> Rows]]
            /\ UNCHANGED clients
       ELSE /\ Answered(c, Adapted("busy"))
            /\ UNCHANGED <<servers, seen>>
  /\ UNCHANGED <<world, faults>>

\* A slot that an early return keeps.
KeepSlot == UNCHANGED servers

Release == servers' = servers - 1

Finish(c, ans) ==
  /\ Release
  /\ IF query[c].waits
       THEN /\ query' = [query EXCEPT ![c].at = "done", ![c].waits = FALSE,
                                      ![c].outcome = "ok", ![c].ans = ans]
            /\ clients' = clients - 1
       ELSE query' = [query EXCEPT ![c].at = "done"] /\ UNCHANGED clients

\* Current, the budget and the recent arrivals.
ReadEnvironment(c) ==
  /\ query[c].at = "environment"
  /\ Step(c, "command", [Ans(c) EXCEPT !.current = env])
  /\ UNCHANGED <<world, pools, seen, faults>>

CommandEvidence(asked, current) ==
  CASE row.command = "expired" -> "expired"
    [] OTHER -> EpochQuality(asked, current)

FoundCommand(asked) == asked = 1 /\ row.command \in {"committed", "expired"}

ReadCommand(c) ==
  LET asked == Reads(c).epoch  a == Ans(c) IN
  /\ query[c].at = "command"
  /\ IF FoundCommand(asked)
       THEN Step(c, "broker", [a EXCEPT !.command = CommandEvidence(asked, a.current),
                                        !.event = TRUE, !.post = TRUE, !.bound = TRUE])
       ELSE Step(c, IF Reads(c).by = "event" THEN "broker" ELSE "choose",
                 [a EXCEPT !.command = AbsentQuality(asked, a.current),
                           !.event = (Reads(c).by = "event")])
  /\ UNCHANGED <<world, pools, seen, faults>>

\* The envelope compared with the epoch of today.
FoundCurrentBroker(asked) ==
  row.outbox \in {"pending", "published"} /\ (row.legacy \/ env = 1)

\* The row whose envelope is of another epoch counts as absent.
FoundBroker(asked) ==
  row.outbox \in {"pending", "published"} /\ (row.legacy \/ asked = 1)

ReadBroker(c) ==
  LET asked == Reads(c).epoch  a == Ans(c) IN
  /\ query[c].at = "broker"
  /\ Step(c, "consumers",
          IF FoundBroker(asked)
            THEN [a EXCEPT !.broker = IF row.legacy THEN "legacy_unknown"
                                      ELSE EpochQuality(asked, a.current),
                           !.row = row.outbox, !.post = TRUE, !.bound = a.bound \/ ~row.legacy]
            ELSE [a EXCEPT !.broker = AbsentQuality(asked, a.current)])
  /\ UNCHANGED <<world, pools, seen, faults>>

ConsumerStatus == CASE row.result -> "completed"
                    [] row.failed -> "none"
                    [] OTHER -> "pending"

\* One statement joins the requirement, its result and its failures.
ReadConsumers(c) ==
  LET asked == Reads(c).epoch  a == Ans(c) IN
  /\ query[c].at = "consumers"
  /\ Step(c, "choose",
          [a EXCEPT !.consumers =
             IF asked = 1 /\ row.need \in {"open", "closed"}
               THEN {[quality |-> EpochQuality(asked, a.current),
                      status |-> ConsumerStatus, failed |-> row.failed]}
               ELSE {}])
  /\ UNCHANGED <<world, pools, seen, faults>>

\* What the persistent part found decides whether the search is asked at all.
Choose(c) ==
  LET a == Ans(c)  r == Reads(c) IN
  /\ query[c].at = "choose"
  /\ CASE "visibility" \notin r.include -> Step(c, "logs", a)
       [] "visibility" \in r.include /\ r.epoch # a.current ->
            Step(c, "logs", [a EXCEPT !.visibility = "stale_epoch"])
       [] "visibility" \in r.include /\ r.epoch = a.current /\ ~(a.post /\ a.bound) ->
            Step(c, "logs", [a EXCEPT !.visibility = "no_evidence"])
       [] OTHER -> Step(c, "fact", a)
  /\ UNCHANGED <<world, pools, seen, faults>>

ReadFact(c) ==
  /\ query[c].at = "fact"
  /\ Step(c, "alias", [Ans(c) EXCEPT !.fact = rev])
  /\ UNCHANGED <<world, pools, seen, faults>>

\* The alias names one index, whose metadata names its epoch.
ReadAlias(c) ==
  /\ query[c].at = "alias"
  /\ IF alias = Reads(c).epoch
       THEN Step(c, "index", [Ans(c) EXCEPT !.generation = alias])
       ELSE Step(c, "logs", [Ans(c) EXCEPT !.visibility = "stale_epoch"])
  /\ UNCHANGED <<world, pools, seen, faults>>

SearchExact(c) ==
  LET a == Ans(c) IN
  /\ query[c].at = "index"
  /\ Step(c, "logs", [a EXCEPT !.visibility = "known",
                               !.matched = (searchable[a.generation] = a.fact)])
  /\ UNCHANGED <<world, pools, seen, faults>>

LogQuality(asked) ==
  CASE logged = "no_alias" -> "expired"
    [] logged = "without_epoch" -> "legacy_unknown"
    [] logged = "of_epoch" /\ asked = 1 -> "known"
    [] OTHER -> "no_evidence"

ReadLogs(c) ==
  /\ query[c].at = "logs"
  /\ Finish(c, IF "logs" \in Reads(c).include
                 THEN [Ans(c) EXCEPT !.logs = LogQuality(Reads(c).epoch)] ELSE Ans(c))
  /\ UNCHANGED <<world, seen, faults>>

\* A failed or late read of MySQL ends the query; a failed read of the search or
\* of the logs is part of the answer.
ReadFails(c) ==
  /\ faults < MaxFaults /\ faults' = faults + 1
  /\ \/ /\ query[c].at \in {"environment", "command", "broker", "consumers"}
        /\ Release
        /\ Answered(c, Adapted("unavailable"))
     \/ /\ query[c].at \in {"fact", "alias", "index"}
        /\ Step(c, "logs", [Ans(c) EXCEPT !.visibility = "backend_error"])
        /\ UNCHANGED pools
     \/ /\ query[c].at = "logs" /\ "logs" \in Reads(c).include
        /\ Finish(c, [Ans(c) EXCEPT !.logs = "backend_error"])
  /\ UNCHANGED <<world, seen>>

\* Two seconds passed on the platform's side: its slot is free at once, while
\* the business role goes on until its next read notices the cancelled context.
GiveUp(c) ==
  /\ query[c].at \notin {"idle", "done"} /\ query[c].waits
  /\ faults < MaxFaults /\ faults' = faults + 1
  /\ Leave(c, "unavailable")
  /\ UNCHANGED <<world, servers, seen>>

Noticed(c) ==
  /\ Running(c) /\ ~query[c].waits
  /\ Release
  /\ query' = [query EXCEPT ![c].at = "done"]
  /\ UNCHANGED <<world, clients, seen, faults>>

Advance(c) ==
  \/ Admit(c) \/ ReadEnvironment(c) \/ ReadCommand(c) \/ ReadBroker(c)
  \/ ReadConsumers(c) \/ Choose(c) \/ ReadFact(c) \/ ReadAlias(c)
  \/ SearchExact(c) \/ ReadLogs(c) \/ Noticed(c)

Next == World \/ \E c \in Callers : Ask(c) \/ Advance(c) \/ ReadFails(c) \/ GiveUp(c)

Spec == Init /\ [][Next]_vars

-----------------------------------------------------------------------------
Qualities == {"none", "known", "no_evidence", "legacy_unknown", "stale_epoch",
              "expired", "not_requested", "backend_error"}

TypeOK ==
  /\ env \in Epochs /\ alias \in Epochs /\ rev \in 0 .. MaxRevision
  /\ row.outbox \in {"none", "pending", "published", "gone"}
  /\ row.need \in {"none", "open", "closed", "gone"}
  /\ row.command \in {"none", "committed", "expired", "gone"}
  /\ applied \in [Epochs -> 0 .. MaxRevision]
  /\ searchable \in [Epochs -> 0 .. MaxRevision]
  /\ \A c \in Callers : query[c].outcome \in {"none", "ok", "busy", "unavailable"}
  /\ faults \in 0 .. MaxFaults

Answer(c) == query[c].at = "done" /\ query[c].outcome = "ok"

\* query.go: slots are counted exactly on both sides, whichever of the two gives
\* up first, so that abandoned queries cannot shut the service.
SlotsExact ==
  /\ servers = Cardinality({c \in Callers : Running(c)}) /\ servers <= ServerSlots
  /\ clients = Cardinality({c \in Callers : query[c].waits}) /\ clients <= ClientSlots

\* query.go: evidence called known is of an epoch that was current when the query
\* began or became current during it, and that holds the asked rows.
KnownIsCurrent ==
  \A c \in Callers : Answer(c) =>
    LET a == Ans(c)  asked == Reads(c).epoch IN
    /\ a.command = "known" => asked = 1 /\ seen[c].env <= asked
    /\ a.broker = "known" => ~row.legacy /\ asked = 1 /\ seen[c].env <= asked
    /\ \A x \in a.consumers : x.quality = "known" => seen[c].env <= asked

\* query.go, elasticsearch.go: a positive visibility says that the index of the
\* asked epoch was searchable with exactly the revision MySQL held during the
\* query; no restore, edit or slow refresh in between forges it.
MatchIsEarned ==
  \A c \in Callers : Answer(c) /\ Ans(c).matched =>
    LET a == Ans(c)  asked == Reads(c).epoch IN
    /\ a.visibility = "known" /\ a.current = asked /\ a.generation = asked
    /\ a.fact >= seen[c].rev
    /\ applied[asked] >= a.fact

\* query.go: nothing that was there from the beginning to the end of the query is
\* reported as absent: the command of the asked epoch, the row of the broker,
\* the requirement of the consumer.
NothingOverlooked ==
  \A c \in Callers : Answer(c) =>
    LET a == Ans(c)  asked == Reads(c).epoch
        kept == IF asked = 1 THEN seen[c].rows \intersect Rows ELSE {} IN
    /\ "command" \in kept => a.command \in {"known", "stale_epoch", "expired"}
    /\ "outbox" \in kept /\ a.event => a.row # "none"
    /\ "need" \in kept /\ a.event => a.consumers # {}

\* query.go: a consumer that had finished before the query is never called
\* pending, and one that is called completed had recorded its result.
PendingMeansOpen ==
  \A c \in Callers : Answer(c) =>
    \A x \in Ans(c).consumers :
      /\ x.status = "pending" => "result" \notin seen[c].rows
      /\ x.status = "completed" => row.need \in {"closed", "gone"}

=============================================================================
