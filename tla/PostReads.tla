------------------------------ MODULE PostReads ------------------------------
(***************************************************************************)
(* The detail read of one post: the read context fixed in the database,    *)
(* the shared cache of bodies by (epoch, revision), the coordinator that   *)
(* merges equal loads in one process under bounded registrations, and the  *)
(* last query, which checks the context again.  Authors edit and delete    *)
(* the post and an operator restores the database meanwhile.               *)
(*                                                                         *)
(* A caller that gives up leaves its registration with the task; a task    *)
(* may run out of time at any step, and a Redis operation may fail.        *)
(***************************************************************************)
EXTENDS Naturals, FiniteSets, FiniteSetsExt

CONSTANTS Readers,           \* callers, each with one request at a time
          MaxRevision,       \* bound: revisions of the post
          MaxEpochs,         \* bound: epochs of the database
          MaxActiveKeys, MaxExecutors, MaxWaitersPerKey, MaxRegisteredWaiters,
          WaiterSlots, RebuildSlots, DatabaseSlots,  \* capacities of the resource budget
          MaxAgain,          \* bound: requests after the first of each caller
          MaxFaults          \* bound: Redis failures and expired tasks

VARIABLES
  env,        \* business_environment: epoch and status
  post,       \* the row: revision (0 when deleted) and text
  texts,      \* history: the text that each key had in the database
  cache,      \* Redis: the text stored under a key, 0 if none
  reader,     \* requests: step, key and text
  entry,      \* the coordinator's entries by key
  executors,  \* len(activeExecutors)
  slots,      \* slots of the budget in use: waiter, rebuild, database
  asked,      \* requests made again
  faults

vars == <<env, post, texts, cache, reader, entry, executors, slots, asked, faults>>

Keys == (1..MaxEpochs) \X (1..MaxRevision)
Texts == 0..(MaxRevision * MaxEpochs)

NoEntry == [registered |-> 0, at |-> "none", owns |-> {}, text |-> 0]
Idle == [at |-> "idle", key |-> <<1, 1>>, text |-> 0]
Active == {k \in Keys : entry[k].at # "none"}

\* The registrations of each key, numbered, and their count.
Registrations == {x \in Keys \X (1..MaxWaitersPerKey) : x[2] <= entry[x[1]].registered}
RegisteredWaiters == Cardinality(Registrations)

Init ==
  /\ env = [epoch |-> 1, ready |-> TRUE]
  /\ post = [rev |-> 1, text |-> 1]
  /\ texts = [k \in Keys |-> IF k = <<1, 1>> THEN 1 ELSE 0]
  /\ cache = [k \in Keys |-> 0]
  /\ reader = [r \in Readers |-> Idle]
  /\ entry = [k \in Keys |-> NoEntry]
  /\ executors = 0 /\ slots = [waiter |-> 0, rebuild |-> 0, database |-> 0]
  /\ asked = 0 /\ faults = 0

Fault == faults < MaxFaults /\ faults' = faults + 1
NewText == Max({texts[k] : k \in Keys}) + 1

-----------------------------------------------------------------------------
(* The database.                                                            *)

\* Update with new content: the revision moves in the transaction of the text.
Edit ==
  /\ env.ready /\ post.rev \in 1..(MaxRevision - 1)
  /\ post' = [rev |-> post.rev + 1, text |-> NewText]
  /\ texts' = [texts EXCEPT ![<<env.epoch, post.rev + 1>>] = NewText]
  /\ UNCHANGED <<env, cache, reader, entry, executors, slots, asked, faults>>

Delete ==
  /\ env.ready /\ post.rev # 0
  /\ post' = [rev |-> 0, text |-> 0]
  /\ UNCHANGED <<env, texts, cache, reader, entry, executors, slots, asked, faults>>

\* BeginRestore: a new epoch that is not ready.  The rows of the backup, in which the
\* post is at its first revision, were loaded before with the writers stopped.
BeginRestore ==
  /\ env.ready /\ env.epoch < MaxEpochs
  /\ env' = [epoch |-> env.epoch + 1, ready |-> FALSE]
  /\ post' = [rev |-> 1, text |-> NewText]
  /\ texts' = [texts EXCEPT ![<<env.epoch + 1, 1>>] = NewText]
  /\ UNCHANGED <<cache, reader, entry, executors, slots, asked, faults>>

MarkReady ==
  /\ ~env.ready
  /\ env' = [env EXCEPT !.ready = TRUE]
  /\ UNCHANGED <<post, texts, cache, reader, entry, executors, slots, asked, faults>>

\* A cached body reaches the end of its time to live.
Expire(k) ==
  /\ cache[k] # 0
  /\ cache' = [cache EXCEPT ![k] = 0]
  /\ UNCHANGED <<env, post, texts, reader, entry, executors, slots, asked, faults>>

-----------------------------------------------------------------------------
(* The request, detailBody.                                                 *)

Becomes(r, next) == reader' = [reader EXCEPT ![r] = next]
End(r, at) == Becomes(r, [Idle EXCEPT !.at = at])

\* ReadContext: the epoch, the revision and the visibility, in one query.
ReadContext(r) ==
  /\ reader[r].at = "idle"
  /\ IF ~env.ready THEN End(r, "unavailable")
     ELSE IF post.rev = 0 THEN End(r, "not_found")
     ELSE Becomes(r, [Idle EXCEPT !.at = "context", !.key = <<env.epoch, post.rev>>])
  /\ UNCHANGED <<env, post, texts, cache, entry, executors, slots, asked, faults>>

\* GetBody: a hit goes on to the last query, a miss or an error to the coordinator.
ReadCache(r) ==
  /\ reader[r].at = "context"
  /\ \/ /\ cache[reader[r].key] # 0
        /\ Becomes(r, [reader[r] EXCEPT !.at = "body", !.text = cache[reader[r].key]])
        /\ UNCHANGED faults
     \/ /\ cache[reader[r].key] = 0
        /\ Becomes(r, [reader[r] EXCEPT !.at = "load"])
        /\ UNCHANGED faults
     \/ Fault /\ Becomes(r, [reader[r] EXCEPT !.at = "load"])
  /\ UNCHANGED <<env, post, texts, cache, entry, executors, slots, asked>>

\* As it would be without the limit of one key.
RoomAnyKey(k) == /\ RegisteredWaiters < MaxRegisteredWaiters
                 /\ slots.waiter < WaiterSlots
                 /\ k \in Active \/ Cardinality(Active) < MaxActiveKeys

Room(k) == /\ RegisteredWaiters < MaxRegisteredWaiters
           /\ slots.waiter < WaiterSlots
           /\ IF k \in Active THEN entry[k].registered < MaxWaitersPerKey
                              ELSE Cardinality(Active) < MaxActiveKeys

\* register, under the mutex: join the entry of the key or create it.
Register(r) ==
  LET k == reader[r].key IN
  /\ reader[r].at = "load"
  /\ IF ~Room(k)
       THEN /\ End(r, "busy")
            /\ UNCHANGED <<entry, slots>>
       ELSE /\ slots' = [slots EXCEPT !.waiter = @ + 1]
            /\ IF k \in Active
                 THEN /\ entry' = [entry EXCEPT ![k].registered = @ + 1]
                      /\ Becomes(r, [reader[r] EXCEPT !.at = "wait"])
                 ELSE /\ entry' = [entry EXCEPT ![k] =
                                     [NoEntry EXCEPT !.registered = 1, !.at = "registered"]]
                      /\ Becomes(r, [reader[r] EXCEPT !.at = "lead"])
  /\ UNCHANGED <<env, post, texts, cache, executors, asked, faults>>

\* Load, the leader: the task is started after the mutex is released.
StartTask(r) ==
  /\ reader[r].at = "lead"
  /\ Becomes(r, [reader[r] EXCEPT !.at = "wait"])
  /\ entry' = [entry EXCEPT ![reader[r].key].at = "queued"]
  /\ UNCHANGED <<env, post, texts, cache, executors, slots, asked, faults>>

\* As it would be if the caller gave its slot back itself.
GiveUpReleasing(r) ==
  /\ reader[r].at = "wait"
  /\ End(r, "unavailable")
  /\ slots' = [slots EXCEPT !.waiter = @ - 1]
  /\ UNCHANGED <<env, post, texts, cache, entry, executors, asked, faults>>

\* The caller's own wait ends first; the task and the registration go on.
GiveUp(r) ==
  /\ reader[r].at = "wait"
  /\ End(r, "unavailable")
  /\ UNCHANGED <<env, post, texts, cache, entry, executors, slots, asked, faults>>

\* As it would be if only the revision were compared.
AnswerRevision(r) ==
  /\ reader[r].at = "body"
  /\ IF post.rev = 0 THEN End(r, "not_found")
     ELSE IF ~env.ready \/ reader[r].key[2] # post.rev THEN End(r, "unavailable")
     ELSE Becomes(r, [reader[r] EXCEPT !.at = "served"])
  /\ UNCHANGED <<env, post, texts, cache, entry, executors, slots, asked, faults>>

\* FindViewerProjection: the context must still hold in the snapshot that gives
\* the counts and relations of the answer.
Answer(r) ==
  /\ reader[r].at = "body"
  /\ IF post.rev = 0 THEN End(r, "not_found")
     ELSE IF ~env.ready \/ reader[r].key # <<env.epoch, post.rev>>
       THEN End(r, "unavailable")
     ELSE Becomes(r, [reader[r] EXCEPT !.at = "served"])
  /\ UNCHANGED <<env, post, texts, cache, entry, executors, slots, asked, faults>>

\* The caller asks again: an earlier registration of its own may still be held.
Again(r) ==
  /\ asked < MaxAgain /\ asked' = asked + 1
  /\ reader[r].at \in {"unavailable", "not_found", "busy", "served"}
  /\ Becomes(r, Idle)
  /\ UNCHANGED <<env, post, texts, cache, entry, executors, slots, faults>>

-----------------------------------------------------------------------------
(* The shared task, run.                                                    *)

Held(k) == entry[k].owns

\* finish, and the deferred releases: the entry goes, its registrations are given
\* back, and every caller that still waits gets the result.
Finish(k, owns, result, text) ==
  /\ entry' = [entry EXCEPT ![k] = NoEntry]
  /\ slots' = [waiter |-> slots.waiter - entry[k].registered,
               rebuild |-> slots.rebuild - (IF "rebuild" \in owns THEN 1 ELSE 0),
               database |-> slots.database - (IF "database" \in owns THEN 1 ELSE 0)]
  /\ executors' = executors - (IF "executor" \in owns THEN 1 ELSE 0)
  /\ reader' = [r \in Readers |->
                  IF reader[r].at = "wait" /\ reader[r].key = k
                  THEN IF result = "body" THEN [reader[r] EXCEPT !.at = "body", !.text = text]
                       ELSE [Idle EXCEPT !.at = result]
                  ELSE reader[r]]

\* The channel of executors has room; then the budget's slots, or busy.
Acquire(k) ==
  /\ entry[k].at = "queued" /\ executors < MaxExecutors
  /\ \/ /\ slots.rebuild < RebuildSlots /\ slots.database < DatabaseSlots
        /\ executors' = executors + 1
        /\ slots' = [slots EXCEPT !.rebuild = @ + 1, !.database = @ + 1]
        /\ entry' = [entry EXCEPT ![k].at = "recheck",
                                  ![k].owns = {"executor", "rebuild", "database"}]
        /\ UNCHANGED reader
     \/ /\ slots.rebuild >= RebuildSlots \/ slots.database >= DatabaseSlots
        /\ Finish(k, {}, "busy", 0)
  /\ UNCHANGED <<env, post, texts, cache, asked, faults>>

\* The loader looks in the cache again: another process may have filled it.
Recheck(k) ==
  /\ entry[k].at = "recheck"
  /\ \/ /\ cache[k] # 0
        /\ Finish(k, Held(k), "body", cache[k])
        /\ UNCHANGED faults
     \/ /\ cache[k] = 0
        /\ entry' = [entry EXCEPT ![k].at = "origin"]
        /\ UNCHANGED <<reader, executors, slots, faults>>
     \/ /\ Fault
        /\ entry' = [entry EXCEPT ![k].at = "origin"]
        /\ UNCHANGED <<reader, executors, slots>>
  /\ UNCHANGED <<env, post, texts, cache, asked>>

\* As it would be if the row were read without its revision.
FindBodyLatest(k) ==
  /\ entry[k].at = "origin"
  /\ \/ /\ env.ready /\ k[1] = env.epoch /\ post.rev # 0
        /\ entry' = [entry EXCEPT ![k].at = "fill", ![k].text = post.text]
        /\ UNCHANGED <<reader, executors, slots>>
     \/ /\ ~env.ready \/ k[1] # env.epoch \/ post.rev = 0
        /\ Finish(k, Held(k), "unavailable", 0)
  /\ UNCHANGED <<env, post, texts, cache, asked, faults>>

\* FindBody: the row at that revision, in that epoch.
FindBody(k) ==
  /\ entry[k].at = "origin"
  /\ \/ /\ env.ready /\ k = <<env.epoch, post.rev>>
        /\ entry' = [entry EXCEPT ![k].at = "fill", ![k].text = post.text]
        /\ UNCHANGED <<reader, executors, slots>>
     \/ /\ env.ready /\ k[1] = env.epoch /\ k[2] # post.rev
        /\ entry' = [entry EXCEPT ![k].at = "missing"]
        /\ UNCHANGED <<reader, executors, slots>>
     \/ /\ ~env.ready \/ k[1] # env.epoch
        /\ Finish(k, Held(k), "unavailable", 0)
  /\ UNCHANGED <<env, post, texts, cache, asked, faults>>

\* As it would be if another revision were a reason to try again.
FindRevisionAgain(k) ==
  /\ entry[k].at = "missing"
  /\ IF post.rev = 0 THEN Finish(k, Held(k), "not_found", 0)
     ELSE /\ entry' = [entry EXCEPT ![k].at = "origin"]
          /\ UNCHANGED <<reader, executors, slots>>
  /\ UNCHANGED <<env, post, texts, cache, asked, faults>>

\* FindBody's second query: was the row deleted, or does it have another revision?
FindRevision(k) ==
  /\ entry[k].at = "missing"
  /\ Finish(k, Held(k), IF post.rev = 0 THEN "not_found" ELSE "unavailable", 0)
  /\ UNCHANGED <<env, post, texts, cache, asked, faults>>

\* SetBody under the key of the task; a failure does not fail the load.
Fill(k) ==
  /\ entry[k].at = "fill"
  /\ \/ cache' = [cache EXCEPT ![k] = entry[k].text] /\ UNCHANGED faults
     \/ Fault /\ UNCHANGED cache
  /\ Finish(k, Held(k), "body", entry[k].text)
  /\ UNCHANGED <<env, post, texts, asked>>

\* The task's time ends: while it waits for an executor, or at a step of the loader.
TaskExpires(k) ==
  /\ entry[k].at \in {"queued", "recheck", "origin", "missing"} /\ Fault
  /\ Finish(k, Held(k), "unavailable", 0)
  /\ UNCHANGED <<env, post, texts, cache, asked>>

Task(k) == Acquire(k) \/ Recheck(k) \/ FindBody(k) \/ FindRevision(k) \/ Fill(k)
Read(r) == ReadContext(r) \/ ReadCache(r) \/ Register(r) \/ StartTask(r) \/ Answer(r)

Next ==
  \/ Edit \/ Delete \/ BeginRestore \/ MarkReady
  \/ \E k \in Keys : Expire(k) \/ Task(k) \/ TaskExpires(k)
  \/ \E r \in Readers : Read(r) \/ GiveUp(r) \/ Again(r)

Spec == Init /\ [][Next]_vars

Fairness == /\ \A k \in Keys : WF_vars(Task(k))
            /\ \A r \in Readers : WF_vars(Read(r))

-----------------------------------------------------------------------------
Ends == {"unavailable", "not_found", "busy", "served"}

TypeOK ==
  /\ env \in [epoch : 1..MaxEpochs, ready : BOOLEAN]
  /\ post \in [rev : 0..MaxRevision, text : Texts]
  /\ texts \in [Keys -> Texts] /\ cache \in [Keys -> Texts]
  /\ reader \in [Readers -> [at : Ends \cup {"idle", "context", "load", "lead", "wait", "body"},
                             key : Keys, text : Texts]]
  /\ entry \in [Keys -> [registered : 0..MaxWaitersPerKey,
                         at : {"none", "registered", "queued", "recheck", "origin", "missing", "fill"},
                         owns : SUBSET {"executor", "rebuild", "database"},
                         text : Texts]]
  /\ executors \in 0..MaxExecutors /\ faults \in 0..MaxFaults

\* A cached body is the text that its revision has in its epoch, whatever was edited,
\* deleted or restored between the query and the fill.
CacheTrue == \A k \in Keys : cache[k] # 0 => cache[k] = texts[k]

\* Whoever gives up, fails or is refused, the slots in use are those of live
\* registrations and running tasks: nothing leaks, nothing is given back twice.
SlotsBalance ==
  /\ slots.waiter = RegisteredWaiters
  /\ slots.rebuild = Cardinality({k \in Keys : "rebuild" \in entry[k].owns})
  /\ slots.database = Cardinality({k \in Keys : "database" \in entry[k].owns})
  /\ executors = Cardinality({k \in Keys : "executor" \in entry[k].owns})
  /\ \A k \in Keys : Cardinality({r \in Readers : reader[r].at \in {"wait", "lead"} /\ reader[r].key = k})
                       <= entry[k].registered

\* What a request serves is what the database holds at the moment of its last query:
\* never an old revision, a deleted post or another epoch.
ServesCurrent ==
  \A r \in Readers : reader[r].at # "served" /\ reader'[r].at = "served"
    => env.ready /\ reader'[r].text = post.text
ServedCurrent == [][ServesCurrent]_vars

\* A registration does not stay for ever: each entry ends.
EntriesEnd == \A k \in Keys : (entry[k].at # "none") ~> (entry[k].at = "none")
=============================================================================
