-------------------------- MODULE SearchProjection --------------------------
(***************************************************************************)
(* How posts get into the search index: the transactions that change the   *)
(* facts, the search indexer that applies their events at least once, and  *)
(* the reindexer that builds a new physical index beside it, moves the     *)
(* alias and copies everything once more.                                  *)
(*                                                                         *)
(* A document is its content revision and whether the post is deleted (the *)
(* tombstone): title and body are a function of the revision.  One data    *)
(* epoch, contract v2; a post of this epoch is always a row or a           *)
(* tombstone, so the branch that deletes a projection without a fact is    *)
(* left out.  A write to an index that is gone creates one without the     *)
(* epoch, which the indexer refuses: it counts as a failed write.          *)
(***************************************************************************)
EXTENDS Integers, FiniteSets, FiniteSetsExt

CONSTANTS Posts,      \* post ids, scanned in their order
          MaxRev,     \* bound on the revisions of a post
          Handlers,   \* deliveries the search indexers work on at a time
          MaxIndices, \* bound on the physical indices built
          Batch,      \* documents of one scan
          MaxFaults   \* bound on failures, lost answers and crashes

ASSUME ProjectionAssumption ==
  /\ Posts \subseteq Nat \ {0} /\ IsFiniteSet(Posts)
  /\ MaxRev \in Nat \ {0} /\ MaxIndices \in Nat \ {0}
  /\ Batch \in Nat \ {0} /\ MaxFaults \in Nat

VARIABLES
  fact,       \* posts and post_search_tombstones
  acked,      \* the events some delivery of which was acknowledged
  applied,    \* business_application_results: event and generation
  alias,      \* the physical index behind the search alias, 0 for none
  built,      \* physical indices created so far
  live,       \* those that exist
  docs,       \* their documents
  stray,      \* writes that were sent and whose sender did not wait
  handler,    \* the delivery each handler works on
  run,        \* the reindexer that holds the advisory lock
  uncovered,  \* the alias has moved and the second copy has not ended
  faults

facts == <<fact>>
indexer == <<acked, applied, handler>>
store == <<alias, built, live, docs>>
reindexer == <<run, uncovered>>
vars == <<fact, acked, applied, alias, built, live, docs, stray, handler, run,
          uncovered, faults>>

Indices == 1..MaxIndices
Documents == [rev : 0..MaxRev, deleted : BOOLEAN]
Nothing == [rev |-> 0, deleted |-> FALSE]
Changes == Posts \X (1..MaxRev)
Committed == {e \in Changes : e[2] <= fact[e[1]].rev}

Free == [at |-> "idle", event |-> <<0, 0>>, index |-> 0, doc |-> Nothing]
NoRun == [at |-> "idle", copy |-> 0, index |-> 0, high |-> 0, after |-> 0,
          page |-> {}, expect |-> 0, seen |-> 0, old |-> 0]

Handlings == [at : {"idle", "check", "read", "resolve", "put", "record", "ack"},
              event : {<<0, 0>>} \union Changes,
              index : {0} \union Indices, doc : Documents]

Runs == [at : {"idle", "high", "scan", "bulk", "refresh", "count", "compare",
               "switch", "drop", "abandon"},
         copy : 0..2, index : {0} \union Indices, high : Nat, after : Nat,
         page : SUBSET [post : Posts, doc : Documents],
         expect : Nat, seen : Nat, old : {0} \union Indices]

TypeOK ==
  /\ fact \in [Posts -> Documents]
  /\ acked \subseteq Committed /\ applied \subseteq Committed \X Indices
  /\ built \in 0..MaxIndices /\ live \subseteq 1..built /\ alias \in {0} \union live
  /\ docs \in [Indices -> [Posts -> Documents]]
  /\ stray \subseteq [index : Indices, post : Posts, doc : Documents]
  /\ handler \in [Handlers -> Handlings]
  /\ \A h \in Handlers : handler[h].at # "idle" => handler[h].event \in Committed
  /\ run \in Runs
  /\ run.at # "idle" => run.copy \in 1..2 /\ run.index \in live
  /\ uncovered \in BOOLEAN /\ faults \in 0..MaxFaults

Init ==
  /\ fact = [p \in Posts |-> Nothing]
  /\ acked = {} /\ applied = {}
  /\ alias = 0 /\ built = 0 /\ live = {}
  /\ docs = [i \in Indices |-> [p \in Posts |-> Nothing]]
  /\ stray = {} /\ handler = [h \in Handlers |-> Free]
  /\ run = NoRun /\ uncovered = FALSE /\ faults = 0

-----------------------------------------------------------------------------
(* The facts, each with its event in one transaction.                      *)

Create(p) ==
  /\ fact[p].rev = 0
  /\ fact' = [fact EXCEPT ![p].rev = 1]
  /\ UNCHANGED <<indexer, store, stray, reindexer, faults>>

Update(p) ==
  /\ fact[p].rev \in 1..(MaxRev - 1) /\ ~fact[p].deleted
  /\ fact' = [fact EXCEPT ![p].rev = @ + 1]
  /\ UNCHANGED <<indexer, store, stray, reindexer, faults>>

Delete(p) ==
  /\ fact[p].rev \in 1..(MaxRev - 1) /\ ~fact[p].deleted
  /\ fact' = [fact EXCEPT ![p] = [rev |-> @.rev + 1, deleted |-> TRUE]]
  /\ UNCHANGED <<indexer, store, stray, reindexer, faults>>

-----------------------------------------------------------------------------
(* Elasticsearch: a write carries the revision as external_gte version.    *)

Newer(old, new) == IF new.rev >= old.rev THEN new ELSE old

WriteTo(i, p, doc) == docs' = [docs EXCEPT ![i][p] = Newer(@, doc)]

\* A write nobody waits for any more reaches the index late, or not at all.
Land(w) ==
  /\ stray' = stray \ {w}
  /\ \/ w.index \in live /\ WriteTo(w.index, w.post, w.doc)
     \/ UNCHANGED docs
  /\ UNCHANGED <<facts, indexer, alias, built, live, reindexer, faults>>

-----------------------------------------------------------------------------
(* The search indexer.  Any committed event may be delivered again.        *)

Moves(h, to) == handler' = [handler EXCEPT ![h] = to]

\* As it would be if an event could be seen before its transaction commits.
DeliverUncommitted(h, e) ==
  /\ handler[h].at = "idle"
  /\ Moves(h, [Free EXCEPT !.at = "check", !.event = e, !.index = alias])
  /\ UNCHANGED <<facts, acked, applied, store, stray, reindexer, faults>>

\* The generation is resolved for the duplicate test; failing to is no error.
Deliver(h, e) ==
  /\ handler[h].at = "idle" /\ e \in Committed
  /\ Moves(h, [Free EXCEPT !.at = "check", !.event = e, !.index = alias])
  /\ UNCHANGED <<facts, acked, applied, store, stray, reindexer, faults>>

IsDuplicate(h) == <<handler[h].event, handler[h].index>> \in applied

CheckApplied(h) ==
  /\ handler[h].at = "check"
  /\ Moves(h, [handler[h] EXCEPT !.at = IF IsDuplicate(h) THEN "ack" ELSE "read"])
  /\ UNCHANGED <<facts, acked, applied, store, stray, reindexer, faults>>

\* FindDocument: the event only names the post, the document is the fact of now.
ReadFact(h) ==
  /\ handler[h].at = "read"
  /\ Moves(h, [handler[h] EXCEPT !.at = "resolve", !.doc = fact[handler[h].event[1]]])
  /\ UNCHANGED <<facts, acked, applied, store, stray, reindexer, faults>>

\* Without an alias the delivery goes back to the queue.
Resolve(h) ==
  /\ handler[h].at = "resolve"
  /\ IF alias = 0 THEN Moves(h, Free)
     ELSE Moves(h, [handler[h] EXCEPT !.at = "put", !.index = alias])
  /\ UNCHANGED <<facts, acked, applied, store, stray, reindexer, faults>>

\* As it would be without the version on the write.
PutUnversioned(h) == LET d == handler[h] IN
  /\ d.at = "put"
  /\ IF d.index \in live
     THEN /\ docs' = [docs EXCEPT ![d.index][d.event[1]] = d.doc]
          /\ Moves(h, [d EXCEPT !.at = "record"])
     ELSE UNCHANGED docs /\ Moves(h, Free)
  /\ UNCHANGED <<facts, acked, applied, alias, built, live, stray, reindexer, faults>>

\* As it would be with the version external for external_gte, a conflict being an error.
PutStrictlyNewer(h) == LET d == handler[h] IN
  /\ d.at = "put"
  /\ IF d.index \in live /\ d.doc.rev > docs[d.index][d.event[1]].rev
     THEN /\ WriteTo(d.index, d.event[1], d.doc)
          /\ Moves(h, [d EXCEPT !.at = "record"])
     ELSE UNCHANGED docs /\ Moves(h, Free)
  /\ UNCHANGED <<facts, acked, applied, alias, built, live, stray, reindexer, faults>>

\* A version conflict is a success once the stored document proves newer.
Put(h) == LET d == handler[h] IN
  /\ d.at = "put"
  /\ IF d.index \in live
     THEN /\ WriteTo(d.index, d.event[1], d.doc)
          /\ Moves(h, [d EXCEPT !.at = "record"])
     ELSE UNCHANGED docs /\ Moves(h, Free)
  /\ UNCHANGED <<facts, acked, applied, alias, built, live, stray, reindexer, faults>>

Record(h) ==
  /\ handler[h].at = "record"
  /\ applied' = applied \union {<<handler[h].event, handler[h].index>>}
  /\ Moves(h, [handler[h] EXCEPT !.at = "ack"])
  /\ UNCHANGED <<facts, acked, store, stray, reindexer, faults>>

Ack(h) ==
  /\ handler[h].at = "ack"
  /\ acked' = acked \union {handler[h].event}
  /\ Moves(h, Free)
  /\ UNCHANGED <<facts, applied, store, stray, reindexer, faults>>

\* An error, a timeout or a crash: the delivery goes back to the queue, and a
\* write that was under way may still land.
GiveUp(h) == LET d == handler[h] IN
  /\ d.at # "idle" /\ faults < MaxFaults
  /\ faults' = faults + 1
  /\ Moves(h, Free)
  /\ stray' = stray \union {[index |-> d.index, post |-> d.event[1], doc |-> d.doc] :
                              x \in {h} \cap {g \in Handlers : handler[g].at = "put"}}
  /\ UNCHANGED <<facts, acked, applied, store, reindexer>>

HandlerStep(h) ==
  \/ CheckApplied(h) \/ ReadFact(h) \/ Resolve(h) \/ Put(h) \/ Record(h) \/ Ack(h)

-----------------------------------------------------------------------------
(* The reindexer.  It runs when an operator starts it, or at a deployment  *)
(* when there is no alias (--if-missing; with an alias that run changes    *)
(* nothing).  GET_LOCK admits one; the lock ends with the connection.      *)

Goes(to) == run' = [run EXCEPT !.at = to]

Start ==
  /\ run.at = "idle" /\ built < MaxIndices
  /\ built' = built + 1 /\ live' = live \union {built + 1}
  /\ run' = [NoRun EXCEPT !.at = "high", !.copy = 1, !.index = built + 1]
  /\ UNCHANGED <<facts, indexer, alias, docs, stray, uncovered, faults>>

\* As it would be if the copy after the switch took the new posts only.
HighWatermarkTail ==
  /\ run.at = "high"
  /\ run' = [run EXCEPT !.at = "scan", !.after = run.high,
                        !.high = Max({0} \union {p \in Posts : fact[p].rev > 0})]
  /\ UNCHANGED <<facts, indexer, store, stray, uncovered, faults>>

HighWatermark ==
  /\ run.at = "high"
  /\ run' = [run EXCEPT !.at = "scan", !.after = 0,
                        !.high = Max({0} \union {p \in Posts : fact[p].rev > 0})]
  /\ UNCHANGED <<facts, indexer, store, stray, uncovered, faults>>

\* The first Batch facts above the last one copied.
Page ==
  LET rest == {p \in Posts : fact[p].rev > 0 /\ run.after < p /\ p <= run.high}
  IN  {p \in rest : Cardinality({q \in rest : q <= p}) <= Batch}

Scan ==
  /\ run.at = "scan"
  /\ IF Page = {}
     THEN /\ Goes("refresh")
          /\ uncovered' = (uncovered /\ run.copy = 1)
     ELSE /\ run' = [run EXCEPT !.at = "bulk", !.page = {[post |-> p, doc |-> fact[p]] : p \in Page}]
          /\ UNCHANGED uncovered
  /\ UNCHANGED <<facts, indexer, store, stray, faults>>

Paged(p) == {w.doc : w \in {v \in run.page : v.post = p}}

\* A conflict means that the index has a newer document already.
Bulk ==
  /\ run.at = "bulk"
  /\ docs' = [docs EXCEPT ![run.index] = [p \in Posts |->
                IF Paged(p) = {} THEN @[p] ELSE Newer(@[p], CHOOSE d \in Paged(p) : TRUE)]]
  /\ run' = [run EXCEPT !.at = "scan", !.page = {}, !.after = Max({w.post : w \in run.page})]
  /\ UNCHANGED <<facts, indexer, alias, built, live, stray, uncovered, faults>>

Countable(i) == Cardinality({p \in Posts : docs[i][p].rev > 0 /\ ~docs[i][p].deleted})

Refresh ==
  /\ run.at = "refresh"
  /\ run' = [run EXCEPT !.at = "count", !.seen = Countable(run.index)]
  /\ UNCHANGED <<facts, indexer, store, stray, uncovered, faults>>

CountUpTo ==
  /\ run.at = "count"
  /\ run' = [run EXCEPT !.at = "compare", !.expect =
               Cardinality({p \in Posts : fact[p].rev > 0 /\ ~fact[p].deleted /\ p <= run.high})]
  /\ UNCHANGED <<facts, indexer, store, stray, uncovered, faults>>

\* A run that fails before it knows of the switch deletes its index.
Failed == IF run.copy = 1 THEN [run EXCEPT !.at = "abandon", !.page = {}] ELSE NoRun

\* Elasticsearch counts what the last refresh made visible, its own or ours.
Compare ==
  /\ run.at = "compare"
  /\ \E count \in {run.seen, Countable(run.index)} :
       IF count # run.expect THEN run' = Failed
       ELSE Goes(IF run.copy = 1 THEN "switch" ELSE "drop")
  /\ UNCHANGED <<facts, indexer, store, stray, uncovered, faults>>

Switched == [run EXCEPT !.at = "high", !.copy = 2, !.old = alias]

SwitchAlias ==
  /\ run.at = "switch"
  /\ alias' = run.index /\ uncovered' = TRUE
  /\ run' = Switched
  /\ UNCHANGED <<facts, indexer, built, live, docs, stray, faults>>

\* The alias moves and the answer is lost: the run takes it for a failure.
SwitchUnanswered ==
  /\ run.at = "switch" /\ faults < MaxFaults
  /\ faults' = faults + 1
  /\ alias' = run.index /\ uncovered' = TRUE
  /\ run' = Failed
  /\ UNCHANGED <<facts, indexer, built, live, docs, stray>>

\* With its index Elasticsearch removes the alias to it.
Abandon ==
  /\ run.at = "abandon"
  /\ live' = live \ {run.index}
  /\ alias' = IF alias = run.index THEN 0 ELSE alias
  /\ run' = NoRun
  /\ UNCHANGED <<facts, indexer, built, docs, stray, uncovered, faults>>

DropOld ==
  /\ run.at = "drop"
  /\ live' = live \ {run.old}
  /\ run' = NoRun
  /\ UNCHANGED <<facts, indexer, alias, built, docs, stray, uncovered, faults>>

LateWrites == {[index |-> run.index, post |-> w.post, doc |-> w.doc] : w \in run.page}

\* As it would be if a run forgot that it had switched.
RunFailsForgetful ==
  /\ run.at \notin {"idle", "abandon"} /\ faults < MaxFaults
  /\ faults' = faults + 1
  /\ stray' = stray \union LateWrites
  /\ run' = [run EXCEPT !.at = "abandon", !.page = {}]
  /\ UNCHANGED <<facts, indexer, store, uncovered>>

\* A call to MySQL or Elasticsearch fails; documents under way may still land.
RunFails ==
  /\ run.at \notin {"idle", "abandon"} /\ faults < MaxFaults
  /\ faults' = faults + 1
  /\ stray' = stray \union LateWrites
  /\ run' = Failed
  /\ UNCHANGED <<facts, indexer, store, uncovered>>

\* The process ends without its deferred calls.
RunCrashes ==
  /\ run.at # "idle" /\ faults < MaxFaults
  /\ faults' = faults + 1
  /\ stray' = stray \union LateWrites
  /\ run' = NoRun
  /\ UNCHANGED <<facts, indexer, store, uncovered>>

RunStep ==
  \/ HighWatermark \/ Scan \/ Bulk \/ Refresh \/ CountUpTo \/ Compare
  \/ SwitchAlias \/ Abandon \/ DropOld

-----------------------------------------------------------------------------

Next ==
  \/ \E p \in Posts : Create(p) \/ Update(p) \/ Delete(p)
  \/ \E w \in stray : Land(w)
  \/ \E h \in Handlers : (\E e \in Changes : Deliver(h, e)) \/ HandlerStep(h) \/ GiveUp(h)
  \/ Start \/ RunStep \/ SwitchUnanswered \/ RunFails \/ RunCrashes

Spec == Init /\ [][Next]_vars

\* The broker delivers an event until a delivery of it is acknowledged, handlers
\* and runs go on, and there is a deployment while no alias exists.
Fairness ==
  /\ \A e \in Changes : SF_vars(e \notin acked /\ \E h \in Handlers : Deliver(h, e))
  /\ \A h \in Handlers : WF_vars(HandlerStep(h))
  /\ WF_vars(RunStep)
  /\ WF_vars(alias = 0 /\ Start)

FairSpec == Spec /\ Fairness

-----------------------------------------------------------------------------

Served(p) == docs[alias][p] = fact[p]

\* An application result tells the truth about the generation it names: as
\* long as that index exists it holds the event's revision or a newer one, in
\* whatever order duplicated and late writes reach it.
EvidenceTrue ==
  \A a \in applied : a[2] \in live => docs[a[2]][a[1][1]].rev >= a[1][2]

\* Nothing is lost over a rebuild: once every event is acknowledged, by
\* whichever generation it was applied to, and the copy after the switch has
\* ended, the index behind the alias holds every fact.
NoFactLost ==
  (acked = Committed /\ ~uncovered /\ alias # 0) => \A p \in Posts : Served(p)

\* The search index never disappears under its readers, except when the
\* answer to the switch is lost: then the run deletes the index it has just
\* put behind the alias.
AliasKept ==
  [][(alias # 0 /\ alias' = 0) => run.at = "abandon" /\ run.copy = 1]_vars

\* In the end every event is acknowledged and the index behind the alias holds
\* every fact, unless the last switch was never followed by its copy or no
\* alias is left.
Converges ==
  <>[](alias # 0 => acked = Committed /\ (~uncovered => \A p \in Posts : Served(p)))
=============================================================================
