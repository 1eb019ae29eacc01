------------------------------ MODULE Searches ------------------------------
(***************************************************************************)
(* Searches of posts, and queries of logs and of events: pages of a        *)
(* snapshot that Elasticsearch keeps open (a point in time), which a       *)
(* signed cursor names together with the last hit looked at.               *)
(*                                                                         *)
(* A search of posts resolves the generation of the data epoch, reads hits *)
(* of the snapshot and takes the posts from MySQL, leaving out those that  *)
(* are gone; when too many are, it reads on, a few rounds, and then        *)
(* answers what it has.  Queries of records return the documents as they   *)
(* are.  Times are in units of the keep-alive.                             *)
(***************************************************************************)
EXTENDS Integers, Sequences, FiniteSets, SequencesExt

CONSTANTS Kinds,       \* "posts", "records"
          Docs,        \* documents; a pair of neighbours shares score or timestamp
          Generations, \* 1 .. n, physical indices in the order they are made
          Limits,      \* page sizes a client asks for
          Rounds,      \* maximumScanRounds
          MaxTime,     \* bound: the clock
          MaxChanges,  \* bound: changes of documents and posts
          MaxFaults    \* bound: failed calls and lost answers; snapshots, less one

VARIABLES kind,  \* what is searched
          es,    \* Elasticsearch: alias, documents and epoch of each index, open snapshots
          db,    \* MySQL: live posts and the data epoch
          req,   \* the request in progress
          walk,  \* the client: its pages and its cursor
          env    \* clock, bounds, and the snapshots nobody can close any more

vars == <<kind, es, db, req, walk, env>>

Hit(d) == [major |-> d \div 2, minor |-> d]
None == [major |-> 0, minor |-> 0]
NoCursor == [pit |-> 0, gen |-> 0, epoch |-> 0, after |-> None, expires |-> 0, limit |-> 0]
Idle == [st |-> "idle", cursor |-> NoCursor, limit |-> 0, epoch |-> 0, gen |-> 0, pit |-> 0,
         whole |-> {}, after |-> None, last |-> None, hits |-> <<>>, page |-> <<>>, round |-> 0]

Init ==
  /\ kind \in Kinds
  /\ es = [alias |-> 1, docs |-> [g \in Generations |-> IF g = 1 THEN Docs ELSE {}],
           epoch |-> [g \in Generations |-> 1], kept |-> {1}, pits |-> {},
           bad |-> {}]
  /\ db = [live |-> Docs, epoch |-> 1]
  /\ req = Idle
  /\ walk = [st |-> "idle", cursor |-> NoCursor, seen |-> <<>>, steady |-> {}, pages |-> 0]
  /\ env = [now |-> 1, opened |-> 0, changes |-> 0, faults |-> 0, stuck |-> {}]

\* The client is through.
Over == walk.st \in {"done", "refused"}

Fault == env.faults < MaxFaults
Open(p) == \E q \in es.pits : q.id = p
Snapshot(p) == CHOOSE q \in es.pits : q.id = p

-----------------------------------------------------------------------------
(* Elasticsearch                                                            *)

\* Past, as it would be if the cursor held the score or the timestamp alone.
PastMajor(c, h) == h.major < c.major
\* search_after: the hits further down, a tie is broken by the id (of records by _shard_doc).
Past(c, h) == h.major < c.major \/ (h.major = c.major /\ h.minor < c.minor)
Further(c, h) == c = None \/ Past(c, h)
Before(a, b) == a.major > b.major \/ (a.major = b.major /\ a.minor > b.minor)

Hits(p, after, limit) ==
  LET found == {h \in {Hit(d) : d \in Snapshot(p).docs} : Further(after, h)}
      sorted == SetToSortSeq(found, Before)
  IN SubSeq(sorted, 1, IF Len(sorted) > limit THEN limit + 1 ELSE Len(sorted))

\* A search extends what it reads by the keep-alive.
Extended(p) ==
  {IF q.id = p THEN [q EXCEPT !.until = env.now + 1] ELSE q : q \in es.pits}

\* Elasticsearch closes a snapshot that nobody read for the keep-alive, some time later.
Reap(q) ==
  /\ ~Over /\ q.until <= env.now
  /\ es' = [es EXCEPT !.pits = @ \ {q}]
  /\ UNCHANGED <<kind, db, req, walk, env>>

-----------------------------------------------------------------------------
(* Requests                                                                 *)

\* An answer without page; a client tries again after an unavailable one, not after a refusal.
Unavailable == req' = Idle /\ UNCHANGED walk
Refused == req' = Idle /\ walk' = [walk EXCEPT !.st = "refused"]

\* ClosePointInTime, whose failure is ignored.
Close(p, failed) ==
  /\ es' = [es EXCEPT !.pits = IF failed THEN @ ELSE {q \in @ : q.id # p}]
  /\ env' = [env EXCEPT !.faults = @ + (IF failed THEN 1 ELSE 0),
                        !.stuck = IF failed THEN @ \cup {p} ELSE @]

\* The expiry is checked first: of a search the moment itself is too late, of a query not.
TooLate(c) == c # NoCursor /\ IF kind = "posts" THEN env.now >= c.expires ELSE env.now > c.expires

Ask(limit) ==
  /\ req.st = "idle" /\ walk.st \in {"idle", "going"}
  /\ LET c == walk.cursor
         pages == IF kind = "records" /\ c # NoCursor THEN c.limit ELSE limit
         first == CASE kind = "posts" -> "epoch" [] c = NoCursor -> "open" [] OTHER -> "scan"
     IN IF TooLate(c) THEN Refused
        ELSE /\ req' = [Idle EXCEPT !.cursor = c, !.limit = pages, !.pit = c.pit, !.after = c.after,
                                    !.st = first]
             /\ UNCHANGED walk
  /\ UNCHANGED <<kind, es, db, env>>

CurrentEpoch ==
  /\ req.st = "epoch"
  /\ req' = [req EXCEPT !.st = "resolve", !.epoch = db.epoch]
  /\ UNCHANGED <<kind, es, db, walk, env>>

\* The epoch is written in the index's mapping, or in its settings.
IndexEpoch(g) == es.epoch[g]

\* The cursor's snapshot is of this generation, or it is closed and the search starts over.
Resolve ==
  /\ req.st = "resolve"
  /\ IF IndexEpoch(es.alias) # req.epoch THEN Unavailable /\ UNCHANGED <<es, env>>
     ELSE IF req.cursor = NoCursor
          THEN req' = [req EXCEPT !.st = "open", !.gen = es.alias] /\ UNCHANGED <<es, walk, env>>
     ELSE IF req.cursor.gen # es.alias \/ req.cursor.epoch # req.epoch
          THEN Refused /\ \E failed \in {FALSE, Fault} : Close(req.cursor.pit, failed)
     ELSE req' = [req EXCEPT !.st = "scan", !.gen = es.alias] /\ UNCHANGED <<es, walk, env>>
  /\ UNCHANGED <<kind, db>>

\* Of the generation that was resolved, which may have been deleted since; records have an alias.
OpenPointInTime ==
  LET gen == IF kind = "posts" THEN req.gen ELSE es.alias IN
  /\ req.st = "open" /\ env.opened <= MaxFaults
  /\ IF gen \notin es.kept THEN Unavailable /\ UNCHANGED <<es, env>>
     ELSE /\ env' = [env EXCEPT !.opened = @ + 1]
          /\ es' = [es EXCEPT !.pits = @ \cup {[id |-> env.opened + 1, gen |-> gen,
                                                docs |-> es.docs[gen], until |-> env.now + 1]}]
          /\ req' = [req EXCEPT !.st = "scan", !.pit = env.opened + 1, !.whole = es.docs[gen]]
          /\ UNCHANGED walk
  /\ UNCHANGED <<kind, db>>

\* A search closes its snapshot before it says that something failed, a query leaves it.
Fail(answer) ==
  /\ answer
  /\ IF kind = "posts" THEN \E failed \in {FALSE, env.faults + 1 < MaxFaults} :
          /\ es' = [es EXCEPT !.pits = IF failed THEN @ ELSE {q \in @ : q.id # req.pit}]
          /\ env' = [env EXCEPT !.faults = @ + (IF failed THEN 2 ELSE 1),
                                !.stuck = IF failed THEN @ \cup {req.pit} ELSE @]
     ELSE /\ env' = [env EXCEPT !.faults = @ + 1, !.stuck = IF walk.st = "idle" THEN @ \cup {req.pit} ELSE @]
          /\ UNCHANGED es
  /\ UNCHANGED <<kind, db>>

\* A call that fails before there is a snapshot to close.
Break ==
  /\ req.st \in {"epoch", "resolve", "open"} /\ Fault
  /\ Unavailable
  /\ env' = [env EXCEPT !.faults = @ + 1]
  /\ UNCHANGED <<kind, es, db>>

SearchFails == req.st = "scan" /\ Fault /\ Fail(Unavailable)
HydrateFails == req.st = "hydrate" /\ Fault /\ Fail(Unavailable)

\* The snapshot was reaped: 404, and the client has to start over.
Expired ==
  /\ req.st = "scan" /\ ~Open(req.pit)
  /\ Refused
  /\ UNCHANGED <<kind, es, db, env>>

Scan ==
  /\ req.st = "scan" /\ Open(req.pit) /\ kind = "posts"
  /\ req' = [req EXCEPT !.st = "hydrate", !.hits = Hits(req.pit, req.after, req.limit)]
  /\ es' = [es EXCEPT !.pits = Extended(req.pit)]
  /\ UNCHANGED <<kind, db, walk, env>>

\* The page reaches the client, with a cursor if there is more; else the snapshot is closed.
\* An answer that is lost leaves the client with the cursor that it had.
Answer(page, more, last, pits) ==
  \E failed \in {FALSE, Fault /\ ~more}, lost \in {FALSE, Fault} :
    /\ ~(failed /\ lost)
    /\ req' = Idle
    /\ es' = [es EXCEPT !.pits = IF more \/ failed THEN pits ELSE {q \in pits : q.id # req.pit}]
    /\ env' = [env EXCEPT !.faults = @ + (IF failed \/ lost THEN 1 ELSE 0),
                          !.stuck = IF failed \/ lost THEN @ \cup {req.pit} ELSE @]
    /\ walk' = IF lost THEN walk
               ELSE [st |-> IF more THEN "going" ELSE "done", pages |-> walk.pages + 1,
                     cursor |-> IF more THEN [pit |-> req.pit, gen |-> req.gen, epoch |-> req.epoch,
                                              after |-> last, expires |-> env.now + 1, limit |-> req.limit]
                                ELSE NoCursor,
                     seen |-> walk.seen \o page,
                     steady |-> IF walk.st = "going" THEN walk.steady
                                ELSE req.whole \cap (IF kind = "posts" THEN db.live ELSE Docs)]

\* FindMany: of deleted posts there are no rows, whatever the snapshot still holds.
FindMany(hits) == SelectSeq(hits, LAMBDA h : h.minor \in db.live)

\* Hits of posts that are gone count as looked at; a post too many ends the page before it.
Hydrate ==
  LET alive == FindMany(req.hits)
      room == req.limit - Len(req.page)
      full == Len(alive) > room
      page == req.page \o SubSeq(alive, 1, IF full THEN room ELSE Len(alive))
      stop == CHOOSE k \in 1 .. Len(req.hits) : req.hits[k] = alive[room + 1]
      last == IF full THEN IF stop = 1 THEN req.last ELSE req.hits[stop - 1]
              ELSE IF req.hits = <<>> THEN req.last ELSE Last(req.hits)
      again == ~full /\ Len(req.hits) > req.limit
  IN /\ req.st = "hydrate"
     /\ IF again /\ req.round + 1 < Rounds
        THEN /\ req' = [req EXCEPT !.st = "scan", !.page = page, !.last = last, !.after = last,
                                   !.round = @ + 1, !.hits = <<>>]
             /\ UNCHANGED <<es, walk, env>>
        ELSE Answer(page, full \/ again, last, es.pits)
     /\ UNCHANGED <<kind, db>>

\* Documents are decoded strictly: a field or a value out of the contract is an error.
Decodes(h) == h.minor \notin es.bad

\* The hits of a page are the documents; one that does not decode makes the page unavailable.
Read ==
  /\ req.st = "scan" /\ Open(req.pit) /\ kind = "records"
  /\ LET hits == Hits(req.pit, req.after, req.limit)
         more == Len(hits) > req.limit
         page == SubSeq(hits, 1, IF more THEN req.limit ELSE Len(hits))
     IN IF \E k \in 1 .. Len(hits) : ~Decodes(hits[k])
        THEN /\ Unavailable
             /\ env' = [env EXCEPT !.stuck = IF walk.st = "idle" THEN @ \cup {req.pit} ELSE @]
             /\ es' = [es EXCEPT !.pits = Extended(req.pit)]
        ELSE Answer(page, more, IF more THEN Last(page) ELSE None, Extended(req.pit))
  /\ UNCHANGED <<kind, db>>

-----------------------------------------------------------------------------
(* Everybody else                                                           *)

Changed ==
  /\ ~Over /\ env.changes < MaxChanges
  /\ env' = [env EXCEPT !.changes = @ + 1]
  /\ UNCHANGED <<kind, req>>

\* A post is deleted: first in MySQL, later in the index.
DeletePost(d) ==
  /\ kind = "posts" /\ d \in db.live /\ Changed
  /\ db' = [db EXCEPT !.live = @ \ {d}]
  /\ walk' = [walk EXCEPT !.steady = @ \ {d}]
  /\ UNCHANGED es

Refresh(d) ==
  /\ d \notin db.live \/ kind = "records"
  /\ Changed
  /\ es' = [es EXCEPT !.docs[es.alias] = IF d \in @ THEN @ \ {d} ELSE @ \cup {d}]
  /\ UNCHANGED <<db, walk>>

Undecodable(d) ==
  /\ kind = "records" /\ es.bad = {} /\ walk.st = "idle" /\ req.st = "idle" /\ Changed
  /\ es' = [es EXCEPT !.bad = {d}]
  /\ UNCHANGED <<db, walk>>

\* Reindex, or a restore under a new epoch: the alias moves to the next index.
SwitchAlias ==
  /\ kind = "posts" /\ es.alias + 1 \in Generations /\ Changed
  /\ es' = [es EXCEPT !.alias = @ + 1, !.docs[es.alias + 1] = db.live,
                      !.epoch[es.alias + 1] = db.epoch, !.kept = @ \cup {es.alias + 1}]
  /\ UNCHANGED <<db, walk>>

NextEpoch ==
  /\ kind = "posts" /\ db.epoch = 1 /\ Changed
  /\ db' = [db EXCEPT !.epoch = 2]
  /\ UNCHANGED <<es, walk>>

\* An old index is deleted, with what was open of it.
DeleteIndex(g) ==
  /\ ~Over /\ g \in es.kept /\ g # es.alias
  /\ es' = [es EXCEPT !.kept = @ \ {g}, !.pits = {q \in @ : q.gen # g}]
  /\ UNCHANGED <<kind, db, req, walk, env>>

Tick ==
  /\ ~Over /\ env.now < MaxTime /\ env' = [env EXCEPT !.now = @ + 1]
  /\ UNCHANGED <<kind, es, db, req, walk>>

Next ==
  \/ \E limit \in Limits : Ask(limit)
  \/ CurrentEpoch \/ Resolve \/ OpenPointInTime \/ Break
  \/ Scan \/ SearchFails \/ Expired \/ Hydrate \/ HydrateFails \/ Read
  \/ \E q \in es.pits : Reap(q)
  \/ \E d \in Docs : DeletePost(d) \/ Refresh(d) \/ Undecodable(d)
  \/ SwitchAlias \/ NextEpoch \/ Tick
  \/ \E g \in Generations : DeleteIndex(g)

Spec == Init /\ [][Next]_vars

-----------------------------------------------------------------------------
(* Properties                                                               *)

TypeOK ==
  /\ kind \in Kinds
  /\ req.st \in {"idle", "epoch", "resolve", "open", "scan", "hydrate"}
  /\ walk.st \in {"idle", "going", "done", "refused"}
  /\ Len(req.page) <= req.limit

\* Every page lies behind the one before it, and a search that ends has shown every post of
\* its snapshot that was there all the time, whichever pages were empty, lost and asked for
\* again, or stopped after their rounds.
WalkComplete ==
  /\ \A k \in 1 .. Len(walk.seen) - 1 : Before(walk.seen[k], walk.seen[k + 1])
  /\ walk.st = "done" => walk.steady \subseteq {walk.seen[k].minor : k \in 1 .. Len(walk.seen)}

\* A cursor names a place further down than the one before, so that a client that goes on gets
\* to the end however many posts are gone.
Advances ==
  walk'.st = "going" /\ walk'.pages # walk.pages /\ walk.st = "going"
    => Past(walk.cursor.after, walk'.cursor.after)

CursorsAdvance == [][Advances]_vars

\* A search keeps no snapshot alive that no client can use: not after the last page, nor a
\* failure, nor a change of generation; only lost answers and failed closes leave one.
NoneLeft ==
  kind = "posts" =>
    \A q \in es.pits : q.until > env.now =>
      \/ q.id \in env.stuck
      \/ req.st # "idle" /\ q.id = req.pit
      \/ walk.st = "going" /\ q.id = walk.cursor.pit

=============================================================================
