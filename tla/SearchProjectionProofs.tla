------------------------ MODULE SearchProjectionProofs ------------------------
(***************************************************************************)
(* Proofs about SearchProjection for any posts, revisions, handlers and    *)
(* indices: application results tell the truth about their generation, and *)
(* nothing is lost over a rebuild.                                         *)
(***************************************************************************)
EXTENDS SearchProjection, CountingFacts, TLAPS

\* A document is the fact of some time: never newer than the fact of now, and the
\* same if it has the same revision.
Truthful(p, doc) == /\ doc.rev <= fact[p].rev
                    /\ doc.rev = fact[p].rev => doc = fact[p]

DocumentsTruthful ==
  /\ \A i \in Indices, p \in Posts : Truthful(p, docs[i][p])
  /\ \A w \in stray : Truthful(w.post, w.doc)
  /\ \A h \in Handlers : handler[h].at \in {"resolve", "put"} =>
       Truthful(handler[h].event[1], handler[h].doc)
  /\ \A w \in run.page : Truthful(w.post, w.doc)

\* Only indices that have been built are spoken of.
IndicesBuilt ==
  /\ \A a \in applied : a[2] <= built
  /\ \A h \in Handlers : handler[h].index <= built

Holds(i, e) == docs[i][e[1]].rev >= e[2]

\* What a handler has done for its event.
HandlersTrue == \A h \in Handlers : LET d == handler[h] IN
  /\ d.at # "idle" => d.event \in Committed
  /\ d.at \in {"resolve", "put"} => d.doc.rev >= d.event[2]
  /\ d.at \in {"put", "record"} => d.index \in Indices
  /\ d.at = "record" => Holds(d.index, d.event)
  /\ d.at = "ack" => <<d.event, d.index>> \in applied

\* Evidence is true of indices that are gone, too.
AppliedTrue == \A a \in applied : Holds(a[2], a[1])

\* Where the alias is, as the run goes on.
RunPlace ==
  /\ run.at # "idle" => run.copy \in 1..2
  /\ run.at = "bulk" => run.page # {}
  /\ run.at # "bulk" => run.page = {}
  /\ \A w \in run.page : run.after < w.post /\ w.post <= run.high
  /\ run.at = "switch" => run.copy = 1
  /\ run.at = "drop" => run.copy = 2
  /\ run.at = "abandon" => run.copy = 1
  /\ run.at \notin {"idle", "abandon"} /\ run.copy = 1 => alias # run.index
  /\ run.at # "idle" /\ run.copy = 2 => alias = run.index /\ run.old # run.index
  /\ run.at = "abandon" /\ alias = run.index => uncovered
  /\ \A w, v \in run.page : w.post = v.post => w = v

\* Events that are acknowledged, or may yet be on the strength of another index than
\* the one behind the alias.
Obliged == acked \cup
  {handler[h].event : h \in {x \in Handlers : /\ handler[x].at \in {"check", "put", "record", "ack"}
                                              /\ handler[x].index # alias}}

\* What the copy after the switch need not write any more.
Passed(e) ==
  \/ e[1] <= run.after \/ e[1] > run.high
  \/ /\ run.at = "bulk"
     /\ \E w \in run.page : e[1] <= w.post
     /\ \A w \in run.page : w.post = e[1] => w.doc.rev < e[2]

CopyCovers ==
  run.at \in {"scan", "bulk"} /\ run.copy = 2 =>
    \A e \in Obliged : Passed(e) => Holds(alias, e)

AliasCovers == alias # 0 /\ ~uncovered => \A e \in Obliged : Holds(alias, e)

IInv == /\ TypeOK /\ DocumentsTruthful /\ IndicesBuilt
        /\ HandlersTrue /\ AppliedTrue /\ RunPlace /\ CopyCovers /\ AliasCovers

USE ProjectionAssumption

\* The initial states satisfy the invariant.
LEMMA InitIInv == Init => IInv
<1> SUFFICES ASSUME Init PROVE IInv
  OBVIOUS
<1> USE DEF Init
<1>1. Nothing \in Documents /\ Nothing.rev = 0
  BY DEF Nothing, Documents
<1>2. \A h \in Handlers : handler[h] = Free
  OBVIOUS
<1>3. Free.at = "idle" /\ Free.event = <<0, 0>> /\ Free.index = 0 /\ Free.doc = Nothing
  BY DEF Free
<1>4. /\ run.at = "idle" /\ run.copy = 0 /\ run.page = {}
  BY DEF NoRun
<1>5. Committed = {}
  BY <1>1 DEF Committed, Changes
<1>6. Free \in Handlings
  BY <1>1 DEF Free, Handlings
<1>7. NoRun \in Runs
  BY DEF Runs, NoRun
<1>8. TypeOK
  <2>1. fact \in [Posts -> Documents] /\ docs \in [Indices -> [Posts -> Documents]]
    BY <1>1
  <2>2. handler \in [Handlers -> Handlings] /\ \A h \in Handlers : handler[h].at = "idle"
    BY <1>3, <1>6
  <2>3. run \in Runs /\ run.at = "idle"
    BY <1>4, <1>7
  <2>4. faults \in 0..MaxFaults /\ built \in 0..MaxIndices /\ live \subseteq 1..built
    OBVIOUS
  <2>5. /\ acked \subseteq Committed /\ applied \subseteq Committed \X Indices
        /\ stray \subseteq [index : Indices, post : Posts, doc : Documents]
        /\ alias \in {0} \union live /\ uncovered \in BOOLEAN
    OBVIOUS
  <2> QED
    BY <2>1, <2>2, <2>3, <2>4, <2>5, Zenon DEF TypeOK
<1>9. DocumentsTruthful
  BY <1>1, <1>2, <1>3, <1>4 DEF DocumentsTruthful, Truthful
<1>10. IndicesBuilt /\ HandlersTrue /\ AppliedTrue
  BY <1>2, <1>3 DEF IndicesBuilt, HandlersTrue, AppliedTrue
<1>11. RunPlace /\ CopyCovers /\ AliasCovers
  BY <1>4 DEF RunPlace, CopyCovers, AliasCovers
<1>12. QED
  BY <1>8, <1>9, <1>10, <1>11 DEF IInv

-----------------------------------------------------------------------------
(* What a step may change                                                   *)

\* The actions, by what they work on.
FactStep == \E p \in Posts : Create(p) \/ Update(p) \/ Delete(p)
DeliveryStep == \E h \in Handlers : \/ \E e \in Changes : Deliver(h, e)
                                    \/ CheckApplied(h) \/ ReadFact(h) \/ Resolve(h)
                                    \/ Record(h) \/ Ack(h) \/ GiveUp(h)
PutStep == \E h \in Handlers : Put(h)
LandStep == \E w \in stray : Land(w)
ReindexStep == \/ Start \/ HighWatermark \/ Scan \/ Refresh \/ CountUpTo \/ Compare
               \/ SwitchAlias \/ SwitchUnanswered \/ Abandon \/ DropOld
               \/ RunFails \/ RunCrashes

\* Every step is one of them, or changes nothing.
LEMMA StepKinds ==
  [Next]_vars => \/ FactStep \/ DeliveryStep \/ PutStep \/ LandStep \/ Bulk \/ ReindexStep
                 \/ UNCHANGED vars
  BY Zenon DEF Next, HandlerStep, RunStep, FactStep, DeliveryStep, PutStep, LandStep, ReindexStep

\* The steps of the delivery leave facts, indices and the reindexer alone.
LEMMA DeliveryFrame ==
  DeliveryStep => UNCHANGED <<fact, alias, built, live, docs, run, uncovered>>
  BY DEF DeliveryStep, Deliver, CheckApplied, ReadFact, Resolve, Record, Ack, GiveUp,
         facts, store, reindexer

\* A write leaves everything but documents and the handler alone.
LEMMA PutFrame ==
  PutStep => UNCHANGED <<fact, acked, applied, alias, built, live, stray, run, uncovered, faults>>
  BY DEF PutStep, Put, facts, reindexer

\* And a late one everything but documents and the late writes.
LEMMA LandFrame ==
  LandStep => UNCHANGED <<fact, acked, applied, handler, alias, built, live, run, uncovered, faults>>
  BY DEF LandStep, Land, facts, indexer, reindexer

\* A business transaction changes a fact only.
LEMMA FactFrame ==
  FactStep => UNCHANGED <<acked, applied, handler, alias, built, live, docs, stray, run,
                          uncovered, faults>>
  BY DEF FactStep, Create, Update, Delete, indexer, store, reindexer

\* The reindexer writes documents in Bulk alone, and does nothing for the indexer.
LEMMA ReindexFrame == ReindexStep => UNCHANGED <<fact, acked, applied, handler, docs>>
  BY DEF ReindexStep, Start, HighWatermark, Scan, Refresh, CountUpTo, Compare, SwitchAlias,
         SwitchUnanswered, Abandon, DropOld, RunFails, RunCrashes, Goes, facts, indexer, store

\* Bulk changes documents and the run.
LEMMA BulkFrame ==
  Bulk => UNCHANGED <<fact, acked, applied, handler, alias, built, live, stray, uncovered, faults>>
  BY DEF Bulk, facts, indexer

-----------------------------------------------------------------------------
(* Facts and documents                                                      *)

\* A document has a revision and a flag, and is determined by them.
LEMMA DocumentFields ==
  ASSUME NEW d \in Documents
  PROVE  /\ d.rev \in 0..MaxRev /\ d.deleted \in BOOLEAN
         /\ \A n : [d EXCEPT !.rev = n] = [rev |-> n, deleted |-> d.deleted]
  BY DEF Documents

\* A fact stays or gets a higher revision.
LEMMA FactsGrow ==
  ASSUME TypeOK, [Next]_vars
  PROVE  /\ fact' \in [Posts -> Documents]
         /\ \A p \in Posts : fact'[p] = fact[p] \/ fact'[p].rev > fact[p].rev
<1>1. fact \in [Posts -> Documents]
  BY DEF TypeOK
<1>2. CASE FactStep
  <2>1. PICK p \in Posts : Create(p) \/ Update(p) \/ Delete(p)
    BY <1>2 DEF FactStep
  <2>2. fact[p].rev \in 0..MaxRev /\ fact[p].deleted \in BOOLEAN
    BY <1>1, DocumentFields
  <2>3. PICK d \in Documents : d.rev > fact[p].rev /\ fact' = [fact EXCEPT ![p] = d]
    <3>1. CASE Create(p)
      <4> DEFINE d == [rev |-> 1, deleted |-> fact[p].deleted]
      <4>1. d \in Documents /\ d.rev > fact[p].rev
        BY <2>2, <3>1 DEF Documents, Create
      <4>2. fact' = [fact EXCEPT ![p] = d]
        BY <1>1, <3>1, DocumentFields DEF Create
      <4>3. QED
        BY <4>1, <4>2
    <3>2. CASE Update(p)
      <4> DEFINE d == [rev |-> fact[p].rev + 1, deleted |-> fact[p].deleted]
      <4>1. d \in Documents /\ d.rev > fact[p].rev
        BY <2>2, <3>2 DEF Documents, Update
      <4>2. fact' = [fact EXCEPT ![p] = d]
        BY <1>1, <3>2, DocumentFields DEF Update
      <4>3. QED
        BY <4>1, <4>2
    <3>3. CASE Delete(p)
      <4> DEFINE d == [rev |-> fact[p].rev + 1, deleted |-> TRUE]
      <4>1. d \in Documents /\ d.rev > fact[p].rev
        BY <2>2, <3>3 DEF Documents, Delete
      <4>2. fact' = [fact EXCEPT ![p] = d]
        BY <3>3 DEF Delete
      <4>3. QED
        BY <4>1, <4>2
    <3>4. QED
      BY <2>1, <3>1, <3>2, <3>3
  <2>4. QED
    BY <1>1, <2>3
<1>3. CASE UNCHANGED fact
  BY <1>1, <1>3
<1>4. QED
  BY <1>2, <1>3, StepKinds, DeliveryFrame, PutFrame, LandFrame, ReindexFrame, BulkFrame DEF vars

\* So a committed event stays committed, and what was true of a document stays true.
LEMMA CommittedStays ==
  ASSUME TypeOK, [Next]_vars
  PROVE  /\ Committed \subseteq Committed'
         /\ \A p \in Posts, d \in Documents : Truthful(p, d) => Truthful(p, d)'
<1>1. \A p \in Posts : /\ fact[p].rev \in 0..MaxRev /\ fact'[p].rev \in 0..MaxRev
                       /\ fact'[p] = fact[p] \/ fact'[p].rev > fact[p].rev
  BY FactsGrow, DocumentFields DEF TypeOK
<1>2. \A e \in Changes : e[1] \in Posts /\ e[2] \in 1..MaxRev
  BY DEF Changes
<1>3. Committed \subseteq Committed'
  <2> SUFFICES ASSUME NEW e \in Committed PROVE e \in Committed'
    OBVIOUS
  <2>1. e \in Changes /\ e[2] <= fact[e[1]].rev
    BY DEF Committed
  <2> DEFINE p == e[1]
             r == e[2]
  <2>2. p \in Posts /\ r \in 1..MaxRev /\ r <= fact[p].rev
    BY <1>2, <2>1
  <2> HIDE DEF p, r
  <2>3. r <= fact'[p].rev
    BY <1>1, <2>2
  <2> USE DEF p, r
  <2>4. QED
    BY <2>1, <2>3 DEF Committed
<1>4. \A p \in Posts, d \in Documents : Truthful(p, d) => Truthful(p, d)'
  BY <1>1, DocumentFields DEF Truthful
<1>5. QED
  BY <1>3, <1>4

\* A write with external_gte leaves one of the two documents, and no lower revision.
LEMMA NewerShape ==
  ASSUME NEW old \in Documents, NEW new \in Documents
  PROVE  /\ Newer(old, new) \in {old, new}
         /\ Newer(old, new).rev >= old.rev /\ Newer(old, new).rev >= new.rev
  BY DocumentFields DEF Newer

\* What the copy of a page finds for a post is the document of that post in the page.
LEMMA PagedShape ==
  ASSUME TypeOK, NEW p \in Posts, Paged(p) # {}
  PROVE  \E w \in run.page : /\ w.post = p /\ w.doc = CHOOSE d \in Paged(p) : TRUE
                             /\ w.doc \in Documents
<1>1. (CHOOSE d \in Paged(p) : TRUE) \in Paged(p)
  OBVIOUS
<1>2. run.page \subseteq [post : Posts, doc : Documents]
  BY DEF TypeOK, Runs
<1>3. PICK w \in run.page : w.post = p /\ w.doc = CHOOSE d \in Paged(p) : TRUE
  BY <1>1 DEF Paged
<1>4. QED
  BY <1>2, <1>3

\* A document stays, or is replaced by a truthful one that is not older.
DocMove(i, p) == \/ docs'[i][p] = docs[i][p]
                 \/ docs'[i][p].rev >= docs[i][p].rev /\ Truthful(p, docs'[i][p])

\* Writing one document.
LEMMA WriteMoves ==
  ASSUME TypeOK, NEW i \in Indices, NEW p \in Posts, NEW d \in Documents, Truthful(p, d),
         docs' = [docs EXCEPT ![i][p] = Newer(@, d)]
  PROVE  /\ docs' \in [Indices -> [Posts -> Documents]]
         /\ \A j \in Indices, q \in Posts : DocMove(j, q)
         /\ docs'[i][p].rev >= d.rev
<1>1. docs \in [Indices -> [Posts -> Documents]]
  BY DEF TypeOK
<1> DEFINE n == Newer(docs[i][p], d)
<1>2. n \in {docs[i][p], d} /\ n.rev >= docs[i][p].rev /\ n.rev >= d.rev /\ n \in Documents
  BY <1>1, NewerShape
<1>3. docs' = [docs EXCEPT ![i][p] = n]
  BY <1>1
<1> HIDE DEF n
<1>4. /\ docs' \in [Indices -> [Posts -> Documents]]
      /\ docs'[i][p] = n
      /\ \A j \in Indices, q \in Posts : j # i \/ q # p => docs'[j][q] = docs[j][q]
  BY <1>1, <1>2, <1>3
<1>5. QED
  BY <1>2, <1>4 DEF DocMove

\* What Bulk writes: every document of the page, unless the index has a newer one.
LEMMA BulkMoves ==
  ASSUME IInv, Bulk
  PROVE  /\ docs' \in [Indices -> [Posts -> Documents]]
         /\ \A j \in Indices, q \in Posts : DocMove(j, q)
         /\ \A w \in run.page : docs'[run.index][w.post].rev >= w.doc.rev
<1>1. /\ docs \in [Indices -> [Posts -> Documents]]
      /\ run.page \subseteq [post : Posts, doc : Documents]
      /\ run.index \in Indices
  BY DEF IInv, TypeOK, Runs, Bulk, Indices
<1> DEFINE Old(p) == docs[run.index][p]
           New(p) == CHOOSE d \in Paged(p) : TRUE
           f == [p \in Posts |-> IF Paged(p) = {} THEN Old(p) ELSE Newer(Old(p), New(p))]
<1>2. docs' = [docs EXCEPT ![run.index] = f]
  BY DEF Bulk
<1>3. ASSUME NEW p \in Posts
      PROVE  /\ f[p] \in Documents
             /\ f[p] = Old(p) \/ (f[p].rev >= Old(p).rev /\ Truthful(p, f[p]))
             /\ Paged(p) # {} => f[p].rev >= New(p).rev
  <2> DEFINE o == Old(p)
             n == New(p)
             g == f[p]
  <2>1. o \in Documents
    BY <1>1
  <2>2. CASE Paged(p) = {}
    <3>1. f[p] = Old(p)
      BY <2>2
    <3> HIDE DEF f, Old, New
    <3>2. QED
      BY <2>1, <2>2, <3>1
  <2>3. CASE Paged(p) # {}
    <3>1. PICK w \in run.page : w.post = p /\ w.doc = n /\ w.doc \in Documents
      BY <2>3, PagedShape DEF IInv
    <3>2. Truthful(p, n) /\ n \in Documents
      BY <3>1 DEF IInv, DocumentsTruthful
    <3>3. g = Newer(o, n)
      BY <2>3
    <3> HIDE DEF o, n, g
    <3>4. /\ g \in Documents /\ g.rev >= n.rev
          /\ g = o \/ (g.rev >= o.rev /\ Truthful(p, g))
      BY <2>1, <3>2, <3>3, NewerShape
    <3>5. QED
      BY <2>3, <3>4 DEF o, n, g
  <2>4. QED
    BY <2>2, <2>3
<1>4. ASSUME NEW w \in run.page PROVE f[w.post].rev >= w.doc.rev
  <2>1. w.post \in Posts
    BY <1>1
  <2>2. Paged(w.post) # {}
    BY DEF Paged
  <2>3. PICK v \in run.page : v.post = w.post /\ v.doc = New(w.post)
    BY <2>1, <2>2, PagedShape DEF IInv
  <2>4. v = w
    BY <2>3 DEF IInv, RunPlace
  <2>5. QED
    BY <1>3, <2>1, <2>2, <2>3, <2>4
<1> HIDE DEF f
<1>5. /\ docs' \in [Indices -> [Posts -> Documents]]
      /\ docs'[run.index] = f
      /\ \A j \in Indices : j # run.index => docs'[j] = docs[j]
  <2>1. f \in [Posts -> Documents]
    BY <1>3 DEF f
  <2>2. QED
    BY <1>1, <1>2, <2>1
<1>6. \A j \in Indices, q \in Posts : DocMove(j, q)
  BY <1>3, <1>5 DEF DocMove
<1>7. QED
  BY <1>4, <1>5, <1>6

\* In every step a document stays, or is replaced by a truthful one that is not older.
LEMMA DocsMove ==
  ASSUME IInv, [Next]_vars
  PROVE  /\ docs' \in [Indices -> [Posts -> Documents]]
         /\ \A j \in Indices, q \in Posts : DocMove(j, q)
<1>1. docs \in [Indices -> [Posts -> Documents]] /\ live \subseteq Indices
  BY DEF IInv, TypeOK, Indices
<1>2. CASE UNCHANGED docs
  BY <1>1, <1>2 DEF DocMove
<1>3. CASE PutStep
  <2>1. PICK h \in Handlers : Put(h)
    BY <1>3 DEF PutStep
  <2> DEFINE d == handler[h]
             p == d.event[1]
  <2>2. CASE d.index \in live
    <3>1. docs' = [docs EXCEPT ![d.index][p] = Newer(@, d.doc)] /\ d.at = "put"
      BY <2>1, <2>2 DEF Put, WriteTo
    <3>2. d.doc \in Documents /\ d.event \in Changes /\ Truthful(p, d.doc) /\ d.index \in Indices
      BY <1>1, <2>2, <3>1 DEF IInv, TypeOK, Handlings, DocumentsTruthful, Committed
    <3>3. p \in Posts
      BY <3>2 DEF Changes
    <3> HIDE DEF d, p
    <3>4. QED
      BY <3>1, <3>2, <3>3, WriteMoves DEF IInv
  <2>3. CASE d.index \notin live
    BY <1>2, <2>1, <2>3 DEF Put
  <2>4. QED
    BY <2>2, <2>3
<1>4. CASE LandStep
  <2>1. PICK w \in stray : Land(w)
    BY <1>4 DEF LandStep
  <2>2. w.index \in Indices /\ w.post \in Posts /\ w.doc \in Documents /\ Truthful(w.post, w.doc)
    BY DEF IInv, TypeOK, DocumentsTruthful
  <2>3. UNCHANGED docs \/ docs' = [docs EXCEPT ![w.index][w.post] = Newer(@, w.doc)]
    BY <2>1 DEF Land, WriteTo
  <2>4. QED
    BY <1>2, <2>2, <2>3, WriteMoves DEF IInv
<1>5. QED
  BY <1>2, <1>3, <1>4, BulkMoves, StepKinds, FactFrame, DeliveryFrame, ReindexFrame DEF vars

-----------------------------------------------------------------------------
(* The indexer                                                              *)

\* The fields of what a handler does.
LEMMA HandlerFields ==
  ASSUME TypeOK, NEW h \in Handlers
  PROVE  /\ handler[h] \in Handlings
         /\ handler[h].event \in {<<0, 0>>} \union Changes
         /\ handler[h].index \in {0} \union Indices
         /\ handler[h].doc \in Documents
<1>1. handler[h] \in Handlings
  BY DEF TypeOK
<1>2. QED
  BY <1>1 DEF Handlings

\* A handler with nothing to do.
LEMMA FreeShape ==
  /\ Free \in Handlings /\ Free.at = "idle" /\ Free.index = 0
<1>1. Nothing \in Documents
  BY DEF Nothing, Documents
<1>2. QED
  BY <1>1 DEF Free, Handlings

Keeps(n, d) == n.event = d.event /\ n.index = d.index /\ n.doc = d.doc

\* How a handler goes on: d is what it does now, n what it does next.
HandlerMove(d, n) ==
  \/ n = d
  \/ n = Free
  \/ n.at = "check" /\ n.event \in Committed /\ n.index = alias
  \/ d.at = "check" /\ n.at = "ack" /\ Keeps(n, d) /\ <<d.event, d.index>> \in applied
  \/ d.at = "check" /\ n.at = "read" /\ Keeps(n, d)
  \/ /\ d.at = "read" /\ n.at = "resolve"
     /\ n.event = d.event /\ n.index = d.index /\ n.doc = fact[d.event[1]]
  \/ /\ d.at = "resolve" /\ n.at = "put"
     /\ n.event = d.event /\ n.doc = d.doc /\ n.index = alias /\ alias # 0
  \/ /\ d.at = "put" /\ n.at = "record" /\ Keeps(n, d)
     /\ d.index \in live /\ docs'[d.index][d.event[1]].rev >= d.doc.rev
  \/ d.at = "record" /\ n.at = "ack" /\ Keeps(n, d) /\ <<d.event, d.index>> \in applied'

\* What one handler goes on to does not change the others.
LEMMA Moved ==
  ASSUME TypeOK, NEW h \in Handlers, NEW n \in Handlings, Moves(h, n), HandlerMove(handler[h], n)
  PROVE  /\ handler' \in [Handlers -> Handlings]
         /\ \A x \in Handlers : HandlerMove(handler[x], handler'[x])
<1>1. handler \in [Handlers -> Handlings] /\ handler' = [handler EXCEPT ![h] = n]
  BY DEF TypeOK, Moves
<1>2. handler'[h] = n /\ \A x \in Handlers : x # h => handler'[x] = handler[x]
  BY <1>1
<1>3. QED
  BY <1>1, <1>2 DEF HandlerMove

\* The alias names an index that has been built.
LEMMA AliasShape ==
  ASSUME TypeOK
  PROVE  /\ alias \in {0} \union Indices /\ alias <= built /\ built \in Nat
         /\ live \subseteq Indices /\ \A i \in live : i <= built
  BY DEF TypeOK, Indices

\* The steps of a handler are moves.
LEMMA DeliveryMoves ==
  ASSUME IInv, [Next]_vars, DeliveryStep
  PROVE  /\ handler' \in [Handlers -> Handlings]
         /\ \A x \in Handlers : HandlerMove(handler[x], handler'[x])
<1>1. TypeOK
  BY DEF IInv
<1>2. PICK h \in Handlers : \/ \E e \in Changes : Deliver(h, e)
                            \/ CheckApplied(h) \/ ReadFact(h) \/ Resolve(h)
                            \/ Record(h) \/ Ack(h) \/ GiveUp(h)
  BY DEF DeliveryStep
<1> DEFINE d == handler[h]
<1>3. /\ d \in Handlings /\ d.event \in {<<0, 0>>} \union Changes
      /\ d.index \in {0} \union Indices /\ d.doc \in Documents
  BY <1>1, HandlerFields
<1>4. ASSUME NEW e \in Changes, Deliver(h, e)
      PROVE  \E n \in Handlings : Moves(h, n) /\ HandlerMove(d, n)
  <2> DEFINE n == [Free EXCEPT !.at = "check", !.event = e, !.index = alias]
  <2>1. n \in Handlings /\ n.at = "check" /\ n.event = e /\ n.index = alias
    BY <1>1, AliasShape, FreeShape DEF Handlings
  <2>2. Moves(h, n) /\ e \in Committed
    BY <1>4 DEF Deliver
  <2> HIDE DEF n
  <2>3. HandlerMove(d, n)
    BY <2>1, <2>2 DEF HandlerMove
  <2>4. QED
    BY <2>1, <2>2, <2>3
<1>5. ASSUME CheckApplied(h)
      PROVE  \E n \in Handlings : Moves(h, n) /\ HandlerMove(d, n)
  <2> DEFINE n == [d EXCEPT !.at = IF IsDuplicate(h) THEN "ack" ELSE "read"]
  <2>1. n \in Handlings /\ Keeps(n, d) /\ n.at = IF IsDuplicate(h) THEN "ack" ELSE "read"
    BY <1>3 DEF Handlings, Keeps
  <2>2. Moves(h, n) /\ d.at = "check"
    BY <1>5 DEF CheckApplied
  <2>3. HandlerMove(d, n)
    <3> HIDE DEF n
    <3>1. QED
      BY <2>1, <2>2 DEF HandlerMove, IsDuplicate
  <2>4. QED
    BY <2>1, <2>2, <2>3
<1>6. ASSUME ReadFact(h)
      PROVE  \E n \in Handlings : Moves(h, n) /\ HandlerMove(d, n)
  <2> DEFINE n == [d EXCEPT !.at = "resolve", !.doc = fact[d.event[1]]]
  <2>1. d.at = "read" /\ d.event \in Committed /\ fact \in [Posts -> Documents]
    BY <1>1, <1>6 DEF ReadFact, TypeOK
  <2>2. fact[d.event[1]] \in Documents
    BY <2>1 DEF Committed, Changes
  <2>3. /\ n \in Handlings /\ n.at = "resolve" /\ n.event = d.event /\ n.index = d.index
        /\ n.doc = fact[d.event[1]]
    BY <1>3, <2>2 DEF Handlings
  <2>4. Moves(h, n)
    BY <1>6 DEF ReadFact
  <2> HIDE DEF n
  <2>5. HandlerMove(d, n)
    BY <2>1, <2>3 DEF HandlerMove
  <2>6. QED
    BY <2>3, <2>4, <2>5
<1>7. ASSUME Resolve(h)
      PROVE  \E n \in Handlings : Moves(h, n) /\ HandlerMove(d, n)
  <2>1. d.at = "resolve"
    BY <1>7 DEF Resolve
  <2>2. CASE alias = 0
    <3>1. Moves(h, Free) /\ HandlerMove(d, Free)
      BY <1>7, <2>2 DEF Resolve, HandlerMove
    <3>2. QED
      BY <3>1, FreeShape
  <2>3. CASE alias # 0
    <3> DEFINE n == [d EXCEPT !.at = "put", !.index = alias]
    <3>1. /\ n \in Handlings /\ n.at = "put" /\ n.event = d.event /\ n.doc = d.doc
          /\ n.index = alias
      BY <1>1, <1>3, AliasShape DEF Handlings
    <3>2. Moves(h, n)
      BY <1>7, <2>3 DEF Resolve
    <3> HIDE DEF n
    <3>3. HandlerMove(d, n)
      BY <2>1, <2>3, <3>1 DEF HandlerMove
    <3>4. QED
      BY <3>1, <3>2, <3>3
  <2>4. QED
    BY <2>2, <2>3
<1>8. ASSUME Record(h)
      PROVE  \E n \in Handlings : Moves(h, n) /\ HandlerMove(d, n)
  <2> DEFINE n == [d EXCEPT !.at = "ack"]
  <2>1. n \in Handlings /\ Keeps(n, d) /\ n.at = "ack"
    BY <1>3 DEF Handlings, Keeps
  <2>2. Moves(h, n) /\ d.at = "record" /\ <<d.event, d.index>> \in applied'
    BY <1>8 DEF Record
  <2>3. HandlerMove(d, n)
    <3> HIDE DEF n
    <3>1. QED
      BY <2>1, <2>2 DEF HandlerMove
  <2>4. QED
    BY <2>1, <2>2, <2>3
<1>9. ASSUME Ack(h) \/ GiveUp(h)
      PROVE  Moves(h, Free) /\ HandlerMove(d, Free)
  BY <1>9 DEF Ack, GiveUp, HandlerMove
<1>10. PICK n \in Handlings : Moves(h, n) /\ HandlerMove(d, n)
  BY <1>2, <1>4, <1>5, <1>6, <1>7, <1>8, <1>9, FreeShape
<1>11. QED
  BY <1>1, <1>10, Moved

\* Putting a document is a move, too: then the index has it, or a newer one.
LEMMA PutMoves ==
  ASSUME IInv, [Next]_vars, PutStep
  PROVE  /\ handler' \in [Handlers -> Handlings]
         /\ \A x \in Handlers : HandlerMove(handler[x], handler'[x])
<1>1. TypeOK
  BY DEF IInv
<1>2. PICK h \in Handlers : Put(h)
  BY DEF PutStep
<1> DEFINE d == handler[h]
           p == d.event[1]
<1>3. /\ d \in Handlings /\ d.index \in {0} \union Indices /\ d.doc \in Documents
      /\ d.at = "put"
  BY <1>1, <1>2, HandlerFields DEF Put
<1>4. CASE d.index \in live
  <2> DEFINE n == [d EXCEPT !.at = "record"]
  <2>1. n \in Handlings /\ Keeps(n, d) /\ n.at = "record"
    BY <1>3 DEF Handlings, Keeps
  <2>2. Moves(h, n) /\ docs' = [docs EXCEPT ![d.index][p] = Newer(@, d.doc)]
    BY <1>2, <1>4 DEF Put, WriteTo
  <2>3. d.event \in Changes /\ Truthful(p, d.doc) /\ d.index \in Indices
    BY <1>1, <1>3, <1>4, AliasShape DEF IInv, TypeOK, DocumentsTruthful, Committed
  <2>4. p \in Posts
    BY <2>3 DEF Changes
  <2>5. docs'[d.index][p].rev >= d.doc.rev
    <3> HIDE DEF d, p
    <3>1. QED
      BY <1>1, <1>3, <2>2, <2>3, <2>4, WriteMoves
  <2> HIDE DEF n
  <2>6. HandlerMove(d, n)
    BY <1>3, <1>4, <2>1, <2>5 DEF HandlerMove
  <2>7. QED
    BY <1>1, <2>1, <2>2, <2>6, Moved
<1>5. CASE d.index \notin live
  <2>1. Moves(h, Free) /\ HandlerMove(d, Free)
    BY <1>2, <1>5 DEF Put, HandlerMove
  <2>2. QED
    BY <1>1, <2>1, FreeShape, Moved
<1>6. QED
  BY <1>4, <1>5

\* In every step every handler stays or makes one of its moves.
LEMMA HandlersMove ==
  ASSUME IInv, [Next]_vars
  PROVE  /\ handler' \in [Handlers -> Handlings]
         /\ \A x \in Handlers : HandlerMove(handler[x], handler'[x])
<1>1. CASE UNCHANGED handler
  BY <1>1 DEF IInv, TypeOK, HandlerMove
<1>2. QED
  BY <1>1, DeliveryMoves, PutMoves, StepKinds, FactFrame, LandFrame, ReindexFrame, BulkFrame
     DEF vars

\* Results are only added, and only for the index a handler has put its document into.
LEMMA ResultsGrow ==
  ASSUME IInv, [Next]_vars
  PROVE  /\ applied \subseteq applied'
         /\ \A a \in applied' : \/ a \in applied
                                \/ \E h \in Handlers : /\ handler[h].at = "record"
                                                       /\ a = <<handler[h].event, handler[h].index>>
<1>1. CASE UNCHANGED applied
  BY <1>1
<1>2. CASE DeliveryStep
  BY <1>2 DEF DeliveryStep, Deliver, CheckApplied, ReadFact, Resolve, Record, Ack, GiveUp
<1>3. QED
  BY <1>1, <1>2, StepKinds, FactFrame, PutFrame, LandFrame, ReindexFrame, BulkFrame DEF vars

\* An event is acknowledged by a handler that is about to.
LEMMA AcksGrow ==
  ASSUME IInv, [Next]_vars
  PROVE  \A e \in acked' : \/ e \in acked
                           \/ \E h \in Handlers : handler[h].at = "ack" /\ handler[h].event = e
<1>1. CASE UNCHANGED acked
  BY <1>1
<1>2. CASE DeliveryStep
  BY <1>2 DEF DeliveryStep, Deliver, CheckApplied, ReadFact, Resolve, Record, Ack, GiveUp
<1>3. QED
  BY <1>1, <1>2, StepKinds, FactFrame, PutFrame, LandFrame, ReindexFrame, BulkFrame DEF vars

\* A late write is a document some handler or the reindexer had in hand.
LEMMA StrayMoves ==
  ASSUME IInv, [Next]_vars
  PROVE  /\ stray' \subseteq [index : Indices, post : Posts, doc : Documents]
         /\ \A w \in stray' : Truthful(w.post, w.doc)
<1>1. /\ stray \subseteq [index : Indices, post : Posts, doc : Documents]
      /\ \A w \in stray : Truthful(w.post, w.doc)
  BY DEF IInv, TypeOK, DocumentsTruthful
<1>2. CASE stray' \subseteq stray
  BY <1>1, <1>2
<1>3. ASSUME NEW h \in Handlers, GiveUp(h)
      PROVE  \A w \in stray' : \/ w \in stray
                               \/ /\ w \in [index : Indices, post : Posts, doc : Documents]
                                  /\ Truthful(w.post, w.doc)
  <2> DEFINE d == handler[h]
  <2> SUFFICES ASSUME NEW w \in stray', w \notin stray
               PROVE  /\ w \in [index : Indices, post : Posts, doc : Documents]
                      /\ Truthful(w.post, w.doc)
    OBVIOUS
  <2>1. w = [index |-> d.index, post |-> d.event[1], doc |-> d.doc] /\ d.at = "put"
    BY <1>3 DEF GiveUp
  <2>2. d.index \in Indices /\ d.event \in Committed /\ d.doc \in Documents
    BY <2>1, HandlerFields DEF IInv, HandlersTrue
  <2>3. d.event[1] \in Posts
    BY <2>2 DEF Committed, Changes
  <2>4. Truthful(d.event[1], d.doc)
    BY <2>1 DEF IInv, DocumentsTruthful
  <2>5. QED
    BY <2>1, <2>2, <2>3, <2>4
<1>4. ASSUME RunFails \/ RunCrashes
      PROVE  \A w \in stray' : \/ w \in stray
                               \/ /\ w \in [index : Indices, post : Posts, doc : Documents]
                                  /\ Truthful(w.post, w.doc)
  <2> SUFFICES ASSUME NEW w \in stray', w \notin stray
               PROVE  /\ w \in [index : Indices, post : Posts, doc : Documents]
                      /\ Truthful(w.post, w.doc)
    OBVIOUS
  <2>1. run.at # "idle" /\ w \in LateWrites
    BY <1>4 DEF RunFails, RunCrashes
  <2>2. PICK v \in run.page : w = [index |-> run.index, post |-> v.post, doc |-> v.doc]
    BY <2>1 DEF LateWrites
  <2>3. run.index \in Indices /\ v.post \in Posts /\ v.doc \in Documents
    BY <2>1, AliasShape DEF IInv, TypeOK, Runs
  <2>4. Truthful(v.post, v.doc)
    BY DEF IInv, DocumentsTruthful
  <2>5. QED
    BY <2>2, <2>3, <2>4
<1>5. CASE DeliveryStep
  BY <1>1, <1>2, <1>3, <1>5
     DEF DeliveryStep, Deliver, CheckApplied, ReadFact, Resolve, Record, Ack
<1>6. CASE ReindexStep
  BY <1>1, <1>2, <1>4, <1>6
     DEF ReindexStep, Start, HighWatermark, Scan, Refresh, CountUpTo, Compare, SwitchAlias,
         SwitchUnanswered, Abandon, DropOld
<1>7. CASE LandStep
  BY <1>2, <1>7 DEF LandStep, Land
<1>8. QED
  BY <1>2, <1>5, <1>6, <1>7, StepKinds, FactFrame, PutFrame, BulkFrame DEF vars

-----------------------------------------------------------------------------
(* The reindexer                                                            *)

\* What is known of the run after a step.
RunIs(at, copy, index, high, after, page, old) ==
  /\ run' \in Runs
  /\ run'.at = at /\ run'.copy = copy /\ run'.index = index
  /\ run'.high = high /\ run'.after = after /\ run'.page = page /\ run'.old = old

\* The run goes on, and keeps what it remembers.
RunAt(at) == RunIs(at, run.copy, run.index, run.high, run.after, run.page, run.old)

\* The fields of the run.
LEMMA RunFields ==
  ASSUME TypeOK
  PROVE  /\ run \in Runs
         /\ run.copy \in 0..2 /\ run.index \in {0} \union Indices /\ run.high \in Nat
         /\ run.after \in Nat /\ run.page \in SUBSET [post : Posts, doc : Documents]
         /\ run.old \in {0} \union Indices
<1>1. run \in Runs
  BY DEF TypeOK
<1>2. QED
  BY <1>1 DEF Runs

\* No run.
LEMMA NoRunShape ==
  /\ NoRun \in Runs /\ NoRun.at = "idle" /\ NoRun.copy = 0 /\ NoRun.page = {}
  BY DEF NoRun, Runs

\* Another stage, copy and index make another run.
LEMMA RunSets ==
  ASSUME NEW r \in Runs
  PROVE  /\ \A c \in 0..2, i \in {0} \union Indices : [r EXCEPT !.at = "high", !.copy = c, !.index = i] \in Runs
         /\ \A c \in 0..2, i \in {0} \union Indices : [r EXCEPT !.at = "high", !.copy = c, !.old = i] \in Runs
  BY DEF Runs

\* A subset of the posts can be counted, and has a largest element or none.
LEMMA PostSets ==
  ASSUME NEW S \in SUBSET Posts
  PROVE  /\ Cardinality(S) \in Nat
         /\ Max({0} \union S) \in Nat /\ \A p \in S : p <= Max({0} \union S)
         /\ S # {} => (Max(S) \in S /\ \A p \in S : p <= Max(S))
<1>1. IsFiniteSet(S) /\ S \in SUBSET Nat
  BY FS_Subset
<1> DEFINE T == {0} \union S
<1>2. IsFiniteSet(T) /\ T \in SUBSET Nat /\ T # {}
  <2>1. IsFiniteSet(S \union {0})
    BY <1>1, FS_AddElement
  <2>2. T = S \union {0}
    OBVIOUS
  <2>3. QED
    BY <1>1, <2>1, <2>2
<1>3. ASSUME NEW U \in SUBSET Nat, IsFiniteSet(U), U # {}
      PROVE  Max(U) \in U /\ \A p \in U : p <= Max(U)
  <2>1. \E m \in U : \A n \in U : m >= n
    BY <1>3, FiniteMaximum
  <2>2. QED
    BY <2>1 DEF Max
<1>4. Cardinality(S) \in Nat
  BY <1>1, FS_CardinalityType
<1>5. S # {} => (Max(S) \in S /\ \A p \in S : p <= Max(S))
  BY <1>1, <1>3
<1>6. Max(T) \in T /\ \A p \in T : p <= Max(T)
  <2> HIDE DEF T
  <2>1. QED
    BY <1>2, <1>3
<1>7. Max({0} \union S) \in Nat /\ \A p \in S : p <= Max({0} \union S)
  <2> DEFINE m == Max({0} \union S)
  <2>1. m \in T /\ \A p \in T : p <= m
    BY <1>6
  <2> HIDE DEF m
  <2>2. m \in Nat /\ \A p \in S : p <= m
    BY <1>1, <2>1
  <2>3. QED
    BY <2>2 DEF m
<1>8. QED
  BY <1>4, <1>5, <1>7, Zenon

\* A new run has a new index.
LEMMA StartEffect ==
  ASSUME IInv, Start
  PROVE  /\ RunIs("high", 1, built + 1, 0, 0, {}, 0) /\ built + 1 \in Indices
         /\ run.at = "idle"
<1>1. built \in Nat /\ built < MaxIndices /\ run.at = "idle"
  BY DEF Start, IInv, TypeOK
<1>2. built + 1 \in Indices
  BY <1>1 DEF Indices
<1>3. run' = [NoRun EXCEPT !.at = "high", !.copy = 1, !.index = built + 1]
  BY DEF Start
<1>4. RunIs("high", 1, built + 1, NoRun.high, NoRun.after, NoRun.page, NoRun.old)
  <2> DEFINE n == [NoRun EXCEPT !.at = "high", !.copy = 1, !.index = built + 1]
  <2>1. n \in Runs
    <3>1. NoRun \in Runs /\ 1 \in 0..2 /\ built + 1 \in {0} \union Indices
      BY <1>2, NoRunShape
    <3>2. QED
      BY <3>1, RunSets, Zenon
  <2>2. /\ n.at = "high" /\ n.copy = 1 /\ n.index = built + 1 /\ n.high = NoRun.high
        /\ n.after = NoRun.after /\ n.page = NoRun.page /\ n.old = NoRun.old
    BY NoRunShape DEF Runs
  <2>3. run' = n
    BY <1>3
  <2> HIDE DEF n
  <2>4. QED
    BY <2>1, <2>2, <2>3 DEF RunIs
<1>5. NoRun.high = 0 /\ NoRun.after = 0 /\ NoRun.page = {} /\ NoRun.old = 0
  BY DEF NoRun
<1>6. QED
  BY <1>1, <1>2, <1>4, <1>5

\* The high watermark lies above every post there is.
LEMMA HighEffect ==
  ASSUME IInv, HighWatermark
  PROVE  /\ run.at = "high"
         /\ \E top \in Nat : /\ RunIs("scan", run.copy, run.index, top, 0, run.page, run.old)
                             /\ \A p \in Posts : fact[p].rev > 0 => p <= top
<1> DEFINE S == {p \in Posts : fact[p].rev > 0}
           top == Max({0} \union S)
<1>1. top \in Nat /\ \A p \in S : p <= top
  <2>1. S \in SUBSET Posts
    OBVIOUS
  <2> HIDE DEF S
  <2>2. QED
    BY <2>1, PostSets
<1>2. run' = [run EXCEPT !.at = "scan", !.after = 0, !.high = top] /\ run.at = "high"
  BY DEF HighWatermark
<1> HIDE DEF top
<1>3. RunIs("scan", run.copy, run.index, top, 0, run.page, run.old)
  BY <1>1, <1>2, RunFields DEF IInv, RunIs, Runs
<1>4. QED
  BY <1>1, <1>2, <1>3

\* The documents of a page.
PageDocs == {[post |-> p, doc |-> fact[p]] : p \in Page}

\* A scan ends when there is nothing left, or reads a page.
LEMMA ScanEffect ==
  ASSUME IInv, Scan
  PROVE  /\ run.at = "scan"
         /\ \/ /\ Page = {} /\ RunAt("refresh") /\ uncovered' = (uncovered /\ run.copy = 1)
            \/ /\ Page # {} /\ uncovered' = uncovered
               /\ RunIs("bulk", run.copy, run.index, run.high, run.after, PageDocs, run.old)
<1>1. run.at = "scan"
  BY DEF Scan
<1>2. CASE Page = {}
  <2>1. run' = [run EXCEPT !.at = "refresh"]
    BY <1>2 DEF Scan, Goes
  <2>2. RunAt("refresh")
    BY <2>1, RunFields DEF IInv, RunAt, RunIs, Runs
  <2>3. QED
    BY <1>1, <1>2, <2>2 DEF Scan
<1>3. CASE Page # {}
  <2>1. run' = [run EXCEPT !.at = "bulk", !.page = PageDocs] /\ uncovered' = uncovered
    BY <1>3 DEF Scan, PageDocs
  <2>2. PageDocs \in SUBSET [post : Posts, doc : Documents]
    <3>1. \A p \in Page : p \in Posts
      BY DEF Page
    <3>2. fact \in [Posts -> Documents]
      BY DEF IInv, TypeOK
    <3>3. \A p \in Page : [post |-> p, doc |-> fact[p]] \in [post : Posts, doc : Documents]
      BY <3>1, <3>2
    <3>4. QED
      BY <3>3 DEF PageDocs
  <2>3. RunIs("bulk", run.copy, run.index, run.high, run.after, PageDocs, run.old)
    BY <2>1, <2>2, RunFields DEF IInv, RunIs, Runs
  <2>4. QED
    BY <1>1, <1>3, <2>1, <2>3
<1>4. QED
  BY <1>2, <1>3

\* A page that is written is passed.
LEMMA BulkEffect ==
  ASSUME IInv, Bulk
  PROVE  /\ run.at = "bulk"
         /\ \E last \in Nat :
              /\ RunIs("scan", run.copy, run.index, run.high, last, {}, run.old)
              /\ last \in {w.post : w \in run.page}
              /\ \A w \in run.page : w.post <= last
<1> DEFINE S == {w.post : w \in run.page}
           last == Max(S)
<1>1. run.at = "bulk" /\ run' = [run EXCEPT !.at = "scan", !.page = {}, !.after = last]
  BY DEF Bulk
<1>2. S \in SUBSET Posts /\ S # {}
  BY <1>1, RunFields DEF IInv, RunPlace
<1>3. last \in S /\ \A p \in S : p <= last
  <2> HIDE DEF S
  <2>1. QED
    BY <1>2, PostSets
<1>4. last \in Nat
  BY <1>2, <1>3
<1> HIDE DEF last
<1>5. RunIs("scan", run.copy, run.index, run.high, last, {}, run.old)
  BY <1>1, <1>4, RunFields DEF IInv, RunIs, Runs
<1>6. QED
  BY <1>1, <1>3, <1>4, <1>5

\* Refreshing and counting.
LEMMA CountEffect ==
  ASSUME IInv, Refresh \/ CountUpTo
  PROVE  \/ run.at = "refresh" /\ RunAt("count")
         \/ run.at = "count" /\ RunAt("compare")
<1>1. CASE Refresh
  <2> DEFINE n == Countable(run.index)
  <2>1. run.at = "refresh" /\ run' = [run EXCEPT !.at = "count", !.seen = n]
    BY <1>1 DEF Refresh
  <2>2. n \in Nat
    BY PostSets DEF Countable
  <2> HIDE DEF n
  <2>3. RunAt("count")
    BY <2>1, <2>2, RunFields DEF IInv, RunAt, RunIs, Runs
  <2>4. QED
    BY <2>1, <2>3
<1>2. CASE CountUpTo
  <2> DEFINE n == Cardinality({p \in Posts : fact[p].rev > 0 /\ ~fact[p].deleted /\ p <= run.high})
  <2>1. run.at = "count" /\ run' = [run EXCEPT !.at = "compare", !.expect = n]
    BY <1>2 DEF CountUpTo
  <2>2. n \in Nat
    BY PostSets
  <2> HIDE DEF n
  <2>3. RunAt("compare")
    BY <2>1, <2>2, RunFields DEF IInv, RunAt, RunIs, Runs
  <2>4. QED
    BY <2>1, <2>3
<1>3. QED
  BY <1>1, <1>2

\* A run that fails: it will delete its index, or leaves everything as it is.
Fails == \/ run.copy = 1 /\ RunIs("abandon", 1, run.index, run.high, run.after, {}, run.old)
         \/ run.copy # 1 /\ run' = NoRun

\* What Failed says.
LEMMA FailedEffect == ASSUME IInv, run' = Failed PROVE Fails
<1>1. CASE run.copy = 1
  <2>1. run' = [run EXCEPT !.at = "abandon", !.page = {}]
    BY <1>1 DEF Failed
  <2>2. RunIs("abandon", 1, run.index, run.high, run.after, {}, run.old)
    BY <1>1, <2>1, RunFields DEF IInv, RunIs, Runs
  <2>3. QED
    BY <1>1, <2>2 DEF Fails
<1>2. QED
  BY <1>1 DEF Failed, Fails

\* A comparison fails, or lets the run switch or drop the old index.
LEMMA CompareEffect ==
  ASSUME IInv, Compare
  PROVE  run.at = "compare" /\ (Fails \/ RunAt(IF run.copy = 1 THEN "switch" ELSE "drop"))
<1> DEFINE to == IF run.copy = 1 THEN "switch" ELSE "drop"
<1>1. run.at = "compare" /\ (run' = Failed \/ run' = [run EXCEPT !.at = to])
  BY DEF Compare, Goes
<1>2. CASE run' = [run EXCEPT !.at = to]
  <2>1. RunAt(to)
    BY <1>2, RunFields DEF IInv, RunAt, RunIs, Runs
  <2>2. QED
    BY <1>1, <2>1
<1>3. QED
  BY <1>1, <1>2, FailedEffect

\* The alias moves: the second copy begins, or the run takes it for a failure.
LEMMA SwitchEffect ==
  ASSUME IInv, SwitchAlias \/ SwitchUnanswered
  PROVE  /\ run.at = "switch" /\ alias' = run.index /\ uncovered'
         /\ \/ Fails
            \/ RunIs("high", 2, run.index, run.high, run.after, run.page, alias)
<1>1. run.at = "switch" /\ alias' = run.index /\ uncovered' /\ (run' = Switched \/ run' = Failed)
  BY DEF SwitchAlias, SwitchUnanswered
<1>2. CASE run' = Switched
  <2>1. run' = [run EXCEPT !.at = "high", !.copy = 2, !.old = alias]
    BY <1>2 DEF Switched
  <2>2. RunIs("high", 2, run.index, run.high, run.after, run.page, alias)
    <3> DEFINE n == [run EXCEPT !.at = "high", !.copy = 2, !.old = alias]
    <3>1. n \in Runs
      <4>1. run \in Runs /\ 2 \in 0..2 /\ alias \in {0} \union Indices
        BY RunFields, AliasShape DEF IInv
      <4>2. QED
        BY <4>1, RunSets, Zenon
    <3>2. /\ n.at = "high" /\ n.copy = 2 /\ n.index = run.index /\ n.high = run.high
          /\ n.after = run.after /\ n.page = run.page /\ n.old = alias
      BY RunFields DEF IInv, Runs
    <3>3. run' = n
      BY <2>1
    <3> HIDE DEF n
    <3>4. QED
      BY <3>1, <3>2, <3>3 DEF RunIs
  <2>3. QED
    BY <1>1, <2>2
<1>3. QED
  BY <1>1, <1>2, FailedEffect

\* The cases of a step, by what it does to the run, the indices and the alias.
Still == UNCHANGED <<alias, built, live>>

Rests == Still /\ uncovered' = uncovered /\ run' = run
Starts == /\ run.at = "idle" /\ RunIs("high", 1, built + 1, 0, 0, {}, 0)
          /\ built + 1 \in Indices /\ built' = built + 1 /\ live' = live \union {built + 1}
          /\ UNCHANGED <<alias, uncovered>>
Measures == /\ run.at = "high" /\ Still /\ uncovered' = uncovered
            /\ \E top \in Nat : /\ RunIs("scan", run.copy, run.index, top, 0, run.page, run.old)
                                /\ \A p \in Posts : fact[p].rev > 0 => p <= top
Reads == /\ run.at = "scan" /\ Still /\ uncovered' = uncovered
         /\ RunIs("bulk", run.copy, run.index, run.high, run.after, PageDocs, run.old)
         /\ Page # {}
Ends == /\ run.at = "scan" /\ Still /\ uncovered' = (uncovered /\ run.copy = 1)
        /\ RunAt("refresh") /\ Page = {}
Writes == /\ Bulk /\ Still /\ uncovered' = uncovered
          /\ \E last \in Nat : /\ RunIs("scan", run.copy, run.index, run.high, last, {}, run.old)
                               /\ last \in {w.post : w \in run.page}
Checks == /\ Still /\ uncovered' = uncovered
          /\ \/ run.at = "refresh" /\ RunAt("count")
             \/ run.at = "count" /\ RunAt("compare")
             \/ run.at = "compare" /\ run.copy = 1 /\ RunAt("switch")
             \/ run.at = "compare" /\ run.copy = 2 /\ RunAt("drop")
Breaks == /\ Still /\ uncovered' = uncovered /\ run.at # "idle"
          /\ \/ Fails /\ run.at # "abandon"
             \/ run' = NoRun
Switches == /\ run.at = "switch" /\ alias' = run.index /\ uncovered' = TRUE
            /\ UNCHANGED <<built, live>>
            /\ \/ Fails
               \/ RunIs("high", 2, run.index, run.high, run.after, run.page, alias)
Abandons == /\ run.at = "abandon" /\ run' = NoRun /\ live' = live \ {run.index}
            /\ alias' = (IF alias = run.index THEN 0 ELSE alias)
            /\ UNCHANGED <<built, uncovered>>
Drops == /\ run.at = "drop" /\ run' = NoRun /\ live' = live \ {run.old}
         /\ UNCHANGED <<alias, built, uncovered>>

\* Every step is one of these cases.
LEMMA RunMoves ==
  ASSUME IInv, [Next]_vars
  PROVE  \/ Rests \/ Starts \/ Measures \/ Reads \/ Ends \/ Writes \/ Checks \/ Breaks
         \/ Switches \/ Abandons \/ Drops
<1>1. CASE FactStep \/ DeliveryStep \/ PutStep \/ LandStep \/ UNCHANGED vars
  BY <1>1, FactFrame, DeliveryFrame, PutFrame, LandFrame DEF Rests, Still, vars
<1>2. CASE Start
  BY <1>2, StartEffect DEF Start, Starts
<1>3. CASE HighWatermark
  BY <1>3, HighEffect DEF HighWatermark, store, Measures, Still
<1>4. CASE Scan
  BY <1>4, ScanEffect DEF Scan, store, Reads, Ends, Still
<1>5. CASE Bulk
  <2>1. Still /\ uncovered' = uncovered
    BY <1>5, BulkFrame DEF Still
  <2>2. QED
    BY <1>5, <2>1, BulkEffect DEF Writes
<1>6. CASE Refresh \/ CountUpTo
  <2>1. Still /\ uncovered' = uncovered
    BY <1>6 DEF Refresh, CountUpTo, store, Still
  <2>2. QED
    BY <1>6, <2>1, CountEffect DEF Checks
<1>7. CASE Compare
  <2>1. Still /\ uncovered' = uncovered
    BY <1>7 DEF Compare, store, Still
  <2>2. run.copy \in 1..2 /\ run.at = "compare"
    BY <1>7, CompareEffect DEF IInv, RunPlace
  <2>3. Fails \/ RunAt(IF run.copy = 1 THEN "switch" ELSE "drop")
    BY <1>7, CompareEffect
  <2>4. QED
    BY <2>1, <2>2, <2>3 DEF Checks, Breaks
<1>8. CASE SwitchAlias \/ SwitchUnanswered
  <2>1. UNCHANGED <<built, live>> /\ uncovered' = TRUE
    BY <1>8 DEF SwitchAlias, SwitchUnanswered
  <2>2. QED
    BY <1>8, <2>1, SwitchEffect DEF Switches
<1>9. CASE Abandon
  BY <1>9 DEF Abandon, Abandons
<1>10. CASE DropOld
  BY <1>10 DEF DropOld, Drops
<1>11. CASE RunFails
  <2>1. Still /\ uncovered' = uncovered /\ run.at \notin {"idle", "abandon"} /\ run' = Failed
    BY <1>11 DEF RunFails, store, Still
  <2>2. QED
    BY <2>1, FailedEffect DEF Breaks
<1>12. CASE RunCrashes
  BY <1>12 DEF RunCrashes, store, Still, Breaks
<1>13. QED
  BY <1>1, <1>2, <1>3, <1>4, <1>5, <1>6, <1>7, <1>8, <1>9, <1>10, <1>11, <1>12, StepKinds
     DEF ReindexStep

\* Indices are built one after the other.
LEMMA BuiltGrows ==
  ASSUME IInv, [Next]_vars
  PROVE  /\ built \in Nat /\ built' \in 0..MaxIndices /\ built <= built'
<1>1. built \in Nat /\ built \in 0..MaxIndices
  BY DEF IInv, TypeOK
<1>2. CASE Starts
  BY <1>1, <1>2 DEF Starts, Indices
<1>3. CASE UNCHANGED built
  BY <1>1, <1>3
<1>4. QED
  BY <1>2, <1>3, RunMoves
     DEF Rests, Measures, Reads, Ends, Writes, Checks, Breaks, Switches, Abandons, Drops, Still

\* What an index holds, it holds for ever.
LEMMA HoldsStays ==
  ASSUME IInv, [Next]_vars, NEW i \in Indices, NEW e \in Changes, Holds(i, e)
  PROVE  Holds(i, e)'
<1> DEFINE p == e[1]
           r == e[2]
<1>1. p \in Posts /\ r \in 1..MaxRev
  BY DEF Changes
<1> HIDE DEF p, r
<1>2. docs[i][p].rev \in Int /\ docs'[i][p].rev \in Int /\ DocMove(i, p)
  BY <1>1, DocsMove, DocumentFields DEF IInv, TypeOK
<1>3. docs[i][p].rev >= r
  BY DEF Holds, p, r
<1>4. docs'[i][p].rev >= r
  BY <1>1, <1>2, <1>3 DEF DocMove
<1>5. QED
  BY <1>4 DEF Holds, p, r

\* The documents stay facts of some time.
LEMMA DocumentsStep == ASSUME IInv, [Next]_vars PROVE DocumentsTruthful'
<1>1. TypeOK /\ DocumentsTruthful
  BY DEF IInv
<1>2. \A i \in Indices, p \in Posts : Truthful(p, docs[i][p])'
  <2> SUFFICES ASSUME NEW i \in Indices, NEW p \in Posts PROVE Truthful(p, docs[i][p])'
    OBVIOUS
  <2>1. PICK d \in Documents : d = docs'[i][p]
    BY DocsMove
  <2>2. Truthful(p, d)
    BY <1>1, <2>1, DocsMove DEF DocMove, DocumentsTruthful
  <2>3. Truthful(p, d)'
    BY <1>1, <2>2, CommittedStays
  <2>4. QED
    BY <2>1, <2>3 DEF Truthful
<1>3. \A w \in stray' : Truthful(w.post, w.doc)'
  <2> SUFFICES ASSUME NEW w \in stray' PROVE Truthful(w.post, w.doc)'
    OBVIOUS
  <2>1. w.post \in Posts /\ w.doc \in Documents /\ Truthful(w.post, w.doc)
    BY StrayMoves
  <2>2. QED
    BY <1>1, <2>1, CommittedStays
<1>4. ASSUME NEW h \in Handlers, handler'[h].at \in {"resolve", "put"}
      PROVE  Truthful(handler[h].event[1], handler[h].doc)'
  <2> DEFINE d == handler[h]
             n == handler'[h]
  <2>1. n.at \in {"resolve", "put"}
    BY <1>4
  <2>2. HandlerMove(d, n) /\ n \in Handlings
    BY HandlersMove
  <2>3. \/ n.event = d.event /\ n.doc = d.doc /\ d.at \in {"resolve", "put"}
        \/ n.event = d.event /\ n.doc = fact[d.event[1]] /\ d.at = "read"
    <3> HIDE DEF d, n
    <3>1. QED
      BY <2>1, <2>2, FreeShape DEF HandlerMove
  <2>4. d.event \in Changes /\ d.event[1] \in Posts /\ d.doc \in Documents
    BY <1>1, <2>3, HandlerFields DEF TypeOK, Committed, Changes
  <2>5. n.doc \in Documents /\ Truthful(n.event[1], n.doc)
    <3>1. CASE n.event = d.event /\ n.doc = d.doc /\ d.at \in {"resolve", "put"}
      BY <1>1, <2>4, <3>1 DEF DocumentsTruthful
    <3>2. CASE n.event = d.event /\ n.doc = fact[d.event[1]] /\ d.at = "read"
      <4>1. fact[d.event[1]] \in Documents
        BY <1>1, <2>4 DEF TypeOK
      <4>2. Truthful(d.event[1], fact[d.event[1]])
        BY <4>1, DocumentFields DEF Truthful
      <4>3. QED
        BY <3>2, <4>1, <4>2
    <3>3. QED
      BY <2>3, <3>1, <3>2
  <2>6. n.event[1] \in Posts
    BY <2>3, <2>4
  <2>7. PICK p \in Posts, b \in Documents : p = n.event[1] /\ b = n.doc
    BY <2>5, <2>6
  <2>8. Truthful(p, b)'
    BY <1>1, <2>5, <2>7, CommittedStays
  <2>9. QED
    BY <2>7, <2>8 DEF Truthful
<1>5. \A w \in run'.page : Truthful(w.post, w.doc)'
  <2>1. CASE run'.page \subseteq run.page
    <3>1. \A w \in run'.page : w.post \in Posts /\ w.doc \in Documents /\ Truthful(w.post, w.doc)
      BY <1>1, <2>1, RunFields DEF DocumentsTruthful
    <3>2. QED
      BY <1>1, <3>1, CommittedStays
  <2>2. CASE Reads
    <3> SUFFICES ASSUME NEW w \in PageDocs PROVE Truthful(w.post, w.doc)'
      BY <2>2 DEF Reads, RunIs
    <3>1. PICK p \in Page : w = [post |-> p, doc |-> fact[p]]
      BY DEF PageDocs
    <3>2. w.post \in Posts /\ w.doc = fact[w.post] /\ w.doc \in Documents
      BY <1>1, <3>1 DEF Page, TypeOK
    <3>3. Truthful(w.post, w.doc)
      BY <3>2, DocumentFields DEF Truthful
    <3>4. QED
      BY <1>1, <3>2, <3>3, CommittedStays
  <2>3. QED
    BY <2>1, <2>2, RunMoves, NoRunShape
       DEF Rests, Starts, Measures, Ends, Writes, Checks, Breaks, Fails, Switches, Abandons,
           Drops, RunIs, RunAt
<1>6. QED
  BY <1>2, <1>3, <1>4, <1>5 DEF DocumentsTruthful

\* The indexer does for its events what it says.
LEMMA HandlersStep == ASSUME IInv, [Next]_vars PROVE HandlersTrue'
<1>1. TypeOK /\ HandlersTrue
  BY DEF IInv
<1> SUFFICES ASSUME NEW h \in Handlers
             PROVE  /\ handler'[h].at # "idle" => handler'[h].event \in Committed'
                    /\ handler'[h].at \in {"resolve", "put"} =>
                         handler'[h].doc.rev >= handler'[h].event[2]
                    /\ handler'[h].at \in {"put", "record"} => handler'[h].index \in Indices
                    /\ handler'[h].at = "record" => Holds(handler[h].index, handler[h].event)'
                    /\ handler'[h].at = "ack" => <<handler'[h].event, handler'[h].index>> \in applied'
  BY DEF HandlersTrue
<1> DEFINE d == handler[h]
           n == handler'[h]
<1>2. /\ HandlerMove(d, n) /\ n \in Handlings
      /\ d.event \in {<<0, 0>>} \union Changes /\ d.index \in {0} \union Indices
      /\ d.doc \in Documents
  BY <1>1, HandlersMove, HandlerFields
<1>3. /\ d.at # "idle" => d.event \in Committed
      /\ d.at \in {"resolve", "put"} => d.doc.rev >= d.event[2]
      /\ d.at \in {"put", "record"} => d.index \in Indices
      /\ d.at = "record" => Holds(d.index, d.event)
      /\ d.at = "ack" => <<d.event, d.index>> \in applied
  BY <1>1 DEF HandlersTrue
<1>4. n.at # "idle" => n.event \in Committed'
  <2>1. n.at # "idle" => n.event \in Committed
    <3> HIDE DEF d, n
    <3>1. QED
      BY <1>2, <1>3, FreeShape DEF HandlerMove, Keeps
  <2>2. QED
    BY <1>1, <2>1, CommittedStays
<1>5. n.at \in {"resolve", "put"} => n.doc.rev >= n.event[2]
  <2>1. d.at = "read" => fact[d.event[1]].rev >= d.event[2]
    <3> SUFFICES ASSUME d.at = "read" PROVE fact[d.event[1]].rev >= d.event[2]
      OBVIOUS
    <3>1. PICK e \in Committed : e = d.event
      BY <1>3
    <3>2. e[1] \in Posts /\ e[2] \in Nat /\ e[2] <= fact[e[1]].rev
      BY DEF Committed, Changes
    <3>3. fact[e[1]].rev \in Int
      BY <1>1, <3>2, DocumentFields DEF TypeOK
    <3>4. QED
      BY <3>1, <3>2, <3>3
  <2> DEFINE f == fact[d.event[1]]
  <2>2. d.at = "read" => f.rev >= d.event[2]
    BY <2>1
  <2>3. HandlerMove(d, n) => \/ n = d
                             \/ n.at \notin {"resolve", "put"}
                             \/ d.at = "read" /\ n.event = d.event /\ n.doc = f
                             \/ d.at = "resolve" /\ n.event = d.event /\ n.doc = d.doc
    <3> HIDE DEF d, n
    <3>1. QED
      BY FreeShape DEF HandlerMove
  <2> HIDE DEF d, n, f
  <2>4. QED
    BY <1>2, <1>3, <2>2, <2>3
<1>6. n.at \in {"put", "record"} => n.index \in Indices
  <2> HIDE DEF d, n
  <2>1. QED
    BY <1>1, <1>2, <1>3, AliasShape, FreeShape DEF HandlerMove, Keeps
<1>7. n.at = "record" => Holds(handler[h].index, handler[h].event)'
  <2> SUFFICES ASSUME n.at = "record" PROVE Holds(handler[h].index, handler[h].event)'
    OBVIOUS
  <2>1. \/ n = d
        \/ /\ d.at = "put" /\ n.index = d.index /\ n.event = d.event
           /\ docs'[d.index][d.event[1]].rev >= d.doc.rev
    <3> HIDE DEF d, n
    <3>1. QED
      BY <1>2, FreeShape DEF HandlerMove, Keeps
  <2>2. d.at \in {"put", "record"} /\ n.index = d.index /\ n.event = d.event
    BY <2>1
  <2>3. PICK i \in Indices, e \in Committed : i = d.index /\ e = d.event
    BY <1>3, <2>2
  <2>4. e \in Changes /\ e[1] \in Posts /\ e[2] \in Nat
    BY DEF Committed, Changes
  <2>5. docs'[i][e[1]].rev >= e[2]
    <3>1. CASE n = d
      <4>1. Holds(i, e)
        BY <1>3, <2>3, <3>1
      <4>2. Holds(i, e)'
        BY <2>4, <4>1, HoldsStays
      <4>3. QED
        BY <4>2 DEF Holds
    <3>2. CASE d.at = "put" /\ docs'[d.index][d.event[1]].rev >= d.doc.rev
      <4>1. docs'[i][e[1]].rev >= d.doc.rev /\ d.doc.rev >= e[2]
        BY <1>3, <2>3, <3>2
      <4>2. docs'[i][e[1]].rev \in Int /\ d.doc.rev \in Int
        BY <1>2, <2>4, DocsMove, DocumentFields
      <4>3. QED
        BY <2>4, <4>1, <4>2
    <3>3. QED
      BY <2>1, <3>1, <3>2
  <2>6. QED
    BY <2>2, <2>3, <2>5 DEF Holds
<1>8. n.at = "ack" => <<n.event, n.index>> \in applied'
  <2>1. applied \subseteq applied'
    BY ResultsGrow
  <2> HIDE DEF d, n
  <2>2. QED
    BY <1>2, <1>3, <2>1, FreeShape DEF HandlerMove, Keeps
<1>9. QED
  BY <1>4, <1>5, <1>6, <1>7, <1>8

\* Evidence stays true.
LEMMA AppliedStep == ASSUME IInv, [Next]_vars PROVE AppliedTrue' /\ applied' \subseteq Committed' \X Indices
<1>1. TypeOK /\ HandlersTrue /\ AppliedTrue
  BY DEF IInv
<1> SUFFICES ASSUME NEW a \in applied'
             PROVE  Holds(a[2], a[1])' /\ a \in Committed' \X Indices
  BY DEF AppliedTrue
<1>2. a \in Committed \X Indices /\ Holds(a[2], a[1])
  <2>1. CASE a \in applied
    BY <1>1, <2>1 DEF TypeOK, AppliedTrue
  <2>2. ASSUME NEW h \in Handlers, handler[h].at = "record", a = <<handler[h].event, handler[h].index>>
        PROVE  a \in Committed \X Indices /\ Holds(a[2], a[1])
    BY <1>1, <2>2 DEF HandlersTrue
  <2>3. QED
    BY <2>1, <2>2, ResultsGrow
<1>3. PICK e \in Committed, i \in Indices : a = <<e, i>>
  BY <1>2
<1>4. e \in Changes /\ Holds(i, e)
  BY <1>2, <1>3 DEF Committed
<1>5. Holds(i, e)'
  BY <1>4, HoldsStays
<1>6. e \in Committed'
  BY <1>1, CommittedStays
<1>7. QED
  BY <1>3, <1>5, <1>6 DEF Holds

\* Nobody speaks of an index that is still to be built.
LEMMA IndicesStep == ASSUME IInv, [Next]_vars PROVE IndicesBuilt'
<1>1. TypeOK /\ IndicesBuilt
  BY DEF IInv
<1>2. built \in Nat /\ built' \in Nat /\ built <= built'
  BY BuiltGrows
<1>3. \A h \in Handlers : handler[h].index \in Int /\ handler[h].index <= built
  BY <1>1, HandlerFields DEF IndicesBuilt, Indices
<1>4. ASSUME NEW a \in applied' PROVE a[2] <= built'
  <2>1. CASE a \in applied
    <3>1. a[2] \in Int /\ a[2] <= built
      BY <1>1, <2>1 DEF TypeOK, IndicesBuilt, Indices
    <3>2. QED
      BY <1>2, <3>1
  <2>2. ASSUME NEW h \in Handlers, a = <<handler[h].event, handler[h].index>> PROVE a[2] <= built'
    BY <1>2, <1>3, <2>2
  <2>3. QED
    BY <2>1, <2>2, ResultsGrow
<1>5. ASSUME NEW h \in Handlers PROVE handler'[h].index <= built'
  <2> DEFINE d == handler[h]
             n == handler'[h]
  <2>1. HandlerMove(d, n)
    BY HandlersMove
  <2>2. n.index = d.index \/ n.index = 0 \/ n.index = alias
    <3> HIDE DEF d, n
    <3>1. QED
      BY <2>1, FreeShape DEF HandlerMove, Keeps
  <2>3. alias \in Int /\ alias <= built
    BY <1>1, AliasShape DEF Indices
  <2>4. QED
    BY <1>2, <1>3, <2>2, <2>3
<1>6. QED
  BY <1>4, <1>5 DEF IndicesBuilt

\* The run keeps its place.
LEMMA PlaceStep == ASSUME IInv, [Next]_vars PROVE RunPlace'
<1>1. TypeOK /\ RunPlace
  BY DEF IInv
<1>2. /\ run.copy \in 0..2 /\ run.index \in {0} \union Indices /\ run.high \in Nat /\ run.after \in Nat
      /\ alias \in {0} \union Indices /\ alias <= built /\ built \in Nat
  BY <1>1, RunFields, AliasShape
<1>3. ASSUME run' = NoRun PROVE RunPlace'
  BY <1>3, NoRunShape DEF RunPlace
<1>4. ASSUME Fails, run.at \notin {"idle", "abandon"}, alias' = alias \/ uncovered'
      PROVE  RunPlace'
  <2>1. CASE run' = NoRun
    BY <1>3, <2>1
  <2>2. CASE run.copy = 1 /\ RunIs("abandon", 1, run.index, run.high, run.after, {}, run.old)
    <3>1. alias # run.index
      BY <1>1, <1>4, <2>2 DEF RunPlace
    <3>2. QED
      BY <1>4, <2>2, <3>1 DEF RunIs, RunPlace
  <2>3. QED
    BY <1>4, <2>1, <2>2 DEF Fails
<1>5. CASE Rests
  BY <1>1, <1>5 DEF Rests, Still, RunPlace
<1>6. CASE Starts
  <2>1. alias # built + 1
    BY <1>2
  <2>2. QED
    BY <1>6, <2>1 DEF Starts, RunIs, RunPlace
<1>7. CASE Measures
  <2>1. run.page = {}
    BY <1>1, <1>7 DEF Measures, RunPlace
  <2>2. QED
    BY <1>1, <1>7, <2>1 DEF Measures, Still, RunIs, RunPlace
<1>8. CASE Reads
  <2>1. \A w \in PageDocs : run.after < w.post /\ w.post <= run.high
    <3>1. \A p \in Page : run.after < p /\ p <= run.high
      BY DEF Page
    <3>2. \A w \in PageDocs : w.post \in Page
      BY DEF PageDocs
    <3>3. QED
      BY <3>1, <3>2, Zenon
  <2>2. \A w, v \in PageDocs : w.post = v.post => w = v
    BY DEF PageDocs
  <2>3. PageDocs # {}
    BY <1>8 DEF PageDocs, Reads
  <2> HIDE DEF PageDocs
  <2>4. QED
    BY <1>1, <1>8, <2>1, <2>2, <2>3 DEF Reads, Still, RunIs, RunPlace
<1>9. CASE Ends
  BY <1>1, <1>9 DEF Ends, Still, RunAt, RunIs, RunPlace
<1>10. CASE Writes
  <2>1. run.at = "bulk"
    BY <1>10 DEF Writes, Bulk
  <2>2. QED
    BY <1>1, <1>10, <2>1 DEF Writes, Still, RunIs, RunPlace
<1>11. CASE Checks
  BY <1>1, <1>11 DEF Checks, Still, RunAt, RunIs, RunPlace
<1>12. CASE Breaks
  BY <1>3, <1>4, <1>12 DEF Breaks, Still
<1>13. CASE Switches
  <2>1. run.copy = 1 /\ run.page = {} /\ alias # run.index
    BY <1>1, <1>13 DEF Switches, RunPlace
  <2>2. CASE Fails
    BY <1>4, <1>13, <2>2 DEF Switches
  <2>3. CASE RunIs("high", 2, run.index, run.high, run.after, run.page, alias)
    BY <1>13, <2>1, <2>3 DEF Switches, RunIs, RunPlace
  <2>4. QED
    BY <1>13, <2>2, <2>3 DEF Switches
<1>14. CASE Abandons \/ Drops
  BY <1>3, <1>14 DEF Abandons, Drops
<1>15. QED
  BY <1>5, <1>6, <1>7, <1>8, <1>9, <1>10, <1>11, <1>12, <1>13, <1>14, RunMoves

\* And the indices theirs.
LEMMA StoreStep ==
  ASSUME IInv, [Next]_vars
  PROVE  /\ live' \subseteq 1..built' /\ alias' \in {0} \union live'
         /\ run' \in Runs /\ (run'.at # "idle" => run'.copy \in 1..2 /\ run'.index \in live')
         /\ uncovered' \in BOOLEAN
<1>1. /\ live \subseteq 1..built /\ alias \in {0} \union live /\ run \in Runs
      /\ run.at # "idle" => run.copy \in 1..2 /\ run.index \in live
      /\ uncovered \in BOOLEAN /\ built \in Nat
  BY DEF IInv, TypeOK
<1>2. ASSUME Still, RunIs(run'.at, run.copy, run.index, run'.high, run'.after, run'.page, run.old), run.at # "idle"
      PROVE  /\ live' \subseteq 1..built' /\ alias' \in {0} \union live'
             /\ run' \in Runs /\ (run'.at # "idle" => run'.copy \in 1..2 /\ run'.index \in live')
  BY <1>1, <1>2 DEF Still, RunIs
<1>3. ASSUME run' = NoRun PROVE run' \in Runs /\ run'.at = "idle"
  BY <1>3, NoRunShape
<1>4. CASE Rests
  BY <1>1, <1>4 DEF Rests, Still
<1>5. CASE Starts
  <2>1. /\ live' = live \union {built + 1} /\ built' = built + 1 /\ alias' = alias
        /\ uncovered' = uncovered
    BY <1>5 DEF Starts
  <2>2. run' \in Runs /\ run'.copy = 1 /\ run'.index = built + 1
    BY <1>5 DEF Starts, RunIs
  <2>3. live' \subseteq 1..built'
    BY <1>1, <2>1
  <2>4. QED
    BY <1>1, <2>1, <2>2, <2>3
<1>6. CASE Measures \/ Reads \/ Ends \/ Writes \/ Checks
  <2>1. Still /\ run.at # "idle" /\ uncovered' \in BOOLEAN
    BY <1>1, <1>6 DEF Measures, Reads, Ends, Writes, Checks, Bulk
  <2>2. RunIs(run'.at, run.copy, run.index, run'.high, run'.after, run'.page, run.old)
    BY <1>6 DEF Measures, Reads, Ends, Writes, Checks, RunAt, RunIs
  <2>3. QED
    BY <1>2, <2>1, <2>2
<1>7. CASE Breaks
  <2>1. Still /\ uncovered' \in BOOLEAN /\ run.at # "idle"
    BY <1>1, <1>7 DEF Breaks
  <2>2. run' = NoRun \/ RunIs("abandon", 1, run.index, run.high, run.after, {}, run.old)
    BY <1>7 DEF Breaks, Fails
  <2>3. QED
    BY <1>1, <1>3, <2>1, <2>2 DEF Still, RunIs
<1>8. CASE Switches
  <2>1. run.index \in live /\ uncovered' \in BOOLEAN /\ alias' = run.index /\ UNCHANGED <<built, live>>
    BY <1>1, <1>8 DEF Switches
  <2>2. \/ run' = NoRun
        \/ RunIs("abandon", 1, run.index, run.high, run.after, {}, run.old)
        \/ RunIs("high", 2, run.index, run.high, run.after, run.page, alias)
    BY <1>8 DEF Switches, Fails
  <2>3. QED
    BY <1>1, <1>3, <2>1, <2>2 DEF RunIs
<1>9. CASE Abandons
  BY <1>1, <1>3, <1>9 DEF Abandons
<1>10. CASE Drops
  <2>1. alias # run.old
    BY <1>10 DEF Drops, IInv, RunPlace
  <2>2. QED
    BY <1>1, <1>3, <1>10, <2>1 DEF Drops
<1>11. QED
  BY <1>4, <1>5, <1>6, <1>7, <1>8, <1>9, <1>10, RunMoves

\* Faults are bounded.
LEMMA FaultsStep == ASSUME IInv, [Next]_vars PROVE faults' \in 0..MaxFaults
<1>1. faults \in 0..MaxFaults
  BY DEF IInv, TypeOK
<1>2. faults' = faults \/ (faults < MaxFaults /\ faults' = faults + 1)
  <2>1. CASE DeliveryStep
    BY <2>1 DEF DeliveryStep, Deliver, CheckApplied, ReadFact, Resolve, Record, Ack, GiveUp
  <2>2. CASE ReindexStep
    BY <2>2 DEF ReindexStep, Start, HighWatermark, Scan, Refresh, CountUpTo, Compare,
                SwitchAlias, SwitchUnanswered, Abandon, DropOld, RunFails, RunCrashes
  <2>3. QED
    BY <2>1, <2>2, StepKinds, FactFrame, PutFrame, LandFrame, BulkFrame DEF vars
<1>3. QED
  BY <1>1, <1>2

\* Every step keeps the types.
LEMMA TypeStep == ASSUME IInv, [Next]_vars PROVE TypeOK'
<1>1. TypeOK /\ HandlersTrue
  BY DEF IInv
<1>2. fact' \in [Posts -> Documents]
  BY <1>1, FactsGrow
<1>3. acked' \subseteq Committed'
  <2>1. acked \subseteq Committed /\ Committed \subseteq Committed'
    BY <1>1, CommittedStays DEF TypeOK
  <2>2. \A h \in Handlers : handler[h].at = "ack" => handler[h].event \in Committed
    BY <1>1 DEF HandlersTrue
  <2>3. QED
    BY <2>1, <2>2, AcksGrow
<1>4. applied' \subseteq Committed' \X Indices
  BY AppliedStep
<1>5. built' \in 0..MaxIndices
  BY BuiltGrows
<1>6. docs' \in [Indices -> [Posts -> Documents]]
  BY DocsMove
<1>7. stray' \subseteq [index : Indices, post : Posts, doc : Documents]
  BY StrayMoves
<1>8. handler' \in [Handlers -> Handlings]
  BY HandlersMove
<1>9. \A h \in Handlers : handler'[h].at # "idle" => handler'[h].event \in Committed'
  BY HandlersStep DEF HandlersTrue
<1>10. QED
  BY <1>2, <1>3, <1>4, <1>5, <1>6, <1>7, <1>8, <1>9, StoreStep, FaultsStep, Zenon DEF TypeOK

-----------------------------------------------------------------------------
(* The rebuild                                                              *)

\* What is left for a copy to write.
Rest == {p \in Posts : fact[p].rev > 0 /\ run.after < p /\ p <= run.high}

\* A page is the first posts of the rest: whatever comes before one of them is in it.
LEMMA PageFirst ==
  ASSUME NEW p \in Page, NEW q \in Rest, q <= p
  PROVE  q \in Page
<1> DEFINE Upto(n) == {r \in Rest : r <= n}
<1>1. p \in Rest /\ Cardinality(Upto(p)) <= Batch
  BY DEF Page, Rest
<1>2. Rest \subseteq Posts /\ IsFiniteSet(Posts) /\ Posts \subseteq Nat
  BY DEF Rest
<1>3. Upto(q) \subseteq Upto(p)
  <2>1. \A r \in Rest : r \in Nat
    BY <1>2
  <2>2. \A r \in Rest : r <= q => r <= p
    BY <1>1, <2>1
  <2>3. QED
    BY <2>2
<1>4. IsFiniteSet(Upto(p))
  <2>1. Upto(p) \subseteq Posts
    BY <1>2
  <2> HIDE DEF Upto
  <2>2. QED
    BY <1>2, <2>1, FS_Subset
<1>5. Cardinality(Upto(q)) <= Cardinality(Upto(p)) /\ Cardinality(Upto(q)) \in Nat /\ Cardinality(Upto(p)) \in Nat
  <2> DEFINE A == Upto(q)
             B == Upto(p)
  <2>1. A \subseteq B /\ IsFiniteSet(B)
    BY <1>3, <1>4
  <2> HIDE DEF A, B
  <2>2. IsFiniteSet(A) /\ Cardinality(A) <= Cardinality(B)
    BY <2>1, FS_Subset
  <2>3. Cardinality(A) \in Nat /\ Cardinality(B) \in Nat
    BY <2>1, <2>2, FS_CardinalityType
  <2>4. QED
    BY <2>2, <2>3 DEF A, B
<1>6. Cardinality(Upto(q)) <= Batch
  <2> HIDE DEF Upto
  <2>1. QED
    BY <1>1, <1>5
<1>7. QED
  BY <1>6 DEF Page, Rest

\* An empty page says that nothing is left.
LEMMA EmptyPage == ASSUME Page = {} PROVE Rest = {}
<1> SUFFICES ASSUME Rest # {} PROVE FALSE
  OBVIOUS
<1>1. Rest \in SUBSET Nat
  BY DEF Rest
<1>2. PICK m \in Rest : \A n \in Rest : m <= n
  <2> DEFINE S == Rest
  <2>1. S \in SUBSET Nat /\ S # {}
    BY <1>1
  <2> HIDE DEF S
  <2>2. \E m \in S : \A n \in S : m <= n
    BY <2>1, LeastNatural
  <2>3. QED
    BY <2>2 DEF S
<1>3. {r \in Rest : r <= m} = {m}
  <2>1. \A r \in Rest : r \in Nat
    BY <1>1
  <2>2. \A r \in Rest : r <= m <=> r = m
    BY <1>2, <2>1
  <2>3. QED
    BY <2>2
<1>4. Cardinality({r \in Rest : r <= m}) = 1
  BY <1>3, FS_Singleton
<1>5. m \in Page
  BY <1>4 DEF Page, Rest
<1>6. QED
  BY <1>5

\* Obliged events are committed ones.
LEMMA ObligedCommitted == ASSUME IInv PROVE Obliged \subseteq Committed
  BY DEF IInv, TypeOK, HandlersTrue, Obliged

\* A reindexer step that leaves the alias alone obliges nobody.
LEMMA ObligedSame ==
  ASSUME UNCHANGED <<acked, handler, alias>>
  PROVE  Obliged' = Obliged
  BY DEF Obliged

\* While the alias stays, an event becomes obliged when it is acknowledged on the
\* strength of the index behind the alias: then that index holds it.
LEMMA ObligedGrows ==
  ASSUME IInv, [Next]_vars, UNCHANGED alias
  PROVE  \A e \in Obliged' : e \in Obliged \/ Holds(alias, e)
<1>1. /\ HandlersTrue /\ AppliedTrue
  BY DEF IInv
<1> SUFFICES ASSUME NEW e \in Obliged', e \notin Obliged PROVE Holds(alias, e)
  OBVIOUS
<1>2. e \notin acked
  BY DEF Obliged
<1>3. ASSUME NEW h \in Handlers, handler[h].at \in {"check", "put", "record", "ack"}, handler[h].event = e
      PROVE  handler[h].index = alias
  BY <1>3 DEF Obliged
<1>4. CASE e \in acked'
  <2>1. PICK h \in Handlers : handler[h].at = "ack" /\ handler[h].event = e
    BY <1>2, <1>4, AcksGrow
  <2>2. <<e, alias>> \in applied
    BY <1>1, <1>3, <2>1 DEF HandlersTrue
  <2>3. QED
    BY <1>1, <2>2 DEF AppliedTrue
<1>5. ASSUME NEW h \in Handlers, handler'[h].at \in {"check", "put", "record", "ack"},
             handler'[h].index # alias, handler'[h].event = e
      PROVE  FALSE
  <2> DEFINE d == handler[h]
             n == handler'[h]
  <2>1. HandlerMove(d, n)
    BY HandlersMove
  <2>2. n.at \in {"check", "put", "record", "ack"} /\ n.index # alias /\ n.event = e
    BY <1>5
  <2>3. d.at \in {"check", "put", "record", "ack"} /\ d.index # alias /\ d.event = e
    <3> HIDE DEF d, n
    <3>1. QED
      BY <2>1, <2>2, FreeShape DEF HandlerMove, Keeps
  <2>4. QED
    BY <1>3, <2>3
<1>6. QED
  BY <1>4, <1>5 DEF Obliged

\* When the copy after the switch ends, it has passed every obliged event.
LEMMA AllPassed ==
  ASSUME IInv, Page = {}, NEW e \in Committed
  PROVE  e[1] <= run.after \/ e[1] > run.high
<1>1. e[1] \in Posts /\ e[2] \in 1..MaxRev /\ e[2] <= fact[e[1]].rev
  BY DEF Committed, Changes
<1>2. fact[e[1]].rev \in Int
  BY <1>1, DocumentFields DEF IInv, TypeOK
<1>3. e[1] \notin Rest /\ fact[e[1]].rev > 0
  BY <1>1, <1>2, EmptyPage
<1>4. run.after \in Nat /\ run.high \in Nat /\ e[1] \in Nat
  BY <1>1, RunFields DEF IInv
<1>5. QED
  BY <1>1, <1>3, <1>4 DEF Rest

\* What the index behind the alias holds by the time the copy has passed it.
LEMMA CopyStep == ASSUME IInv, [Next]_vars PROVE CopyCovers'
<1>1. TypeOK /\ RunPlace /\ CopyCovers
  BY DEF IInv
<1>2. /\ run.copy \in 0..2 /\ run.high \in Nat /\ run.after \in Nat
      /\ run.page \in SUBSET [post : Posts, doc : Documents]
  BY <1>1, RunFields
<1> SUFFICES ASSUME run'.at \in {"scan", "bulk"}, run'.copy = 2, NEW e \in Obliged', Passed(e)'
             PROVE  Holds(alias, e)'
  BY DEF CopyCovers
<1>3. ASSUME e \in Obliged, run.at \in {"scan", "bulk"}, run.copy = 2, Passed(e) PROVE Holds(alias, e)
  BY <1>1, <1>3 DEF CopyCovers
<1>4. ASSUME UNCHANGED alias, alias \in Indices, e \in Changes, Holds(alias, e) PROVE Holds(alias, e)'
  <2>1. PICK i \in Indices : i = alias
    BY <1>4
  <2>2. Holds(i, e)'
    BY <1>4, <2>1, HoldsStays
  <2>3. QED
    BY <1>4, <2>1, <2>2 DEF Holds
<1>5. ASSUME e \in Committed
      PROVE  e \in Changes /\ e[1] \in Posts /\ e[1] \in Nat /\ e[2] \in Nat
             /\ e[2] <= fact[e[1]].rev /\ fact[e[1]].rev \in Nat /\ fact[e[1]].rev > 0
             /\ fact[e[1]] \in Documents
  <2>1. e \in Changes /\ e[1] \in Posts /\ e[1] \in Nat /\ e[2] \in 1..MaxRev /\ e[2] <= fact[e[1]].rev
    BY <1>5 DEF Committed, Changes
  <2>2. fact[e[1]] \in Documents /\ fact[e[1]].rev \in 0..MaxRev
    BY <1>1, <2>1, DocumentFields DEF TypeOK
  <2>3. QED
    BY <2>1, <2>2
<1>6. CASE Rests
  <2>1. alias' = alias /\ run' = run
    BY <1>6 DEF Rests, Still
  <2>2. alias \in Indices
    BY <1>1, <2>1, AliasShape DEF TypeOK, RunPlace
  <2>3. Passed(e)
    BY <2>1 DEF Passed
  <2>4. e \in Obliged \/ Holds(alias, e)
    BY <2>1, ObligedGrows
  <2>5. Holds(alias, e)
    BY <1>3, <2>1, <2>3, <2>4
  <2>6. e \in Changes
    <3>1. TypeOK'
      BY TypeStep
    <3>2. HandlersTrue'
      BY HandlersStep
    <3>3. QED
      BY <3>1, <3>2 DEF TypeOK, HandlersTrue, Obliged, Committed
  <2>7. QED
    BY <1>4, <2>1, <2>2, <2>5, <2>6
<1>7. ASSUME Measures \/ Reads \/ Writes
      PROVE  e \in Obliged /\ e \in Committed /\ alias' = alias /\ run.copy = 2 /\ alias = run.index
             /\ alias \in Indices
  <2>1. alias' = alias /\ run.copy = 2 /\ run.at # "idle" /\ run'.at # "idle"
    BY <1>7 DEF Measures, Reads, Writes, Still, RunIs, Bulk
  <2>2. UNCHANGED <<acked, handler>>
    <3>1. CASE UNCHANGED <<acked, handler>>
      BY <3>1
    <3>2. run' # run
      BY <1>7 DEF Measures, Reads, Writes, RunIs, Bulk
    <3>3. QED
      BY <3>1, <3>2, StepKinds, FactFrame, DeliveryFrame, PutFrame, LandFrame, ReindexFrame, BulkFrame DEF vars
  <2>3. e \in Obliged
    BY <2>1, <2>2, ObligedSame
  <2>4. alias = run.index /\ run.index \in Indices
    BY <1>1, <2>1, AliasShape DEF RunPlace, TypeOK
  <2>5. QED
    BY <2>1, <2>3, <2>4, ObligedCommitted
<1>8. CASE Measures
  <2>1. PICK top \in Nat : /\ run'.after = 0 /\ run'.high = top /\ run'.at = "scan"
                           /\ \A p \in Posts : fact[p].rev > 0 => p <= top
    BY <1>8 DEF Measures, RunIs
  <2>2. e[1] \in Posts /\ e[1] \in Nat /\ fact[e[1]].rev > 0
    BY <1>5, <1>7, <1>8
  <2>3. e[1] # 0
    BY <2>2
  <2>4. FALSE
    BY <2>1, <2>2, <2>3 DEF Passed
  <2>5. QED
    BY <2>4
<1>9. CASE Reads
  <2>1. /\ run'.after = run.after /\ run'.high = run.high /\ run'.at = "bulk" /\ run'.page = PageDocs
        /\ run.at = "scan" /\ alias' = alias
    BY <1>9 DEF Reads, Still, RunIs
  <2>2. e[1] <= run.after \/ e[1] > run.high
    <3> SUFFICES ASSUME ~(e[1] <= run.after \/ e[1] > run.high) PROVE FALSE
      OBVIOUS
    <3>1. PICK w \in PageDocs : e[1] <= w.post
      BY <2>1 DEF Passed
    <3>2. w.post \in Page
      BY DEF PageDocs
    <3>3. e[1] \in Rest
      BY <1>2, <1>5, <1>7, <1>9 DEF Rest
    <3>4. e[1] \in Page
      BY <3>1, <3>2, <3>3, PageFirst
    <3> DEFINE v == [post |-> e[1], doc |-> fact[e[1]]]
    <3>5. v \in PageDocs /\ v.post = e[1] /\ v.doc.rev = fact[e[1]].rev
      BY <3>4 DEF PageDocs
    <3>6. \A u \in PageDocs : u.post = e[1] => u.doc.rev < e[2]
      BY <2>1 DEF Passed
    <3> HIDE DEF v
    <3>7. v.doc.rev < e[2]
      BY <3>5, <3>6
    <3>8. QED
      BY <1>5, <1>7, <1>9, <3>5, <3>7
  <2>3. Passed(e)
    BY <2>2 DEF Passed
  <2>4. Holds(alias, e)
    BY <1>3, <1>7, <1>9, <2>1, <2>3
  <2>5. QED
    BY <1>4, <1>5, <1>7, <1>9, <2>1, <2>4
<1>10. CASE Writes
  <2>1. run.at = "bulk" /\ Bulk
    BY <1>10 DEF Writes, Bulk
  <2>2. PICK v \in run.page : run'.after = v.post /\ run'.high = run.high /\ run'.at = "scan"
    BY <1>10 DEF Writes, RunIs
  <2>3. e[1] <= v.post \/ e[1] > run.high
    BY <2>2 DEF Passed
  <2>4. CASE Passed(e)
    <3>1. Holds(alias, e)
      BY <1>3, <1>7, <1>10, <2>1, <2>4
    <3>2. QED
      BY <1>4, <1>5, <1>7, <1>10, <3>1
  <2>5. CASE ~Passed(e)
    <3>1. e[1] <= v.post
      BY <2>3, <2>5 DEF Passed
    <3>2. PICK w \in run.page : w.post = e[1] /\ ~(w.doc.rev < e[2])
      BY <2>1, <2>5, <3>1 DEF Passed
    <3>3. docs'[run.index][w.post].rev >= w.doc.rev
      BY <2>1, BulkMoves
    <3>4. docs'[run.index][e[1]].rev \in Int /\ w.doc.rev \in Int /\ e[2] \in Int
      BY <1>2, <1>5, <1>7, <1>10, DocsMove, DocumentFields
    <3>5. docs'[run.index][e[1]].rev >= e[2]
      BY <3>2, <3>3, <3>4
    <3>6. QED
      BY <1>7, <1>10, <3>5 DEF Holds
  <2>6. QED
    BY <2>4, <2>5
<1>11. CASE Starts \/ Ends \/ Checks \/ Breaks \/ Switches \/ Abandons \/ Drops
  BY <1>11, NoRunShape DEF Starts, Ends, Checks, Breaks, Fails, Switches, Abandons, Drops, RunIs, RunAt
<1>12. QED
  BY <1>6, <1>8, <1>9, <1>10, <1>11, RunMoves

\* Once the copy has ended, the index behind the alias holds what is obliged.
LEMMA AliasStep == ASSUME IInv, [Next]_vars PROVE AliasCovers'
<1>1. TypeOK /\ RunPlace /\ CopyCovers /\ AliasCovers
  BY DEF IInv
<1> SUFFICES ASSUME alias' # 0, ~uncovered', NEW e \in Obliged' PROVE Holds(alias, e)'
  BY DEF AliasCovers
<1>2. e \in Changes
  <2>1. TypeOK' /\ HandlersTrue'
    BY TypeStep, HandlersStep
  <2>2. QED
    BY <2>1 DEF TypeOK, HandlersTrue, Obliged, Committed
<1>3. ASSUME UNCHANGED alias, Holds(alias, e) PROVE Holds(alias, e)'
  <2>1. alias \in Indices
    BY <1>1, <1>3, AliasShape
  <2>2. PICK i \in Indices : i = alias
    BY <2>1
  <2>3. Holds(i, e)'
    BY <1>2, <1>3, <2>2, HoldsStays
  <2>4. QED
    BY <1>3, <2>2, <2>3 DEF Holds
<1>4. ASSUME UNCHANGED alias, ~uncovered PROVE Holds(alias, e)'
  <2>1. e \in Obliged \/ Holds(alias, e)
    BY <1>4, ObligedGrows
  <2>2. Holds(alias, e)
    BY <1>1, <1>4, <2>1 DEF AliasCovers
  <2>3. QED
    BY <1>3, <1>4, <2>2
<1>5. CASE Ends /\ uncovered
  <2>1. run.at = "scan" /\ Page = {} /\ alias' = alias /\ run.copy # 1
    BY <1>5 DEF Ends, Still
  <2>2. run.copy = 2
    BY <1>1, <2>1 DEF RunPlace
  <2>3. e \in Obliged \/ Holds(alias, e)
    BY <2>1, ObligedGrows
  <2>4. ASSUME e \in Obliged PROVE Holds(alias, e)
    <3>1. Passed(e)
      BY <2>1, <2>4, ObligedCommitted, AllPassed DEF Passed
    <3>2. QED
      BY <1>1, <2>1, <2>2, <2>4, <3>1 DEF CopyCovers
  <2>5. QED
    BY <1>3, <2>1, <2>3, <2>4
<1>6. CASE Abandons
  <2>1. alias' = alias /\ uncovered' = uncovered
    BY <1>6 DEF Abandons
  <2>2. QED
    BY <1>4, <2>1
<1>7. CASE Switches
  BY <1>7 DEF Switches
<1>8. CASE Rests \/ Starts \/ Measures \/ Reads \/ Writes \/ Checks \/ Breaks \/ Drops \/ (Ends /\ ~uncovered)
  <2>1. alias' = alias /\ ~uncovered
    BY <1>8 DEF Rests, Starts, Measures, Reads, Ends, Writes, Checks, Breaks, Drops, Still
  <2>2. QED
    BY <1>4, <2>1
<1>9. QED
  BY <1>5, <1>6, <1>7, <1>8, RunMoves

\* Every step preserves the invariant.
LEMMA StepIInv == IInv /\ [Next]_vars => IInv'
<1> SUFFICES ASSUME IInv, [Next]_vars PROVE IInv'
  OBVIOUS
<1>1. TypeOK' /\ DocumentsTruthful' /\ IndicesBuilt' /\ HandlersTrue'
  BY TypeStep, DocumentsStep, IndicesStep, HandlersStep
<1>2. AppliedTrue' /\ RunPlace' /\ CopyCovers' /\ AliasCovers'
  BY AppliedStep, PlaceStep, CopyStep, AliasStep
<1>3. QED
  BY <1>1, <1>2 DEF IInv

-----------------------------------------------------------------------------
(* The theorems                                                             *)

\* The inductive invariant holds in every reachable state.
THEOREM ProjectionInvariant == Spec => []IInv
<1>1. Init => IInv
  BY InitIInv
<1>2. IInv /\ [Next]_vars => IInv'
  BY StepIInv
<1>3. QED
  BY <1>1, <1>2, PTL DEF Spec

\* Facts, documents, events, deliveries and the run have their types, whatever
\* the interleaving.
THEOREM TypeCorrect == Spec => []TypeOK
<1>1. IInv => TypeOK
  BY DEF IInv
<1>2. QED
  BY <1>1, ProjectionInvariant, PTL

\* An application result tells the truth: the index it names holds the event's
\* revision or a newer one, however late, duplicated or reordered writes are.
THEOREM EvidenceIsTrue == Spec => []EvidenceTrue
<1>1. IInv => EvidenceTrue
  BY DEF IInv, AppliedTrue, Holds, EvidenceTrue
<1>2. QED
  BY <1>1, ProjectionInvariant, PTL

\* After a rebuild whose second copy has ended, the index behind the alias holds
\* every fact whose events are acknowledged: no post is lost with the old index.
THEOREM NothingIsLost == Spec => []NoFactLost
<1>1. IInv => NoFactLost
  <2> SUFFICES ASSUME IInv, acked = Committed, ~uncovered, alias # 0, NEW p \in Posts
               PROVE  Served(p)
    BY DEF NoFactLost
  <2>1. TypeOK /\ DocumentsTruthful /\ AliasCovers
    BY DEF IInv
  <2>2. alias \in Indices /\ fact[p] \in Documents /\ docs[alias][p] \in Documents
    BY <2>1, AliasShape DEF TypeOK
  <2>3. Truthful(p, docs[alias][p])
    BY <2>1, <2>2 DEF DocumentsTruthful
  <2>4. fact[p].rev \in 0..MaxRev /\ docs[alias][p].rev \in 0..MaxRev
    BY <2>2, DocumentFields
  <2>5. docs[alias][p].rev >= fact[p].rev
    <3>1. CASE fact[p].rev = 0
      BY <2>4, <3>1
    <3>2. CASE fact[p].rev # 0
      <4> DEFINE e == <<p, fact[p].rev>>
      <4>1. e \in Committed
        BY <2>4, <3>2 DEF Committed, Changes
      <4>2. Holds(alias, e)
        BY <2>1, <4>1 DEF AliasCovers, Obliged
      <4>3. QED
        BY <4>2 DEF Holds
    <3>3. QED
      BY <3>1, <3>2
  <2>6. QED
    BY <2>3, <2>4, <2>5 DEF Truthful, Served
<1>2. QED
  BY <1>1, ProjectionInvariant, PTL

\* The alias disappears under its readers only in the step that deletes the index
\* of a run whose switch was answered by nobody.
THEOREM AliasIsKept == Spec => AliasKept
<1>1. IInv /\ [Next]_vars => [alias # 0 /\ alias' = 0 => run.at = "abandon" /\ run.copy = 1]_vars
  <2> SUFFICES ASSUME IInv, [Next]_vars, alias # 0, alias' = 0
               PROVE  run.at = "abandon" /\ run.copy = 1
    OBVIOUS
  <2>1. CASE Switches
    <3>1. run.index \in live
      BY <2>1 DEF Switches, IInv, TypeOK
    <3>2. QED
      BY <2>1, <3>1, AliasShape DEF Switches, IInv, Indices
  <2>2. CASE Abandons
    BY <2>2 DEF Abandons, IInv, RunPlace
  <2>3. CASE UNCHANGED alias
    BY <2>3
  <2>4. QED
    BY <2>1, <2>2, <2>3, RunMoves
       DEF Rests, Starts, Measures, Reads, Ends, Writes, Checks, Breaks, Drops, Still
<1>2. QED
  BY <1>1, ProjectionInvariant, PTL DEF Spec, AliasKept
=============================================================================
