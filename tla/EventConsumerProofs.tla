------------------------- MODULE EventConsumerProofs -------------------------
(***************************************************************************)
(* Proofs about EventConsumer for any events, posts, workers, prefetch and *)
(* settings: an event is never lost, extra copies of it need failures, and *)
(* a dead letter has earned it.                                            *)
(***************************************************************************)
EXTENDS EventConsumer, CountingFacts, SequenceTheorems, TLAPS

Working == {"process", "retry", "dead"}

\* A delivery that is not queued any more is the first of its post.
FirstOfPost ==
  \A w \in Workers : \A j \in 1..Len(held[w]) : held[w][j].at # "queued" =>
    \A i \in 1..(j - 1) : PostOf[held[w][i].copy.msg] # PostOf[held[w][j].copy.msg]

\* What makes a dead letter.
Deserved(c) ==
  \/ c.msg \in Poison
  \/ c.msg \in Deferred /\ c.attempt > MinLimit
  \/ c.msg \notin Deferred /\ c.attempt >= MinLimit

\* Why a delivery is where it is.
StagesTrue ==
  \A w \in Workers : \A i \in 1..Len(held[w]) :
    /\ held[w][i].at = "process" => held[w][i].copy.msg \notin Foreign
    /\ held[w][i].at = "dead" => Deserved(held[w][i].copy)

\* The processes whose end may yet put m back besides its second message.
Busy(w, m) == \E i \in 1..Len(held[w]) : held[w][i].copy.msg = m /\ held[w][i].at \in Working
Risks(m) == {w \in Workers : session[w] = "closing" /\ Busy(w, m)}

\* Every copy beyond the first, there already or yet to come, has its failure.
FaultsPayForCopies == \A m \in Messages : CopiesOf(m) + Cardinality(Risks(m)) <= 1 + faults

QueuesFinite ==
  \A m \in Messages : /\ IsFiniteSet(InPlaces(main, m)) /\ IsFiniteSet(InPlaces(delayed, m))
                      /\ IsFiniteSet(InPlaces(dead, m))

IInv == /\ TypeOK /\ QueuesFinite /\ FirstOfPost /\ StagesTrue
        /\ NothingLost /\ FaultsPayForCopies /\ DeadDeserved

USE ConsumerAssumption

-----------------------------------------------------------------------------
(* Queues                                                                   *)

\* The settings have a largest and a smallest value.
LEMMA LimitBounds ==
  /\ MaxLimit \in Nat /\ MinLimit \in Nat
  /\ \A k \in Limits : k \in Nat /\ MinLimit <= k /\ k <= MaxLimit
<1>1. Limits \in SUBSET Nat /\ Limits # {} /\ IsFiniteSet(Limits)
  OBVIOUS
<1>2. \E n \in Limits : \A k \in Limits : n >= k
  BY <1>1, FiniteMaximum
<1>3. \E n \in Limits : \A k \in Limits : k <= n
  BY <1>1, <1>2
<1>4. \E n \in Limits : \A k \in Limits : n <= k
  BY <1>1, LeastNatural
<1>5. MaxLimit \in Limits /\ \A k \in Limits : k <= MaxLimit
  BY <1>3 DEF MaxLimit
<1>6. MinLimit \in Limits /\ \A k \in Limits : MinLimit <= k
  BY <1>4 DEF MinLimit
<1>7. QED
  BY <1>1, <1>5, <1>6

\* The places of a queue, one by one.
LEMMA PlaceIn ==
  ASSUME NEW q, NEW m \in Messages
  PROVE  \A p : p \in InPlaces(q, m) <=>
                  \E c \in Copies : c.msg = m /\ \E k \in 1..q[c] : p = <<c, k>>
<1>1. [msg : {m}, attempt : 0..MaxLimit] = {c \in Copies : c.msg = m}
  BY DEF Copies
<1> DEFINE S == {c \in Copies : c.msg = m}
<1> SUFFICES ASSUME NEW p
             PROVE  p \in InPlaces(q, m) <=> \E c \in S : \E k \in 1..q[c] : p = <<c, k>>
  OBVIOUS
<1>2. p \in InPlaces(q, m) <=> \E c \in S : p \in {c} \X (1..q[c])
  BY <1>1 DEF InPlaces
<1> HIDE DEF S
<1>3. \A c : p \in {c} \X (1..q[c]) <=> \E k \in 1..q[c] : p = <<c, k>>
  OBVIOUS
<1>4. QED
  BY <1>2, <1>3

\* How many of the copies of m a copy is.
Of(c, m) == IF c.msg = m THEN 1 ELSE 0

Count(q, m) == Cardinality(InPlaces(q, m))

\* A queue with one more copy.
LEMMA MoreCount ==
  ASSUME NEW q \in Queues, NEW c \in Copies, NEW m \in Messages, IsFiniteSet(InPlaces(q, m))
  PROVE  /\ More(q, c) \in Queues /\ IsFiniteSet(InPlaces(More(q, c), m))
         /\ Count(More(q, c), m) = Count(q, m) + Of(c, m) /\ Count(q, m) \in Nat
         /\ \A x \in Copies : More(q, c)[x] = q[x] + (IF x = c THEN 1 ELSE 0)
<1> DEFINE r == More(q, c)
           p == <<c, q[c] + 1>>
<1>1. r \in Queues /\ \A x \in Copies : r[x] = IF x = c THEN q[x] + 1 ELSE q[x]
  BY DEF More, Queues
<1>2. \A x \in Copies : q[x] \in Nat
  BY DEF Queues
<1> HIDE DEF r
<1>3. c.msg = m => InPlaces(r, m) = InPlaces(q, m) \union {p} /\ p \notin InPlaces(q, m)
  <2> SUFFICES ASSUME c.msg = m
               PROVE  InPlaces(r, m) = InPlaces(q, m) \union {p} /\ p \notin InPlaces(q, m)
    OBVIOUS
  <2>1. p \notin InPlaces(q, m)
    BY <1>2, PlaceIn
  <2>2. ASSUME NEW x \in InPlaces(r, m) PROVE x \in InPlaces(q, m) \union {p}
    <3>1. PICK d \in Copies : d.msg = m /\ \E k \in 1..r[d] : x = <<d, k>>
      BY PlaceIn
    <3>1a. PICK k \in 1..r[d] : x = <<d, k>>
      BY <3>1
    <3>2. k \in 1..q[d] \/ (d = c /\ k = q[c] + 1)
      BY <1>1, <1>2
    <3>3. QED
      BY <3>1, <3>1a, <3>2, PlaceIn
  <2>3. ASSUME NEW x \in InPlaces(q, m) PROVE x \in InPlaces(r, m)
    <3>1. PICK d \in Copies : d.msg = m /\ \E k \in 1..q[d] : x = <<d, k>>
      BY PlaceIn
    <3>1a. PICK k \in 1..q[d] : x = <<d, k>>
      BY <3>1
    <3>2. k \in 1..r[d]
      BY <1>1, <1>2
    <3>3. QED
      BY <3>1, <3>1a, <3>2, PlaceIn
  <2>4. p \in InPlaces(r, m)
    <3>1. q[c] + 1 \in 1..r[c]
      BY <1>1, <1>2
    <3>2. QED
      BY <3>1, PlaceIn
  <2>5. QED
    BY <2>1, <2>2, <2>3, <2>4
<1>4. c.msg # m => InPlaces(r, m) = InPlaces(q, m)
  <2> SUFFICES ASSUME c.msg # m, NEW x PROVE x \in InPlaces(r, m) <=> x \in InPlaces(q, m)
    OBVIOUS
  <2>1. \A d \in Copies : d.msg = m => r[d] = q[d]
    BY <1>1
  <2>2. QED
    BY <2>1, PlaceIn
<1>5. /\ IsFiniteSet(InPlaces(r, m)) /\ Count(q, m) \in Nat
      /\ Count(r, m) = Count(q, m) + Of(c, m)
  <2>1. Count(q, m) \in Nat
    BY FS_CardinalityType DEF Count
  <2>2. CASE c.msg = m
    BY <1>3, <2>1, <2>2, FS_AddElement DEF Count, Of
  <2>3. CASE c.msg # m
    BY <1>4, <2>1, <2>3 DEF Count, Of
  <2>4. QED
    BY <2>1, <2>2, <2>3
<1>6. QED
  BY <1>1, <1>2, <1>5 DEF r

\* A queue with one copy less.
LEMMA LessCount ==
  ASSUME NEW q \in Queues, NEW c \in Copies, NEW m \in Messages, IsFiniteSet(InPlaces(q, m)),
         q[c] > 0
  PROVE  /\ Less(q, c) \in Queues /\ IsFiniteSet(InPlaces(Less(q, c), m))
         /\ Count(q, m) = Count(Less(q, c), m) + Of(c, m) /\ Count(Less(q, c), m) \in Nat
<1> DEFINE r == Less(q, c)
<1>1. r \in Queues /\ \A x \in Copies : r[x] = IF x = c THEN q[x] - 1 ELSE q[x]
  BY DEF Less, Queues
<1>2. \A x \in Copies : q[x] \in Nat
  BY DEF Queues
<1> HIDE DEF r
<1>3. InPlaces(r, m) \subseteq InPlaces(q, m)
  <2> SUFFICES ASSUME NEW x \in InPlaces(r, m) PROVE x \in InPlaces(q, m)
    OBVIOUS
  <2>1. PICK d \in Copies : d.msg = m /\ \E k \in 1..r[d] : x = <<d, k>>
    BY PlaceIn
  <2>1a. PICK k \in 1..r[d] : x = <<d, k>>
    BY <2>1
  <2>2. k \in 1..q[d]
    BY <1>1, <1>2
  <2>3. QED
    BY <2>1, <2>1a, <2>2, PlaceIn
<1>4. IsFiniteSet(InPlaces(r, m))
  BY <1>3, FS_Subset
<1>5. Count(More(r, c), m) = Count(r, m) + Of(c, m) /\ Count(r, m) \in Nat
      /\ \A x \in Copies : More(r, c)[x] = r[x] + (IF x = c THEN 1 ELSE 0)
      /\ More(r, c) \in Queues
  BY <1>1, <1>4, MoreCount
<1>6. \A x \in Copies : More(r, c)[x] = q[x]
  BY <1>1, <1>2, <1>5
<1>7. More(r, c) = q
  BY <1>5, <1>6 DEF Queues
<1>8. QED
  BY <1>1, <1>4, <1>5, <1>7 DEF r

-----------------------------------------------------------------------------
(* Deliveries                                                               *)

Stages == {"queued", "process", "retry", "dead", "ack"}

\* A message and its copies.
LEMMA CopyFields ==
  /\ \A c \in Copies : c.msg \in Messages /\ c.attempt \in 0..MaxLimit
  /\ \A m \in Messages : First(m) \in Copies /\ First(m).msg = m /\ First(m).attempt = 0
  /\ \A s \in Slots : s.copy \in Copies /\ s.at \in Stages
  /\ \A c \in Copies, at \in Stages : [copy |-> c, at |-> at] \in Slots
<1>1. 0 \in 0..MaxLimit
  BY LimitBounds
<1>2. QED
  BY <1>1 DEF Copies, First, Slots, Stages

\* What a process holds.
LEMMA HeldFields ==
  ASSUME TypeOK, NEW w \in Workers
  PROVE  /\ held[w] \in Seq(Slots) /\ Len(held[w]) \in Nat /\ DOMAIN held[w] = 1..Len(held[w])
         /\ Len(held[w]) <= Prefetch
         /\ \A i \in 1..Len(held[w]) : /\ held[w][i] \in Slots /\ held[w][i].copy \in Copies
                                       /\ held[w][i].copy.msg \in Messages
                                       /\ held[w][i].at \in Stages
<1>1. held[w] \in Seq(Slots) /\ Len(held[w]) <= Prefetch
  BY DEF TypeOK
<1>2. Len(held[w]) \in Nat /\ DOMAIN held[w] = 1..Len(held[w])
  BY <1>1, LenProperties
<1>3. \A i \in 1..Len(held[w]) : held[w][i] \in Slots
  BY <1>1, ElementOfSeq
<1>4. QED
  BY <1>1, <1>2, <1>3, CopyFields

\* Nothing changes for the other processes.
Others(w) == \A x \in Workers : x # w => held'[x] = held[x]

\* A delivery in another stage.
LEMMA ToShape ==
  ASSUME TypeOK, NEW w \in Workers, NEW i \in 1..Len(held[w]), NEW stage \in Stages,
         To(w, i, stage)
  PROVE  /\ held' \in [Workers -> Seq(Slots)] /\ Others(w) /\ Len(held'[w]) = Len(held[w])
         /\ held'[w][i].copy = held[w][i].copy /\ held'[w][i].at = stage
         /\ \A j \in 1..Len(held[w]) : j # i => held'[w][j] = held[w][j]
         /\ \A j \in 1..Len(held[w]) : held'[w][j].copy = held[w][j].copy
<1> DEFINE old == held[w]
           n == [old[i] EXCEPT !.at = stage]
           new == [old EXCEPT ![i] = n]
<1>1. old \in Seq(Slots) /\ old[i] \in Slots /\ held \in [Workers -> Seq(Slots)]
  BY HeldFields DEF TypeOK
<1>2. n \in Slots /\ n.copy = old[i].copy /\ n.at = stage
  BY <1>1 DEF Slots, Stages
<1>3. held' = [held EXCEPT ![w] = new]
  BY DEF To
<1> HIDE DEF n
<1>4. /\ new \in Seq(Slots) /\ Len(new) = Len(old)
      /\ \A j \in 1..Len(old) : new[j] = IF j = i THEN n ELSE old[j]
  <2> HIDE DEF old
  <2>1. i \in 1..Len(old)
    BY DEF old
  <2>2. QED
    BY <1>1, <1>2, <2>1, ExceptSeq
<1> HIDE DEF new
<1>5. held' \in [Workers -> Seq(Slots)] /\ held'[w] = new /\ Others(w)
  BY <1>1, <1>3, <1>4 DEF Others
<1>6. QED
  BY <1>2, <1>4, <1>5

\* A delivery less: those after it move up.
LEMMA DropShape ==
  ASSUME TypeOK, NEW w \in Workers, NEW i \in 1..Len(held[w]), Drop(w, i)
  PROVE  /\ held' \in [Workers -> Seq(Slots)] /\ Others(w) /\ Len(held'[w]) = Len(held[w]) - 1
         /\ \A j \in 1..Len(held'[w]) : held'[w][j] = held[w][IF j < i THEN j ELSE j + 1]
<1> DEFINE s == held[w]
           a == SubSeq(s, 1, i - 1)
           b == SubSeq(s, i + 1, Len(s))
           new == a \o b
<1>1. s \in Seq(Slots) /\ Len(s) \in Nat /\ held \in [Workers -> Seq(Slots)] /\ i \in 1..Len(s)
      /\ \A j \in 1..Len(s) : s[j] \in Slots
  BY HeldFields DEF TypeOK
<1>2. held' = [held EXCEPT ![w] = new]
  BY DEF Drop, RemoveAt
<1>3. /\ a \in Seq(Slots) /\ Len(a) = i - 1 /\ \A j \in 1..(i - 1) : a[j] = s[j]
      /\ b \in Seq(Slots) /\ Len(b) = Len(s) - i
      /\ \A j \in 1..(Len(s) - i) : b[j] = s[j + i]
  <2> HIDE DEF s
  <2>1. \A j \in 1..(i - 1) : s[j] \in Slots
    BY <1>1
  <2>2. \A j \in (i + 1)..Len(s) : s[j] \in Slots
    BY <1>1
  <2>3. /\ a \in Seq(Slots) /\ Len(a) = (IF 1 <= i - 1 THEN (i - 1) - 1 + 1 ELSE 0)
        /\ \A j \in 1..((i - 1) - 1 + 1) : a[j] = s[1 + j - 1]
    BY <1>1, <2>1, SubSeqProperties
  <2>4. /\ b \in Seq(Slots) /\ Len(b) = (IF i + 1 <= Len(s) THEN Len(s) - (i + 1) + 1 ELSE 0)
        /\ \A j \in 1..(Len(s) - (i + 1) + 1) : b[j] = s[i + 1 + j - 1]
    BY <1>1, <2>2, SubSeqProperties
  <2> HIDE DEF a, b
  <2>5. Len(a) = i - 1 /\ Len(b) = Len(s) - i
    BY <1>1, <2>3, <2>4
  <2>6. ASSUME NEW j \in 1..(i - 1) PROVE a[j] = s[j]
    <3>1. j \in 1..((i - 1) - 1 + 1) /\ 1 + j - 1 = j
      BY <1>1
    <3>2. QED
      BY <2>3, <3>1
  <2>7. ASSUME NEW j \in 1..(Len(s) - i) PROVE b[j] = s[j + i]
    <3>1. j \in 1..(Len(s) - (i + 1) + 1) /\ i + 1 + j - 1 = j + i
      BY <1>1
    <3>2. QED
      BY <2>4, <3>1
  <2>8. QED
    BY <2>3, <2>4, <2>5, <2>6, <2>7
<1> HIDE DEF a, b
<1>4. /\ new \in Seq(Slots) /\ Len(new) = Len(s) - 1
      /\ \A j \in 1..(Len(s) - 1) : new[j] = IF j <= i - 1 THEN a[j] ELSE b[j - (i - 1)]
  <2> HIDE DEF s
  <2>1. /\ new \in Seq(Slots) /\ Len(new) = Len(a) + Len(b)
        /\ \A j \in 1..(Len(a) + Len(b)) : new[j] = IF j <= Len(a) THEN a[j] ELSE b[j - Len(a)]
    BY <1>3, ConcatProperties
  <2>2. QED
    BY <1>1, <1>3, <2>1
<1> HIDE DEF new
<1>5. held' \in [Workers -> Seq(Slots)] /\ held'[w] = new /\ Others(w)
  BY <1>1, <1>2, <1>4 DEF Others
<1>6. \A j \in 1..(Len(s) - 1) : new[j] = s[IF j < i THEN j ELSE j + 1]
  <2> HIDE DEF s
  <2>1. \A j \in 1..(Len(s) - 1) : j < i => new[j] = s[j]
    BY <1>1, <1>3, <1>4
  <2>2. ASSUME NEW j \in 1..(Len(s) - 1), ~(j < i) PROVE new[j] = s[j + 1]
    <3>1. new[j] = b[j - (i - 1)] /\ j - (i - 1) \in 1..(Len(s) - i)
      BY <1>1, <1>4, <2>2
    <3>2. b[j - (i - 1)] = s[(j - (i - 1)) + i]
      BY <1>3, <3>1
    <3>3. QED
      BY <1>1, <3>1, <3>2
  <2>3. QED
    BY <2>1, <2>2
<1>7. QED
  BY <1>4, <1>5, <1>6

\* A delivery more.
LEMMA AppendShape ==
  ASSUME TypeOK, NEW w \in Workers, NEW c \in Copies,
         held' = [held EXCEPT ![w] = Append(@, [copy |-> c, at |-> "queued"])]
  PROVE  /\ held' \in [Workers -> Seq(Slots)] /\ Others(w) /\ Len(held'[w]) = Len(held[w]) + 1
         /\ \A j \in 1..Len(held[w]) : held'[w][j] = held[w][j]
         /\ held'[w][Len(held[w]) + 1].copy = c /\ held'[w][Len(held[w]) + 1].at = "queued"
<1> DEFINE s == held[w]
           n == [copy |-> c, at |-> "queued"]
           new == Append(s, n)
<1>1. s \in Seq(Slots) /\ held \in [Workers -> Seq(Slots)] /\ n \in Slots
  BY HeldFields, CopyFields DEF TypeOK, Stages
<1>2. held' = [held EXCEPT ![w] = new]
  OBVIOUS
<1>3. n.copy = c /\ n.at = "queued"
  OBVIOUS
<1> HIDE DEF n
<1>4. /\ new \in Seq(Slots) /\ Len(new) = Len(s) + 1
      /\ \A j \in 1..Len(s) : new[j] = s[j]
      /\ new[Len(s) + 1] = n
  <2> HIDE DEF s
  <2>1. QED
    BY <1>1, AppendProperties
<1> HIDE DEF new
<1>5. held' \in [Workers -> Seq(Slots)] /\ held'[w] = new /\ Others(w)
  BY <1>1, <1>2, <1>4 DEF Others
<1>6. QED
  BY <1>3, <1>4, <1>5

-----------------------------------------------------------------------------
(* Counting the deliveries of an event                                      *)

HeldCount(h, m) == Cardinality(HeldPlaces(h, m))

\* What the processes may hold.
Deliveries == {h \in [Workers -> Seq(Slots)] : \A w \in Workers : Len(h[w]) <= Prefetch}

\* The held places of an event, one by one; there are finitely many.
LEMMA HeldPlace ==
  ASSUME NEW h \in Deliveries, NEW m
  PROVE  /\ \A w \in Workers : \A i \in Nat :
              <<w, i>> \in HeldPlaces(h, m) <=>
                i \in 1..Len(h[w]) /\ h[w][i].copy.msg = m /\ h[w][i].at # "ack"
         /\ \A p \in HeldPlaces(h, m) :
              \E w \in Workers : \E i \in 1..Len(h[w]) : p = <<w, i>>
         /\ IsFiniteSet(HeldPlaces(h, m)) /\ HeldCount(h, m) \in Nat
<1>1. HeldPlaces(h, m) \subseteq Workers \X (1..Prefetch)
  BY DEF HeldPlaces
<1>2. IsFiniteSet(Workers \X (1..Prefetch))
  <2>1. IsFiniteSet(1..Prefetch)
    BY FS_Interval
  <2>2. QED
    BY <2>1, FS_Product
<1>3. IsFiniteSet(HeldPlaces(h, m)) /\ HeldCount(h, m) \in Nat
  BY <1>1, <1>2, FS_Subset, FS_CardinalityType DEF HeldCount
<1>4. ASSUME NEW w \in Workers, NEW i \in Nat
      PROVE  <<w, i>> \in HeldPlaces(h, m) <=>
                i \in 1..Len(h[w]) /\ h[w][i].copy.msg = m /\ h[w][i].at # "ack"
  <2>0. h[w] \in Seq(Slots) /\ Len(h[w]) <= Prefetch
    BY DEF Deliveries
  <2>1. Len(h[w]) \in Nat
    BY <2>0, LenProperties
  <2>2. i \in 1..Len(h[w]) <=> i \in 1..Prefetch /\ i <= Len(h[w])
    BY <2>0, <2>1
  <2>3. <<w, i>> \in Workers \X (1..Prefetch) <=> i \in 1..Prefetch
    OBVIOUS
  <2>4. <<w, i>>[1] = w /\ <<w, i>>[2] = i
    OBVIOUS
  <2>5. QED
    BY <2>2, <2>3, <2>4, Zenon DEF HeldPlaces
<1>5. ASSUME NEW p \in HeldPlaces(h, m)
      PROVE  \E w \in Workers : \E i \in 1..Len(h[w]) : p = <<w, i>>
  <2>1. PICK w \in Workers, i \in 1..Prefetch : p = <<w, i>>
    BY <1>1
  <2>2. i \in 1..Len(h[w])
    BY <1>4, <2>1
  <2>3. QED
    BY <2>1, <2>2
<1>6. QED
  BY <1>3, <1>4, <1>5

\* Deliveries that differ in one place.
LEMMA OnePlace ==
  ASSUME NEW h \in Deliveries, NEW g \in Deliveries, NEW m, NEW w \in Workers, NEW i \in Nat,
         \A x \in Workers : \A j \in Nat : x # w \/ j # i =>
           (<<x, j>> \in HeldPlaces(h, m) <=> <<x, j>> \in HeldPlaces(g, m))
  PROVE  /\ HeldCount(h, m) \in Nat /\ HeldCount(g, m) \in Nat
         /\ HeldCount(h, m) + (IF <<w, i>> \in HeldPlaces(g, m) THEN 1 ELSE 0)
              = HeldCount(g, m) + (IF <<w, i>> \in HeldPlaces(h, m) THEN 1 ELSE 0)
<1> DEFINE p == <<w, i>>
           S == HeldPlaces(h, m)
           T == HeldPlaces(g, m)
<1>1. \A q \in S \union T : \E x \in Workers : \E j \in Nat : q = <<x, j>>
  BY HeldPlace
<1>2. S \ {p} = T \ {p}
  BY <1>1
<1>3. IsFiniteSet(S) /\ IsFiniteSet(T)
  BY HeldPlace
<1> HIDE DEF S, T, p
<1>4. /\ Cardinality(S) \in Nat /\ Cardinality(T) \in Nat
      /\ Cardinality(S) + (IF p \in T THEN 1 ELSE 0) = Cardinality(T) + (IF p \in S THEN 1 ELSE 0)
  BY <1>2, <1>3, DifferInOne
<1>5. QED
  BY <1>4 DEF S, T, p, HeldCount

\* A delivery about to be acknowledged no longer counts.
LEMMA HeldTo ==
  ASSUME TypeOK, NEW w \in Workers, NEW i \in 1..Len(held[w]), NEW stage \in Stages,
         To(w, i, stage), held[w][i].at # "ack", NEW m
  PROVE  /\ held' \in Deliveries
         /\ HeldCount(held, m) \in Nat /\ HeldCount(held', m) \in Nat
         /\ HeldCount(held, m) =
              HeldCount(held', m) + (IF stage = "ack" THEN Of(held[w][i].copy, m) ELSE 0)
<1> DEFINE old == held
           new == held'
           p == <<w, i>>
<1>1. /\ new \in [Workers -> Seq(Slots)]
      /\ Others(w) /\ Len(held'[w]) = Len(held[w])
      /\ held'[w][i].copy = held[w][i].copy /\ held'[w][i].at = stage
      /\ \A j \in 1..Len(held[w]) : j # i => held'[w][j] = held[w][j]
  BY ToShape
<1>2. old \in Deliveries /\ new \in Deliveries
  BY <1>1 DEF TypeOK, Deliveries, Others
<1>3. i \in Nat
  BY HeldFields
<1>4. p \in HeldPlaces(old, m) <=> old[w][i].copy.msg = m
  BY <1>2, <1>3, HeldPlace
<1>5. p \in HeldPlaces(new, m) <=> old[w][i].copy.msg = m /\ stage # "ack"
  BY <1>1, <1>2, <1>3, HeldPlace
<1>6. \A x \in Workers : \A j \in Nat : <<x, j>> # p =>
        (<<x, j>> \in HeldPlaces(old, m) <=> <<x, j>> \in HeldPlaces(new, m))
  <2> SUFFICES ASSUME NEW x \in Workers, NEW j \in Nat, <<x, j>> # p
               PROVE  <<x, j>> \in HeldPlaces(old, m) <=> <<x, j>> \in HeldPlaces(new, m)
    OBVIOUS
  <2>1. x # w \/ j # i
    OBVIOUS
  <2>2. Len(old[x]) = Len(new[x]) /\ (j \in 1..Len(old[x]) => old[x][j] = new[x][j])
    BY <1>1, <2>1 DEF Others
  <2>3. <<x, j>> \in HeldPlaces(old, m) <=>
          j \in 1..Len(old[x]) /\ old[x][j].copy.msg = m /\ old[x][j].at # "ack"
    BY <1>2, HeldPlace
  <2>4. <<x, j>> \in HeldPlaces(new, m) <=>
          j \in 1..Len(new[x]) /\ new[x][j].copy.msg = m /\ new[x][j].at # "ack"
    BY <1>2, HeldPlace
  <2> HIDE DEF old, new
  <2>5. QED
    BY <2>2, <2>3, <2>4, Zenon
<1> HIDE DEF old, new
<1>7. /\ HeldCount(old, m) \in Nat /\ HeldCount(new, m) \in Nat
      /\ HeldCount(old, m) + (IF p \in HeldPlaces(new, m) THEN 1 ELSE 0)
           = HeldCount(new, m) + (IF p \in HeldPlaces(old, m) THEN 1 ELSE 0)
  BY <1>2, <1>3, <1>6, OnePlace
<1>8. Of(old[w][i].copy, m) = IF p \in HeldPlaces(old, m) THEN 1 ELSE 0
  BY <1>4, Zenon DEF Of
<1>9. CASE stage = "ack"
  BY <1>5, <1>7, <1>8, <1>9, <1>2 DEF old, new
<1>10. CASE stage # "ack"
  BY <1>4, <1>5, <1>7, <1>8, <1>10, <1>2 DEF old, new
<1>11. QED
  BY <1>9, <1>10

\* A delivery that has come.
LEMMA HeldAppend ==
  ASSUME TypeOK, NEW w \in Workers, NEW c \in Copies, Len(held[w]) < Prefetch,
         held' = [held EXCEPT ![w] = Append(@, [copy |-> c, at |-> "queued"])], NEW m
  PROVE  /\ held' \in Deliveries
         /\ HeldCount(held, m) \in Nat /\ HeldCount(held', m) \in Nat
         /\ HeldCount(held', m) = HeldCount(held, m) + Of(c, m)
<1> DEFINE old == held
           new == held'
           i == Len(held[w]) + 1
           p == <<w, i>>
<1>1. /\ new \in [Workers -> Seq(Slots)]
      /\ Others(w) /\ Len(held'[w]) = i
      /\ held'[w][i].copy = c /\ held'[w][i].at = "queued"
      /\ \A j \in 1..Len(held[w]) : held'[w][j] = held[w][j]
  BY AppendShape
<1>2. Len(held[w]) \in Nat /\ i \in Nat /\ i \in 1..i /\ i \notin 1..Len(held[w]) /\ i <= Prefetch
  BY HeldFields
<1>3. old \in Deliveries /\ new \in Deliveries
  BY <1>1, <1>2 DEF TypeOK, Deliveries, Others
<1>4. p \notin HeldPlaces(old, m)
  BY <1>2, <1>3, HeldPlace
<1>5. p \in HeldPlaces(new, m) <=> c.msg = m
  <2> HIDE DEF new, i
  <2>1. p \in HeldPlaces(new, m) <=>
          i \in 1..Len(new[w]) /\ new[w][i].copy.msg = m /\ new[w][i].at # "ack"
    BY <1>2, <1>3, HeldPlace
  <2>2. QED
    BY <1>1, <1>2, <2>1 DEF new, i
<1>6. \A x \in Workers : \A j \in Nat : x # w \/ j # i =>
        (<<x, j>> \in HeldPlaces(old, m) <=> <<x, j>> \in HeldPlaces(new, m))
  <2> SUFFICES ASSUME NEW x \in Workers, NEW j \in Nat, x # w \/ j # i
               PROVE  <<x, j>> \in HeldPlaces(old, m) <=> <<x, j>> \in HeldPlaces(new, m)
    OBVIOUS
  <2>1. /\ j \in 1..Len(old[x]) <=> j \in 1..Len(new[x])
        /\ j \in 1..Len(old[x]) => old[x][j] = new[x][j]
    BY <1>1, <1>2 DEF Others
  <2> HIDE DEF old, new, i
  <2>2. <<x, j>> \in HeldPlaces(old, m) <=>
          j \in 1..Len(old[x]) /\ old[x][j].copy.msg = m /\ old[x][j].at # "ack"
    BY <1>3, HeldPlace
  <2>3. <<x, j>> \in HeldPlaces(new, m) <=>
          j \in 1..Len(new[x]) /\ new[x][j].copy.msg = m /\ new[x][j].at # "ack"
    BY <1>3, HeldPlace
  <2>4. QED
    BY <2>1, <2>2, <2>3, Zenon
<1> HIDE DEF old, new, i
<1>7. /\ HeldCount(old, m) \in Nat /\ HeldCount(new, m) \in Nat
      /\ HeldCount(old, m) + (IF p \in HeldPlaces(new, m) THEN 1 ELSE 0)
           = HeldCount(new, m) + (IF p \in HeldPlaces(old, m) THEN 1 ELSE 0)
  BY <1>2, <1>3, <1>6, OnePlace
<1>8. QED
  BY <1>3, <1>4, <1>5, <1>7 DEF old, new, Of

\* A delivery that is gone, acknowledged or put back.
LEMMA HeldDrop ==
  ASSUME TypeOK, NEW w \in Workers, NEW i \in 1..Len(held[w]), Drop(w, i), NEW m
  PROVE  /\ held' \in Deliveries
         /\ HeldCount(held, m) \in Nat /\ HeldCount(held', m) \in Nat
         /\ HeldCount(held, m) =
              HeldCount(held', m) + (IF held[w][i].at # "ack" THEN Of(held[w][i].copy, m) ELSE 0)
<1> DEFINE old == held
           new == held'
           n == Len(held[w])
           p == <<w, i>>
<1>1. /\ new \in [Workers -> Seq(Slots)] /\ Others(w) /\ Len(new[w]) = n - 1
      /\ \A j \in 1..Len(new[w]) : new[w][j] = old[w][IF j < i THEN j ELSE j + 1]
  BY DropShape
<1>2. n \in Nat /\ i \in Nat /\ i \in 1..n /\ n <= Prefetch
  BY HeldFields
<1>3. old \in Deliveries /\ new \in Deliveries
  <2>1. old \in Deliveries
    BY DEF TypeOK, Deliveries
  <2>2. ASSUME NEW x \in Workers PROVE Len(new[x]) <= Prefetch
    <3>1. CASE x = w
      BY <1>1, <1>2, <3>1
    <3>2. CASE x # w
      BY <1>1, <2>1, <3>2 DEF Others, Deliveries
    <3>3. QED
      BY <3>1, <3>2
  <2>3. QED
    BY <1>1, <2>1, <2>2 DEF Deliveries
<1> DEFINE Up(j) == IF j < i THEN j ELSE j + 1
           Old(x, j) == /\ j \in 1..Len(old[x])
                        /\ old[x][j].copy.msg = m /\ old[x][j].at # "ack"
           New(x, j) == /\ j \in 1..Len(new[x])
                        /\ new[x][j].copy.msg = m /\ new[x][j].at # "ack"
           S == HeldPlaces(old, m)
           T == HeldPlaces(new, m)
<1>4. \A x \in Workers : \A j \in Nat : <<x, j>> \in S <=> Old(x, j)
  <2> SUFFICES ASSUME NEW x \in Workers, NEW j \in Nat
               PROVE  <<x, j>> \in S <=> Old(x, j)
    OBVIOUS
  <2> HIDE DEF old
  <2>1. QED
    BY <1>3, HeldPlace
<1>5. \A x \in Workers : \A j \in Nat : <<x, j>> \in T <=> New(x, j)
  <2> SUFFICES ASSUME NEW x \in Workers, NEW j \in Nat
               PROVE  <<x, j>> \in T <=> New(x, j)
    OBVIOUS
  <2> HIDE DEF new
  <2>1. QED
    BY <1>3, HeldPlace
<1>6. \A x \in Workers : x # w => \A j \in Nat : New(x, j) <=> Old(x, j)
  BY <1>1 DEF Others
<1>7. \A j \in Nat : New(w, j) <=> Old(w, Up(j)) /\ j \in 1..(n - 1)
  <2> SUFFICES ASSUME NEW j \in 1..(n - 1)
               PROVE  New(w, j) <=> Old(w, Up(j))
    BY <1>1
  <2>1. Up(j) \in 1..n /\ new[w][j] = old[w][Up(j)]
    BY <1>1, <1>2
  <2>2. QED
    BY <1>1, <2>1
<1>8. IsFiniteSet(S) /\ IsFiniteSet(T)
      /\ (\A q \in S : \E x \in Workers : \E j \in Nat : q = <<x, j>>)
      /\ (\A q \in T : \E x \in Workers : \E j \in Nat : q = <<x, j>>)
  <2>1. IsFiniteSet(S) /\ \A q \in S : \E x \in Workers : \E j \in 1..Len(old[x]) : q = <<x, j>>
    BY <1>3, HeldPlace
  <2>2. IsFiniteSet(T) /\ \A q \in T : \E x \in Workers : \E j \in 1..Len(new[x]) : q = <<x, j>>
    <3> HIDE DEF new
    <3>1. QED
      BY <1>3, HeldPlace
  <2>3. \A x \in Workers : old[x] \in Seq(Slots) /\ new[x] \in Seq(Slots)
    BY <1>3 DEF Deliveries
  <2> HIDE DEF S, T, old, new
  <2>4. \A x \in Workers : Len(old[x]) \in Nat /\ Len(new[x]) \in Nat
    BY <2>3, LenProperties
  <2>5. QED
    BY <2>1, <2>2, <2>4
<1> DEFINE f == [q \in T |-> IF q[1] = w THEN <<w, Up(q[2])>> ELSE q]
           R == S \ {p}
<1> HIDE DEF old, new, Old, New, S, T
<1>9. ASSUME NEW x \in Workers, NEW j \in Nat, <<x, j>> \in T
      PROVE  /\ f[<<x, j>>] = <<x, IF x = w THEN Up(j) ELSE j>>
             /\ <<x, IF x = w THEN Up(j) ELSE j>> \in R
  <2> HIDE DEF R
  <2>1. f[<<x, j>>] = <<x, IF x = w THEN Up(j) ELSE j>>
    BY <1>9
  <2>2. CASE x = w
    <3>1. Up(j) \in Nat /\ Up(j) # i
      BY <1>2
    <3>2. <<w, Up(j)>> \in S
      BY <1>4, <1>5, <1>7, <1>9, <2>2, <3>1
    <3>3. QED
      BY <2>1, <2>2, <3>1, <3>2 DEF R
  <2>3. CASE x # w
    <3>1. <<x, j>> \in S
      BY <1>4, <1>5, <1>6, <1>9, <2>3
    <3>2. QED
      BY <2>1, <2>3, <3>1 DEF R
  <2>4. QED
    BY <2>2, <2>3
<1>10. f \in [T -> R]
  BY <1>8, <1>9
<1>11. \A q, r \in T : f[q] = f[r] => q = r
  <2> SUFFICES ASSUME NEW q \in T, NEW r \in T, f[q] = f[r] PROVE q = r
    OBVIOUS
  <2>1. PICK x \in Workers : \E j \in Nat : q = <<x, j>>
    BY <1>8
  <2>2. PICK j \in Nat : q = <<x, j>>
    BY <2>1
  <2>3. PICK y \in Workers : \E k \in Nat : r = <<y, k>>
    BY <1>8
  <2>4. PICK k \in Nat : r = <<y, k>>
    BY <2>3
  <2>5. f[q] = <<x, IF x = w THEN Up(j) ELSE j>> /\ f[r] = <<y, IF y = w THEN Up(k) ELSE k>>
    BY <1>9, <2>2, <2>4
  <2> HIDE DEF f, Up
  <2>6. x = y /\ (IF x = w THEN Up(j) ELSE j) = (IF y = w THEN Up(k) ELSE k)
    <3> DEFINE a == IF x = w THEN Up(j) ELSE j
               b == IF y = w THEN Up(k) ELSE k
    <3>1. <<x, a>> = <<y, b>>
      BY <2>5
    <3> HIDE DEF a, b
    <3>2. x = y /\ a = b
      BY <3>1
    <3>3. QED
      BY <3>2 DEF a, b
  <2>7. j = k
    BY <1>2, <2>6 DEF Up
  <2>8. QED
    BY <2>2, <2>4, <2>6, <2>7
<1>12. \A r \in R : \E q \in T : f[q] = r
  <2> SUFFICES ASSUME NEW r \in R PROVE \E q \in T : f[q] = r
    OBVIOUS
  <2>1. PICK x \in Workers : \E j \in Nat : r = <<x, j>>
    BY <1>8
  <2>2. PICK j \in Nat : r = <<x, j>>
    BY <2>1
  <2>3. CASE x # w
    BY <1>4, <1>5, <1>6, <1>9, <2>2, <2>3
  <2>4. CASE x = w
    <3> DEFINE k == IF j < i THEN j ELSE j - 1
    <3>1. j # i /\ Old(w, j)
      BY <1>4, <2>2, <2>4
    <3>2. j \in 1..n
      BY <3>1 DEF Old, old
    <3>3. k \in Nat /\ k \in 1..(n - 1) /\ Up(k) = j
      BY <1>2, <3>1, <3>2
    <3>4. <<w, k>> \in T
      BY <1>5, <1>7, <3>1, <3>3
    <3>5. f[<<w, k>>] = <<w, j>>
      BY <1>9, <3>3, <3>4
    <3>6. QED
      BY <2>2, <2>4, <3>4, <3>5
  <2>5. QED
    BY <2>3, <2>4
<1> HIDE DEF f, R
<1>13. Cardinality(R) = Cardinality(T)
  BY <1>8, <1>10, <1>11, <1>12, SameCount
<1>14. /\ Cardinality(R) \in Nat /\ Cardinality(S) \in Nat
       /\ Cardinality(S) = Cardinality(R) + (IF p \in S THEN 1 ELSE 0)
  BY <1>8, OneLess DEF R
<1>15. p \in S <=> old[w][i].copy.msg = m /\ old[w][i].at # "ack"
  BY <1>2, <1>4 DEF Old, old
<1>16. Cardinality(S) = Cardinality(T)
                        + (IF old[w][i].at # "ack" THEN Of(old[w][i].copy, m) ELSE 0)
  BY <1>13, <1>14, <1>15 DEF Of
<1>17. QED
  BY <1>3, <1>13, <1>14, <1>16 DEF S, T, old, new, HeldCount

-----------------------------------------------------------------------------
(* The end of a session                                                     *)

\* What process w holds of the copy c, and of the event m.
SlotsOf(w, c) == {i \in 1..Len(held[w]) : held[w][i].copy = c}
AllOf(w, m) == {i \in 1..Len(held[w]) : held[w][i].copy.msg = m}
OpenOf(w, m) == {i \in 1..Len(held[w]) : held[w][i].copy.msg = m /\ held[w][i].at # "ack"}

\* The queue gets back everything the process had not acknowledged.
LEMMA BackCount ==
  ASSUME TypeOK, NEW w \in Workers, Down(w), NEW m \in Messages, IsFiniteSet(InPlaces(main, m))
  PROVE  /\ main' \in Queues /\ IsFiniteSet(InPlaces(main', m))
         /\ Count(main, m) \in Nat /\ Cardinality(AllOf(w, m)) \in Nat
         /\ Count(main', m) = Count(main, m) + Cardinality(AllOf(w, m))
<1> DEFINE n == Len(held[w])
           A == AllOf(w, m)
           Got(j, c) == Cardinality((1..j) \intersect SlotsOf(w, c))
           G(j) == [c \in Copies |-> main[c] + Got(j, c)]
           K(j) == Cardinality((1..j) \intersect A)
           Right(j) == /\ G(j) \in Queues /\ IsFiniteSet(InPlaces(G(j), m))
                       /\ Count(G(j), m) = Count(main, m) + K(j)
           P == {j \in Nat : j <= n => Right(j)}
<1>1. n \in Nat /\ main \in Queues /\ \A c \in Copies : main[c] \in Nat
  BY HeldFields DEF TypeOK, Queues
<1>2. \A j \in Nat, c \in Copies : Got(j, c) \in Nat
  BY PrefixCount
<1>3. \A j \in Nat : K(j) \in Nat
  BY PrefixCount
<1>4. \A j \in Nat : G(j) \in Queues
  BY <1>1, <1>2 DEF Queues
<1>5. Count(main, m) \in Nat
  BY FS_CardinalityType DEF Count
<1>6. Right(0)
  <2>1. \A c \in Copies : Got(0, c) = 0
    BY FS_EmptySet
  <2>2. K(0) = 0
    BY FS_EmptySet
  <2>3. G(0) = main
    BY <1>1, <2>1 DEF Queues
  <2> HIDE DEF G, K
  <2>4. QED
    BY <1>1, <1>5, <2>2, <2>3
<1>7. ASSUME NEW j \in Nat, j + 1 <= n, Right(j) PROVE Right(j + 1)
  <2> DEFINE d == held[w][j + 1].copy
             q == G(j)
             r == G(j + 1)
  <2>1. j + 1 \in 1..n /\ d \in Copies
    BY <1>1, <1>7, HeldFields
  <2>2. \A c \in Copies : Got(j + 1, c) = Got(j, c) + (IF c = d THEN 1 ELSE 0)
    <3> SUFFICES ASSUME NEW c \in Copies
                 PROVE  Got(j + 1, c) = Got(j, c) + (IF c = d THEN 1 ELSE 0)
      OBVIOUS
    <3>1. j + 1 \in SlotsOf(w, c) <=> c = d
      BY <2>1 DEF SlotsOf
    <3> HIDE DEF d
    <3>2. Got(j + 1, c) = Got(j, c) + (IF j + 1 \in SlotsOf(w, c) THEN 1 ELSE 0)
      BY PrefixCount
    <3> HIDE DEF Got
    <3>3. QED
      BY <3>1, <3>2
  <2>3. K(j + 1) = K(j) + Of(d, m)
    <3>1. j + 1 \in A <=> d.msg = m
      BY <2>1 DEF AllOf
    <3> HIDE DEF d, A
    <3>2. K(j + 1) = K(j) + (IF j + 1 \in A THEN 1 ELSE 0)
      BY PrefixCount
    <3> HIDE DEF K
    <3>3. QED
      BY <3>1, <3>2 DEF Of
  <2> HIDE DEF Got, K, d
  <2>4. q \in Queues /\ r \in Queues
        /\ (\A c \in Copies : q[c] = main[c] + Got(j, c) /\ r[c] = main[c] + Got(j + 1, c))
    BY <1>4
  <2> HIDE DEF q, r
  <2>5. /\ More(q, d) \in Queues /\ IsFiniteSet(InPlaces(More(q, d), m))
        /\ Count(More(q, d), m) = Count(q, m) + Of(d, m)
        /\ \A x \in Copies : More(q, d)[x] = q[x] + (IF x = d THEN 1 ELSE 0)
    BY <1>7, <2>1, <2>4, MoreCount DEF q
  <2>6. ASSUME NEW c \in Copies PROVE r[c] = More(q, d)[c]
    <3> DEFINE a == main[c]
               b == Got(j, c)
               e == IF c = d THEN 1 ELSE 0
    <3>1. a \in Nat /\ b \in Nat /\ e \in Nat
      BY <1>1, <1>2
    <3>2. r[c] = a + (b + e) /\ More(q, d)[c] = (a + b) + e
      BY <2>2, <2>4, <2>5
    <3> HIDE DEF a, b, e
    <3>3. QED
      BY <3>1, <3>2
  <2>7. r = More(q, d)
    BY <2>4, <2>5, <2>6 DEF Queues
  <2>8. Count(q, m) = Count(main, m) + K(j)
    BY <1>7 DEF q
  <2>9. Of(d, m) \in Nat
    BY DEF Of
  <2>10. r \in Queues /\ IsFiniteSet(InPlaces(r, m)) /\ Count(r, m) = Count(main, m) + K(j + 1)
    BY <1>3, <1>5, <2>3, <2>4, <2>5, <2>7, <2>8, <2>9
  <2>11. QED
    BY <2>10 DEF r
<1>8. Right(n)
  <2> HIDE DEF Right
  <2>1. P \in SUBSET Nat /\ 0 \in P
    BY <1>6
  <2>2. \A j \in P : j + 1 \in P
    BY <1>1, <1>7
  <2> HIDE DEF P
  <2>3. P = Nat
    BY <2>1, <2>2, NaturalInduction
  <2>4. QED
    BY <1>1, <2>3 DEF P
<1>9. main' = G(n)
  <2>1. \A c \in Copies : SlotsOf(w, c) = {i \in DOMAIN held[w] : held[w][i].copy = c}
    BY HeldFields DEF SlotsOf
  <2>2. \A c \in Copies : (1..n) \intersect SlotsOf(w, c) = SlotsOf(w, c)
    BY DEF SlotsOf
  <2>3. \A c \in Copies : Unacked(w, c) = Got(n, c)
    BY <2>1, <2>2 DEF Unacked
  <2>4. main' = [c \in Copies |-> main[c] + Unacked(w, c)]
    BY DEF Down
  <2> HIDE DEF Got
  <2>5. QED
    BY <2>3, <2>4
<1>10. (1..n) \intersect A = A
  BY DEF AllOf
<1>11. K(n) = Cardinality(A) /\ K(n) \in Nat
  BY <1>1, <1>3, <1>10
<1> HIDE DEF G, K, A
<1>12. QED
  BY <1>5, <1>8, <1>9, <1>11 DEF A

\* What counts of a process is counted in its slots.
LEMMA HeldOfProcess ==
  ASSUME TypeOK, NEW w \in Workers, held' = [held EXCEPT ![w] = <<>>], NEW m
  PROVE  /\ held' \in Deliveries /\ HeldCount(held', m) \in Nat /\ Cardinality(OpenOf(w, m)) \in Nat
         /\ HeldCount(held, m) = HeldCount(held', m) + Cardinality(OpenOf(w, m))
<1> DEFINE old == held
           new == held'
           J == OpenOf(w, m)
           S == HeldPlaces(old, m)
           T == HeldPlaces(new, m)
           W == S \ T
           f == [j \in J |-> <<w, j>>]
<1>1. /\ old \in Deliveries /\ new \in Deliveries /\ new[w] = <<>>
      /\ \A x \in Workers : x # w => new[x] = old[x]
  <2>1. <<>> \in Seq(Slots) /\ Len(<<>>) = 0
    BY EmptySeq
  <2>2. held \in [Workers -> Seq(Slots)] /\ \A x \in Workers : Len(held[x]) <= Prefetch
    BY DEF TypeOK
  <2>3. QED
    BY <2>1, <2>2 DEF Deliveries
<1>2. \A x \in Workers : Len(old[x]) \in Nat
  BY HeldFields
<1>3. \A x \in Workers, j \in Nat : <<x, j>> \in T <=> x # w /\ <<x, j>> \in S
  <2> SUFFICES ASSUME NEW x \in Workers, NEW j \in Nat
               PROVE  <<x, j>> \in T <=> x # w /\ <<x, j>> \in S
    OBVIOUS
  <2>1. Len(new[w]) = 0
    BY <1>1, EmptySeq
  <2> HIDE DEF old, new
  <2>2. <<x, j>> \in HeldPlaces(old, m) <=>
          j \in 1..Len(old[x]) /\ old[x][j].copy.msg = m /\ old[x][j].at # "ack"
    BY <1>1, HeldPlace
  <2>3. <<x, j>> \in HeldPlaces(new, m) <=>
          j \in 1..Len(new[x]) /\ new[x][j].copy.msg = m /\ new[x][j].at # "ack"
    BY <1>1, HeldPlace
  <2>4. QED
    BY <1>1, <2>1, <2>2, <2>3
<1>4. \A j \in Nat : <<w, j>> \in S <=> j \in J
  <2> HIDE DEF old
  <2>1. \A j \in Nat : <<w, j>> \in S <=>
          j \in 1..Len(old[w]) /\ old[w][j].copy.msg = m /\ old[w][j].at # "ack"
    BY <1>1, HeldPlace
  <2>2. QED
    BY <2>1 DEF OpenOf, old
<1>5. /\ IsFiniteSet(S) /\ IsFiniteSet(T) /\ J \subseteq Nat
      /\ \A p \in S : \E x \in Workers : \E j \in Nat : p = <<x, j>>
      /\ \A p \in T : \E x \in Workers : \E j \in Nat : p = <<x, j>>
  <2>1. IsFiniteSet(S) /\ \A p \in S : \E x \in Workers : \E j \in 1..Len(old[x]) : p = <<x, j>>
    BY <1>1, HeldPlace
  <2>2. IsFiniteSet(T) /\ \A p \in T : \E x \in Workers : \E j \in 1..Len(new[x]) : p = <<x, j>>
    <3> HIDE DEF new
    <3>1. QED
      BY <1>1, HeldPlace
  <2>3. J \subseteq Nat
    BY DEF OpenOf
  <2>4. \A x \in Workers : old[x] \in Seq(Slots) /\ new[x] \in Seq(Slots)
    BY <1>1 DEF Deliveries
  <2> HIDE DEF S, T, old, new, J
  <2>5. \A x \in Workers : Len(old[x]) \in Nat /\ Len(new[x]) \in Nat
    BY <2>4, LenProperties
  <2>6. QED
    BY <2>1, <2>2, <2>3, <2>5
<1> HIDE DEF S, T, J
<1>6. T \subseteq S /\ S = T \union W /\ T \intersect W = {} /\ IsFiniteSet(W)
  <2>1. T \subseteq S
    BY <1>3, <1>5
  <2>2. IsFiniteSet(W)
    BY <1>5, FS_Subset
  <2>3. QED
    BY <2>1, <2>2
<1>7. /\ f \in [J -> W]
      /\ \A x, y \in J : f[x] = f[y] => x = y
      /\ \A t \in W : \E x \in J : f[x] = t
  <2>1. \A j \in J : <<w, j>> \in W
    BY <1>3, <1>4, <1>5
  <2>2. \A t \in W : \E j \in J : <<w, j>> = t
    BY <1>3, <1>4, <1>5
  <2> HIDE DEF W
  <2>3. QED
    BY <2>1, <2>2
<1>8. IsFiniteSet(J)
  <2>1. IsFiniteSet(1..Len(held[w]))
    BY <1>2, FS_Interval
  <2>2. QED
    BY <2>1, FS_Subset DEF J, OpenOf
<1> HIDE DEF W, f
<1>9. Cardinality(W) = Cardinality(J)
  BY <1>7, <1>8, SameCount
<1>10. Cardinality(S) = Cardinality(T) + Cardinality(W) - Cardinality(T \intersect W)
  <2>1. Cardinality(T \union W) = Cardinality(T) + Cardinality(W) - Cardinality(T \intersect W)
    BY <1>5, <1>6, FS_Union
  <2>2. QED
    BY <1>6, <2>1
<1>11. Cardinality(T \intersect W) = 0 /\ Cardinality(T) \in Nat /\ Cardinality(W) \in Nat
  BY <1>5, <1>6, FS_EmptySet, FS_CardinalityType
<1>12. Cardinality(S) = Cardinality(T) + Cardinality(J)
  BY <1>9, <1>10, <1>11
<1>13. QED
  BY <1>1, <1>9, <1>11, <1>12 DEF S, T, J, HeldCount

\* At most one delivery of an event is about to be acknowledged.
LEMMA AllAndOpen ==
  ASSUME TypeOK, FirstOfPost, NEW w \in Workers, NEW m
  PROVE  /\ Cardinality(AllOf(w, m)) \in Nat /\ Cardinality(OpenOf(w, m)) \in Nat
         /\ Cardinality(OpenOf(w, m)) <= Cardinality(AllOf(w, m))
         /\ Cardinality(AllOf(w, m)) <= 1 + Cardinality(OpenOf(w, m))
         /\ (\A i \in 1..Len(held[w]) : held[w][i].at # "ack") => AllOf(w, m) = OpenOf(w, m)
<1> DEFINE K == AllOf(w, m)
           J == OpenOf(w, m)
           Acks == {i \in 1..Len(held[w]) : held[w][i].copy.msg = m /\ held[w][i].at = "ack"}
<1>1. IsFiniteSet(K) /\ IsFiniteSet(J) /\ J \subseteq K /\ K = J \union Acks
  <2>1. IsFiniteSet(1..Len(held[w]))
    BY HeldFields, FS_Interval
  <2>2. QED
    BY <2>1, FS_Subset DEF AllOf, OpenOf
<1>2. \A i, j \in Acks : i = j
  <2> SUFFICES ASSUME NEW i \in Acks, NEW j \in Acks, i < j PROVE FALSE
    BY HeldFields
  <2>1. i \in 1..(j - 1) /\ j \in 1..Len(held[w]) /\ held[w][j].at # "queued"
    BY HeldFields
  <2>2. QED
    BY <2>1 DEF FirstOfPost
<1>3. (\A i \in 1..Len(held[w]) : held[w][i].at # "ack") => K = J
  BY DEF AllOf, OpenOf
<1>4. CASE Acks = {}
  <2> HIDE DEF K, J
  <2>1. K = J /\ Cardinality(J) \in Nat
    BY <1>1, <1>4, FS_CardinalityType
  <2>2. QED
    BY <1>3, <2>1 DEF K, J
<1>5. CASE Acks # {}
  <2>1. PICK x \in Acks : TRUE
    BY <1>5
  <2>2. K \ {x} = J \ {x} /\ x \in K /\ x \notin J
    BY <1>2, <1>1, <2>1 DEF AllOf, OpenOf
  <2> HIDE DEF K, J, Acks
  <2>3. /\ Cardinality(K) \in Nat /\ Cardinality(J) \in Nat
        /\ Cardinality(K) + (IF x \in J THEN 1 ELSE 0) = Cardinality(J) + (IF x \in K THEN 1 ELSE 0)
    BY <1>1, <2>2, DifferInOne
  <2>4. Cardinality(K) = Cardinality(J) + 1
    BY <2>2, <2>3
  <2>5. QED
    BY <1>3, <2>3, <2>4 DEF K, J
<1>6. QED
  BY <1>4, <1>5

-----------------------------------------------------------------------------
(* The order of the deliveries                                              *)

\* A delivery in another stage is still the first of its post.
LEMMA OrderTo ==
  ASSUME TypeOK, FirstOfPost, StagesTrue, NEW w \in Workers, NEW i \in 1..Len(held[w]),
         NEW stage \in Stages \ {"queued"}, To(w, i, stage),
         held[w][i].at # "ack", held[w][i].at # "queued" \/ Startable(w, i),
         stage = "process" => held[w][i].copy.msg \notin Foreign,
         stage = "dead" => Deserved(held[w][i].copy)
  PROVE  /\ FirstOfPost' /\ StagesTrue'
         /\ \A m : Busy(w, m)' => Busy(w, m) \/ held[w][i].at = "queued"
<1>1. /\ Others(w) /\ Len(held'[w]) = Len(held[w]) /\ Len(held[w]) \in Nat
      /\ held'[w][i].copy = held[w][i].copy /\ held'[w][i].at = stage
      /\ \A j \in 1..Len(held[w]) : j # i => held'[w][j] = held[w][j]
      /\ \A j \in 1..Len(held[w]) : held'[w][j].copy = held[w][j].copy
  BY ToShape, HeldFields
<1>2. ASSUME NEW x \in Workers, NEW j \in 1..Len(held'[x]), held'[x][j].at # "queued",
             NEW k \in 1..(j - 1)
      PROVE  PostOf[held'[x][k].copy.msg] # PostOf[held'[x][j].copy.msg]
  <2>1. CASE x # w
    BY <1>1, <1>2, <2>1 DEF FirstOfPost, Others
  <2>2. CASE x = w
    <3>1. /\ j \in 1..Len(held[w]) /\ k \in 1..Len(held[w]) /\ k \in 1..(j - 1)
          /\ held'[w][j].copy = held[w][j].copy /\ held'[w][k].copy = held[w][k].copy
      BY <1>1, <2>2
    <3>2. CASE j # i \/ held[w][i].at # "queued"
      <4>1. held[w][j].at # "queued"
        BY <1>1, <1>2, <2>2, <3>1, <3>2
      <4>2. QED
        BY <2>2, <3>1, <4>1 DEF FirstOfPost
    <3>3. CASE j = i /\ held[w][i].at = "queued"
      BY <2>2, <3>1, <3>3 DEF Startable, Msg
    <3>4. QED
      BY <3>2, <3>3
  <2>3. QED
    BY <2>1, <2>2
<1>3. ASSUME NEW x \in Workers, NEW j \in 1..Len(held'[x])
      PROVE  /\ held'[x][j].at = "process" => held'[x][j].copy.msg \notin Foreign
             /\ held'[x][j].at = "dead" => Deserved(held'[x][j].copy)
  <2>1. CASE x # w
    BY <1>1, <2>1 DEF StagesTrue, Others
  <2>2. CASE x = w /\ j # i
    BY <1>1, <2>2 DEF StagesTrue
  <2>3. CASE x = w /\ j = i
    BY <1>1, <2>3
  <2>4. QED
    BY <2>1, <2>2, <2>3
<1>4. ASSUME NEW m, NEW j \in 1..Len(held'[w]), held'[w][j].copy.msg = m,
             held'[w][j].at \in Working
      PROVE  Busy(w, m) \/ held[w][i].at = "queued"
  <2>1. j \in 1..Len(held[w]) /\ held[w][j].copy.msg = m
    BY <1>1, <1>4
  <2>2. CASE j # i
    BY <1>1, <1>4, <2>1, <2>2 DEF Busy
  <2>3. CASE j = i
    <3>1. held[w][i].at \in Stages
      BY HeldFields
    <3>2. held[w][i].at \in Working \/ held[w][i].at = "queued"
      BY <3>1 DEF Stages, Working
    <3>3. QED
      BY <2>1, <2>3, <3>2 DEF Busy
  <2>4. QED
    BY <2>2, <2>3
<1>5. FirstOfPost'
  BY <1>2 DEF FirstOfPost
<1>6. StagesTrue'
  BY <1>3 DEF StagesTrue
<1>7. QED
  BY <1>4, <1>5, <1>6 DEF Busy

\* A delivery that is gone leaves the others in their order, and if its post
\* had begun, no other delivery of the event is busy.
LEMMA OrderDrop ==
  ASSUME TypeOK, FirstOfPost, StagesTrue, NEW w \in Workers, NEW i \in 1..Len(held[w]),
         Drop(w, i)
  PROVE  /\ FirstOfPost' /\ StagesTrue'
         /\ \A m : Busy(w, m)' => Busy(w, m)
         /\ \A m : held[w][i].at # "queued" /\ held[w][i].copy.msg = m => ~Busy(w, m)'
<1> DEFINE Up(j) == IF j < i THEN j ELSE j + 1
<1>1. /\ Others(w) /\ Len(held'[w]) = Len(held[w]) - 1 /\ Len(held[w]) \in Nat /\ i \in Nat
      /\ \A j \in 1..Len(held'[w]) : held'[w][j] = held[w][Up(j)]
  BY DropShape, HeldFields
<1>2. \A j \in 1..Len(held'[w]) :
        /\ Up(j) \in 1..Len(held[w]) /\ Up(j) # i
        /\ \A k \in 1..(j - 1) : Up(k) \in 1..(Up(j) - 1) /\ k \in 1..Len(held'[w])
  BY <1>1
<1> HIDE DEF Up
<1>3. ASSUME NEW x \in Workers, NEW j \in 1..Len(held'[x]), held'[x][j].at # "queued",
             NEW k \in 1..(j - 1)
      PROVE  PostOf[held'[x][k].copy.msg] # PostOf[held'[x][j].copy.msg]
  <2>1. CASE x # w
    BY <1>1, <1>3, <2>1 DEF FirstOfPost, Others
  <2>2. CASE x = w
    <3>1. /\ Up(j) \in 1..Len(held[w]) /\ Up(k) \in 1..(Up(j) - 1)
          /\ held'[w][j] = held[w][Up(j)] /\ held'[w][k] = held[w][Up(k)]
      BY <1>1, <1>2, <2>2
    <3>2. held[w][Up(j)].at # "queued"
      BY <1>3, <2>2, <3>1
    <3>3. QED
      BY <2>2, <3>1, <3>2 DEF FirstOfPost
  <2>3. QED
    BY <2>1, <2>2
<1>4. ASSUME NEW x \in Workers, NEW j \in 1..Len(held'[x])
      PROVE  /\ held'[x][j].at = "process" => held'[x][j].copy.msg \notin Foreign
             /\ held'[x][j].at = "dead" => Deserved(held'[x][j].copy)
  <2>1. CASE x # w
    BY <1>1, <2>1 DEF StagesTrue, Others
  <2>2. CASE x = w
    <3>1. Up(j) \in 1..Len(held[w]) /\ held'[w][j] = held[w][Up(j)]
      BY <1>1, <1>2, <2>2
    <3>2. QED
      BY <2>2, <3>1 DEF StagesTrue
  <2>3. QED
    BY <2>1, <2>2
<1>5. \A m : Busy(w, m)' => Busy(w, m)
  BY <1>1, <1>2 DEF Busy
<1>6. ASSUME held[w][i].at # "queued", NEW j \in 1..Len(held'[w]),
             held'[w][j].copy.msg = held[w][i].copy.msg, held'[w][j].at \in Working
      PROVE  FALSE
  <2> DEFINE k == Up(j)
  <2>1. /\ k \in 1..Len(held[w]) /\ k # i
        /\ held[w][k].copy.msg = held[w][i].copy.msg /\ held[w][k].at # "queued"
    BY <1>1, <1>2, <1>6 DEF Working
  <2> HIDE DEF k
  <2>2. CASE k < i
    <3>1. k \in 1..(i - 1)
      BY <1>1, <2>1, <2>2
    <3>2. QED
      BY <1>6, <2>1, <3>1 DEF FirstOfPost
  <2>3. CASE i < k
    <3>1. i \in 1..(k - 1)
      BY <1>1, <2>1, <2>3
    <3>2. QED
      BY <1>6, <2>1, <3>1 DEF FirstOfPost
  <2>4. QED
    BY <1>1, <2>1, <2>2, <2>3
<1>7. FirstOfPost'
  BY <1>3 DEF FirstOfPost
<1>8. StagesTrue'
  BY <1>4 DEF StagesTrue
<1>9. \A m : held[w][i].at # "queued" /\ held[w][i].copy.msg = m => ~Busy(w, m)'
  BY <1>6 DEF Busy
<1>10. QED
  BY <1>5, <1>7, <1>8, <1>9

\* A delivery that has come waits behind the others.
LEMMA OrderAppend ==
  ASSUME TypeOK, FirstOfPost, StagesTrue, NEW w \in Workers, NEW c \in Copies,
         held' = [held EXCEPT ![w] = Append(@, [copy |-> c, at |-> "queued"])]
  PROVE  FirstOfPost' /\ StagesTrue'
<1> DEFINE n == Len(held[w])
<1>1. /\ Others(w) /\ Len(held'[w]) = n + 1 /\ n \in Nat
      /\ held'[w][n + 1].at = "queued"
      /\ \A j \in 1..n : held'[w][j] = held[w][j]
  BY AppendShape, HeldFields
<1>2. \A j \in 1..Len(held'[w]) :
        (j = n + 1 \/ j \in 1..n) /\ \A k \in 1..(j - 1) : k \in 1..n
  BY <1>1
<1>3. ASSUME NEW x \in Workers, NEW j \in 1..Len(held'[x]), held'[x][j].at # "queued"
      PROVE  /\ \A k \in 1..(j - 1) : PostOf[held'[x][k].copy.msg] # PostOf[held'[x][j].copy.msg]
             /\ held'[x][j].at = "process" => held'[x][j].copy.msg \notin Foreign
             /\ held'[x][j].at = "dead" => Deserved(held'[x][j].copy)
  <2>1. CASE x # w
    BY <1>1, <1>3, <2>1 DEF FirstOfPost, StagesTrue, Others
  <2>2. CASE x = w
    <3>1. j \in 1..n /\ held'[w][j] = held[w][j]
      BY <1>1, <1>2, <1>3, <2>2
    <3>2. \A k \in 1..(j - 1) : held'[w][k] = held[w][k]
      BY <1>1, <1>2, <2>2
    <3> HIDE DEF n
    <3>3. j \in 1..Len(held[w])
      BY <3>1 DEF n
    <3>4. QED
      BY <1>3, <2>2, <3>1, <3>2, <3>3 DEF FirstOfPost, StagesTrue
  <2>3. QED
    BY <2>1, <2>2
<1>4. FirstOfPost'
  BY <1>3 DEF FirstOfPost
<1>5. StagesTrue'
  BY <1>3 DEF StagesTrue
<1>6. QED
  BY <1>4, <1>5

\* A process without deliveries.
LEMMA OrderDown ==
  ASSUME TypeOK, FirstOfPost, StagesTrue, NEW w \in Workers, held' = [held EXCEPT ![w] = <<>>]
  PROVE  FirstOfPost' /\ StagesTrue'
<1>1. Others(w) /\ Len(held'[w]) = 0
  BY EmptySeq DEF Others, TypeOK
<1>2. \A x \in Workers : \A j \in 1..Len(held'[x]) : held'[x] = held[x]
  BY <1>1 DEF Others
<1>3. FirstOfPost'
  BY <1>2 DEF FirstOfPost
<1>4. StagesTrue'
  BY <1>2 DEF StagesTrue
<1>5. QED
  BY <1>3, <1>4

-----------------------------------------------------------------------------
(* The risks                                                                *)

AtRisk(w, m) == session[w] = "closing" /\ Busy(w, m)

\* Elsewhere nothing changes.
Elsewhere(w) == \A x \in Workers : x # w => held'[x] = held[x] /\ session'[x] = session[x]

\* A step of one process changes the risk it carries alone.
LEMMA RisksMove ==
  ASSUME NEW w \in Workers, Elsewhere(w), NEW m
  PROVE  /\ Cardinality(Risks(m)) \in Nat /\ Cardinality(Risks(m)') \in Nat
         /\ Cardinality(Risks(m)) + (IF AtRisk(w, m)' THEN 1 ELSE 0)
              = Cardinality(Risks(m)') + (IF AtRisk(w, m) THEN 1 ELSE 0)
<1> DEFINE S == Risks(m)
           T == Risks(m)'
<1>1. IsFiniteSet(S) /\ IsFiniteSet(T)
  BY FS_Subset DEF Risks
<1>2. S \ {w} = T \ {w}
  BY DEF Risks, Busy, Elsewhere
<1>3. (w \in S <=> AtRisk(w, m)) /\ (w \in T <=> AtRisk(w, m)')
  BY DEF Risks, AtRisk
<1> HIDE DEF S, T
<1>4. /\ Cardinality(S) \in Nat /\ Cardinality(T) \in Nat
      /\ Cardinality(S) + (IF w \in T THEN 1 ELSE 0) = Cardinality(T) + (IF w \in S THEN 1 ELSE 0)
  BY <1>1, <1>2, DifferInOne
<1>5. QED
  BY <1>3, <1>4, Zenon DEF S, T

\* The copies of an event are counted by natural numbers.
LEMMA CountsAreNumbers ==
  ASSUME TypeOK, QueuesFinite, NEW m \in Messages
  PROVE  /\ Count(main, m) \in Nat /\ Count(delayed, m) \in Nat /\ Count(dead, m) \in Nat
         /\ HeldCount(held, m) \in Nat /\ Cardinality(Risks(m)) \in Nat
         /\ CopiesOf(m) = Count(main, m) + Count(delayed, m) + Count(dead, m) + HeldCount(held, m)
<1>1. Count(main, m) \in Nat /\ Count(delayed, m) \in Nat /\ Count(dead, m) \in Nat
  BY FS_CardinalityType DEF QueuesFinite, Count
<1>2. held \in Deliveries
  BY DEF TypeOK, Deliveries
<1>3. HeldCount(held, m) \in Nat
  BY <1>2, HeldPlace
<1>4. Cardinality(Risks(m)) \in Nat
  BY FS_Subset, FS_CardinalityType DEF Risks
<1>5. QED
  BY <1>1, <1>3, <1>4 DEF CopiesOf, Count, HeldCount

-----------------------------------------------------------------------------
(* What a step does to the copies of an event                               *)

\* Every copy a step adds, or puts at risk, has its failure.
Pays(m) == CopiesOf(m)' + Cardinality(Risks(m)') + faults
             <= CopiesOf(m) + Cardinality(Risks(m)) + faults'
\* The last copy goes when the event is safe.
Keeps(m) == m \in applied' \cup parked' \/ CopiesOf(m) <= CopiesOf(m)'

Base == TypeOK /\ QueuesFinite /\ FirstOfPost /\ StagesTrue /\ DeadDeserved

Sound ==
  /\ main' \in Queues /\ delayed' \in Queues /\ dead' \in Queues /\ held' \in Deliveries
  /\ \A w \in Workers : session'[w] = "down" => held'[w] = <<>>
  /\ QueuesFinite' /\ FirstOfPost' /\ StagesTrue' /\ DeadDeserved'
  /\ \A m \in Messages : Pays(m) /\ Keeps(m)

\* A process with a delivery has a session.
LEMMA HasSession ==
  ASSUME TypeOK, NEW w \in Workers, NEW i \in 1..Len(held[w])
  PROVE  session[w] # "down" /\ session[w] \in {"up", "closing", "down"}
<1>1. held[w] # <<>>
  BY HeldFields, EmptySeq
<1>2. QED
  BY <1>1 DEF TypeOK

\* A step to another stage, the queues unchanged.
LEMMA ToIsSound ==
  ASSUME Base, NEW w \in Workers, NEW i \in 1..Len(held[w]),
         NEW stage \in Stages \ {"queued"}, To(w, i, stage),
         held[w][i].at # "ack", held[w][i].at # "queued" \/ Startable(w, i),
         stage = "process" => held[w][i].copy.msg \notin Foreign,
         stage = "dead" => Deserved(held[w][i].copy),
         stage = "ack" => held[w][i].copy.msg \in applied' \cup parked',
         UNCHANGED <<broker, session>>, faults \in Nat, faults' \in Nat, faults <= faults'
  PROVE  Sound
<1>1. TypeOK /\ QueuesFinite /\ FirstOfPost /\ StagesTrue /\ DeadDeserved
  BY DEF Base
<1>2. main' = main /\ delayed' = delayed /\ dead' = dead /\ session' = session
  BY DEF broker
<1>3. /\ FirstOfPost' /\ StagesTrue'
      /\ \A m : Busy(w, m)' => Busy(w, m) \/ held[w][i].at = "queued"
  BY <1>1, OrderTo
<1>4. held' \in Deliveries
  BY <1>1, HeldTo
<1>5. QueuesFinite' /\ DeadDeserved'
  BY <1>1, <1>2 DEF QueuesFinite, DeadDeserved, InQueue
<1>6. Others(w) /\ Elsewhere(w)
  BY <1>1, <1>2, ToShape DEF Others, Elsewhere
<1>7. \A x \in Workers : session'[x] = "down" => held'[x] = <<>>
  BY <1>1, <1>2, <1>6, HasSession DEF Others, TypeOK
<1>8. ASSUME NEW m \in Messages PROVE Pays(m) /\ Keeps(m)
  <2> DEFINE a == Count(main, m) + Count(delayed, m) + Count(dead, m)
             gone == IF stage = "ack" THEN Of(held[w][i].copy, m) ELSE 0
             h == HeldCount(held, m)
             hn == HeldCount(held', m)
             r == Cardinality(Risks(m))
             rn == Cardinality(Risks(m)')
  <2>1. a \in Nat /\ CopiesOf(m) = a + h /\ CopiesOf(m)' = a + hn
    BY <1>1, <1>2, CountsAreNumbers DEF CopiesOf, Count, HeldCount
  <2>2. h \in Nat /\ hn \in Nat /\ h = hn + gone
    BY <1>1, HeldTo
  <2>3. /\ r \in Nat /\ rn \in Nat
        /\ r + (IF AtRisk(w, m)' THEN 1 ELSE 0) = rn + (IF AtRisk(w, m) THEN 1 ELSE 0)
    BY <1>6, RisksMove
  <2>4. AtRisk(w, m)' => AtRisk(w, m)
    <3>1. held[w][i].at = "queued" => session[w] = "up"
      BY DEF Startable
    <3>2. QED
      BY <1>2, <1>3, <3>1 DEF AtRisk
  <2>5. gone \in Nat /\ (gone # 0 => m \in applied' \cup parked')
    BY DEF Of
  <2> HIDE DEF a, gone, h, hn, r, rn
  <2>6. rn <= r
    BY <2>3, <2>4
  <2>7. CopiesOf(m)' + rn + faults <= CopiesOf(m) + r + faults'
    <3> DEFINE x == CopiesOf(m)
               y == CopiesOf(m)'
               f == faults
               g == faults'
    <3>1. x \in Nat /\ y \in Nat /\ y <= x
      BY <2>1, <2>2, <2>5
    <3>2. f \in Nat /\ g \in Nat /\ f <= g /\ r \in Nat /\ rn \in Nat
      BY <2>3
    <3> HIDE DEF x, y, f, g
    <3>3. y + rn + f <= x + r + g
      BY <2>6, <3>1, <3>2
    <3>4. QED
      BY <3>3 DEF x, y, f, g
  <2>8. Pays(m)
    BY <2>7 DEF Pays, r, rn
  <2>9. Keeps(m)
    BY <2>1, <2>2, <2>5 DEF Keeps
  <2>10. QED
    BY <2>8, <2>9
<1>9. QED
  BY <1>1, <1>2, <1>3, <1>4, <1>5, <1>7, <1>8 DEF Sound, TypeOK

\* The second message: a retry with its attempt, or a dead letter.
LEMMA PlaceCounts ==
  ASSUME Base, NEW w \in Workers, NEW i \in 1..Len(held[w]), Place(w, i)
  PROVE  /\ delayed' \in Queues /\ dead' \in Queues /\ DeadDeserved'
         /\ \A m \in Messages :
              /\ IsFiniteSet(InPlaces(delayed', m)) /\ IsFiniteSet(InPlaces(dead', m))
              /\ Count(delayed', m) \in Nat /\ Count(dead', m) \in Nat
              /\ Count(delayed', m) + Count(dead', m)
                   = Count(delayed, m) + Count(dead, m) + Of(held[w][i].copy, m)
<1> DEFINE c == held[w][i].copy
           n == NextAttempt(w, i)
<1>1. TypeOK /\ QueuesFinite /\ DeadDeserved /\ StagesTrue
  BY DEF Base
<1>2. c \in Copies /\ c.msg \in Messages /\ c.attempt \in 0..MaxLimit
  BY <1>1, HeldFields, CopyFields
<1>3. n \in Copies /\ n.msg = c.msg
  <2>1. limit[w] \in Limits
    BY <1>1 DEF TypeOK
  <2>2. limit[w] \in Nat /\ limit[w] <= MaxLimit /\ MaxLimit \in Nat
    BY <2>1, LimitBounds
  <2> DEFINE k == IF Attempt(w, i) < limit[w] THEN Attempt(w, i) + 1 ELSE 0
  <2>3. k \in 0..MaxLimit
    BY <1>2, <2>2 DEF Attempt
  <2>4. n = [msg |-> c.msg, attempt |-> k]
    BY DEF NextAttempt, Msg
  <2> HIDE DEF k, c, n
  <2>5. QED
    BY <1>2, <2>3, <2>4 DEF Copies
<1>4. delayed \in Queues /\ dead \in Queues
  BY <1>1 DEF TypeOK
<1>5. \A m \in Messages : /\ IsFiniteSet(InPlaces(delayed, m)) /\ IsFiniteSet(InPlaces(dead, m))
                          /\ Count(delayed, m) \in Nat /\ Count(dead, m) \in Nat
  BY <1>1, CountsAreNumbers DEF QueuesFinite
<1>6. \A m \in Messages : Of(n, m) = Of(c, m) /\ Of(c, m) \in Nat
  BY <1>3 DEF Of
<1> HIDE DEF c, n
<1>7. CASE delayed' = More(delayed, n) /\ UNCHANGED dead
  <2>1. \A m \in Messages :
          /\ More(delayed, n) \in Queues /\ IsFiniteSet(InPlaces(More(delayed, n), m))
          /\ Count(More(delayed, n), m) = Count(delayed, m) + Of(n, m)
    BY <1>3, <1>4, <1>5, MoreCount
  <2>2. DeadDeserved'
    BY <1>1, <1>7 DEF DeadDeserved, InQueue
  <2>3. delayed' \in Queues
    BY <1>2, <1>7, <2>1
  <2>4. \A m \in Messages :
          /\ IsFiniteSet(InPlaces(delayed', m)) /\ IsFiniteSet(InPlaces(dead', m))
          /\ Count(delayed', m) = Count(delayed, m) + Of(c, m) /\ Count(dead', m) = Count(dead, m)
    BY <1>5, <1>6, <1>7, <2>1
  <2>5. QED
    BY <1>4, <1>5, <1>6, <1>7, <2>2, <2>3, <2>4 DEF c
<1>8. CASE held[w][i].at = "dead" /\ dead' = More(dead, c) /\ UNCHANGED delayed
  <2>1. \A m \in Messages :
          /\ More(dead, c) \in Queues /\ IsFiniteSet(InPlaces(More(dead, c), m))
          /\ Count(More(dead, c), m) = Count(dead, m) + Of(c, m)
          /\ \A x \in Copies : More(dead, c)[x] = dead[x] + (IF x = c THEN 1 ELSE 0)
    BY <1>2, <1>4, <1>5, MoreCount
  <2>2. Deserved(c)
    BY <1>1, <1>8 DEF StagesTrue, c
  <2>3. \A x \in Copies : dead'[x] > 0 => x = c \/ dead[x] > 0
    BY <1>2, <1>4, <1>8, <2>1 DEF Queues
  <2>4. DeadDeserved'
    BY <1>1, <2>2, <2>3 DEF DeadDeserved, InQueue, Deserved
  <2>5. dead' \in Queues
    BY <1>2, <1>8, <2>1
  <2>6. \A m \in Messages :
          /\ IsFiniteSet(InPlaces(delayed', m)) /\ IsFiniteSet(InPlaces(dead', m))
          /\ Count(delayed', m) = Count(delayed, m) /\ Count(dead', m) = Count(dead, m) + Of(c, m)
    BY <1>5, <1>8, <2>1
  <2>7. QED
    BY <1>4, <1>5, <1>6, <1>8, <2>4, <2>5, <2>6 DEF c
<1>9. QED
  BY <1>7, <1>8 DEF Place, At, c, n

\* The copies of an event after a step.
LEMMA CopiesAfter ==
  ASSUME NEW m
  PROVE  CopiesOf(m)' = Count(main', m) + Count(delayed', m) + Count(dead', m) + HeldCount(held', m)
BY DEF CopiesOf, Count, HeldCount

\* A step in numbers: the copies and the risks that come and go.
LEMMA Account ==
  ASSUME Base, NEW m \in Messages, faults \in Nat, faults' \in Nat,
         Count(main', m) \in Nat, Count(delayed', m) + Count(dead', m) \in Nat,
         Count(delayed', m) \in Nat, Count(dead', m) \in Nat, HeldCount(held', m) \in Nat,
         NEW up \in Nat, NEW down \in Nat, Cardinality(Risks(m)') \in Nat,
         Cardinality(Risks(m)) + up = Cardinality(Risks(m)') + down,
         NEW more \in Nat, NEW gone \in Nat,
         Count(main', m) + Count(delayed', m) + Count(dead', m) + HeldCount(held', m) + gone
           = Count(main, m) + Count(delayed, m) + Count(dead, m) + HeldCount(held, m) + more,
         more + up + faults <= gone + down + faults',
         gone <= more \/ m \in applied' \cup parked'
  PROVE  Pays(m) /\ Keeps(m)
<1> DEFINE a == Count(main, m)  b == Count(delayed, m)  c == Count(dead, m)
           d == HeldCount(held, m)
           an == Count(main', m)  bn == Count(delayed', m)  cn == Count(dead', m)
           dn == HeldCount(held', m)
           r == Cardinality(Risks(m))
           rn == Cardinality(Risks(m)')
           k == down
           kn == up
           f == faults
           fn == faults'
           x == CopiesOf(m)
           y == CopiesOf(m)'
<1>1. /\ a \in Nat /\ b \in Nat /\ c \in Nat /\ d \in Nat /\ r \in Nat
      /\ x = a + b + c + d
  BY CountsAreNumbers DEF Base
<1>2. an \in Nat /\ bn \in Nat /\ cn \in Nat /\ dn \in Nat /\ y = an + bn + cn + dn
  BY CopiesAfter
<1>3. rn \in Nat /\ r + kn = rn + k /\ k \in Nat /\ kn \in Nat
  OBVIOUS
<1>4. an + bn + cn + dn + gone = a + b + c + d + more /\ more + kn + f <= gone + k + fn
  OBVIOUS
<1>5. f \in Nat /\ fn \in Nat
  OBVIOUS
<1> HIDE DEF a, b, c, d, an, bn, cn, dn, r, rn, k, kn, f, fn, x, y
<1>6. y + gone = x + more /\ x \in Nat /\ y \in Nat
  BY <1>1, <1>2, <1>4
<1>7. y + rn + f <= x + r + fn
  BY <1>1, <1>3, <1>4, <1>5, <1>6
<1>8. Pays(m)
  BY <1>7 DEF Pays, r, rn, f, fn, x, y
<1>9. gone <= more => x <= y
  BY <1>6
<1>10. Keeps(m)
  BY <1>9 DEF Keeps, x, y
<1>11. QED
  BY <1>8, <1>10

\* A step of one process: what the queues and the process gain and lose, and
\* what the process puts at risk, must be paid for.
LEMMA Balance ==
  ASSUME Base, NEW m \in Messages, faults \in Nat, faults' \in Nat,
         Count(main', m) \in Nat, Count(delayed', m) + Count(dead', m) \in Nat,
         Count(delayed', m) \in Nat, Count(dead', m) \in Nat, HeldCount(held', m) \in Nat,
         NEW w \in Workers, Elsewhere(w),
         NEW more \in Nat, NEW gone \in Nat,
         Count(main', m) + Count(delayed', m) + Count(dead', m) + HeldCount(held', m) + gone
           = Count(main, m) + Count(delayed, m) + Count(dead, m) + HeldCount(held, m) + more,
         more + (IF AtRisk(w, m)' THEN 1 ELSE 0) + faults
           <= gone + (IF AtRisk(w, m) THEN 1 ELSE 0) + faults',
         gone <= more \/ m \in applied' \cup parked'
  PROVE  Pays(m) /\ Keeps(m)
<1> DEFINE up == IF AtRisk(w, m)' THEN 1 ELSE 0
           down == IF AtRisk(w, m) THEN 1 ELSE 0
<1>1. /\ Cardinality(Risks(m)) \in Nat /\ Cardinality(Risks(m)') \in Nat
      /\ Cardinality(Risks(m)) + up = Cardinality(Risks(m)') + down
  BY RisksMove
<1>2. up \in Nat /\ down \in Nat /\ more + up + faults <= gone + down + faults'
  OBVIOUS
<1> HIDE DEF up, down
<1>3. QED
  BY <1>1, <1>2, Account

\* Putting a delivery back, with or without its second message.
LEMMA RequeueIsSound ==
  ASSUME Base, NEW w \in Workers, NEW i \in 1..Len(held[w]), Requeue(w, i),
         held[w][i].at # "ack", faults \in Nat,
         \/ UNCHANGED <<delayed, dead>>
         \/ Place(w, i) /\ held[w][i].at \in {"retry", "dead"}
  PROVE  Sound
<1> DEFINE c == held[w][i].copy
<1>1. TypeOK /\ QueuesFinite /\ FirstOfPost /\ StagesTrue /\ DeadDeserved
  BY DEF Base
<1>2. c \in Copies /\ c.msg \in Messages
  BY <1>1, HeldFields
<1>3. /\ Drop(w, i) /\ main' = More(main, c) /\ session' = [session EXCEPT ![w] = "closing"]
      /\ \/ session[w] = "closing" /\ faults' = faults
         \/ session[w] = "up" /\ faults' = faults + 1
  BY DEF Requeue
<1>4. /\ FirstOfPost' /\ StagesTrue'
      /\ \A m : Busy(w, m)' => Busy(w, m)
      /\ \A m : held[w][i].at # "queued" /\ held[w][i].copy.msg = m => ~Busy(w, m)'
  BY <1>1, <1>3, OrderDrop
<1>5. Others(w) /\ held' \in Deliveries
  BY <1>1, <1>3, DropShape, HeldDrop
<1>6. session'[w] = "closing" /\ \A x \in Workers : x # w => session'[x] = session[x]
  BY <1>1, <1>3 DEF TypeOK
<1>7. Elsewhere(w) /\ \A x \in Workers : session'[x] = "down" => held'[x] = <<>>
  BY <1>1, <1>5, <1>6 DEF Elsewhere, Others, TypeOK
<1>8. main \in Queues /\ delayed \in Queues /\ dead \in Queues
  BY <1>1 DEF TypeOK
<1>9. \A m \in Messages :
        /\ More(main, c) \in Queues /\ IsFiniteSet(InPlaces(More(main, c), m))
        /\ Count(More(main, c), m) = Count(main, m) + Of(c, m)
        /\ Count(main, m) \in Nat /\ Of(c, m) \in Nat
  <2> HIDE DEF c
  <2>1. \A m \in Messages : IsFiniteSet(InPlaces(main, m))
    BY <1>1 DEF QueuesFinite
  <2>2. QED
    BY <1>2, <1>8, <2>1, MoreCount DEF Of
<1>10. \A m \in Messages :
        /\ HeldCount(held, m) \in Nat /\ HeldCount(held', m) \in Nat
        /\ HeldCount(held, m) = HeldCount(held', m) + Of(c, m)
  BY <1>1, <1>3, HeldDrop
<1> DEFINE Placed == Place(w, i) /\ held[w][i].at \in {"retry", "dead"}
           more(m) == IF Placed THEN Of(c, m) ELSE 0
<1>11. /\ delayed' \in Queues /\ dead' \in Queues /\ DeadDeserved'
       /\ \A m \in Messages :
            /\ IsFiniteSet(InPlaces(delayed', m)) /\ IsFiniteSet(InPlaces(dead', m))
            /\ Count(delayed', m) \in Nat /\ Count(dead', m) \in Nat
            /\ Count(delayed', m) + Count(dead', m)
                 = Count(delayed, m) + Count(dead, m) + more(m)
  <2>1. CASE Placed
    BY <2>1, PlaceCounts
  <2>2. CASE ~Placed
    <3>1. delayed' = delayed /\ dead' = dead
      BY <2>2
    <3>2. DeadDeserved'
      BY <1>1, <3>1 DEF DeadDeserved, InQueue
    <3>3. \A m \in Messages :
            /\ IsFiniteSet(InPlaces(delayed, m)) /\ IsFiniteSet(InPlaces(dead, m))
            /\ Count(delayed, m) \in Nat /\ Count(dead, m) \in Nat
      BY <1>1, CountsAreNumbers DEF QueuesFinite
    <3> HIDE DEF Placed
    <3>4. \A m \in Messages : more(m) = 0
      BY <2>2
    <3> HIDE DEF more
    <3>5. QED
      BY <1>8, <3>1, <3>2, <3>3, <3>4
  <2>3. QED
    BY <2>1, <2>2
<1>12. QueuesFinite'
  BY <1>3, <1>9, <1>11 DEF QueuesFinite
<1>13. ASSUME NEW m \in Messages PROVE Pays(m) /\ Keeps(m)
  <2>1. more(m) \in Nat /\ (more(m) # 0 => c.msg = m /\ Placed /\ more(m) = 1)
    BY DEF Of
  <2>2. faults' \in Nat
    BY <1>3
  <2>3. more(m) + (IF AtRisk(w, m)' THEN 1 ELSE 0) + faults
           <= 0 + (IF AtRisk(w, m) THEN 1 ELSE 0) + faults'
    <3>1. AtRisk(w, m)' => Busy(w, m)
      BY <1>4 DEF AtRisk
    <3>2. more(m) # 0 => more(m) = 1 /\ ~AtRisk(w, m)' /\ Busy(w, m)
      <4>1. Placed /\ c.msg = m => Busy(w, m) /\ ~Busy(w, m)'
        BY <1>4 DEF Busy, Working
      <4> HIDE DEF more, Placed, c
      <4>2. QED
        BY <2>1, <4>1 DEF AtRisk
    <3> HIDE DEF more
    <3>3. CASE session[w] = "closing" /\ faults' = faults
      <4>1. AtRisk(w, m) <=> Busy(w, m)
        BY <3>3 DEF AtRisk
      <4>2. QED
        BY <2>1, <3>1, <3>2, <3>3, <4>1
    <3>4. CASE session[w] = "up" /\ faults' = faults + 1
      BY <2>1, <3>2, <3>4
    <3>5. QED
      BY <1>3, <3>3, <3>4
  <2>4. /\ Count(main, m) \in Nat /\ Count(main', m) \in Nat /\ Of(c, m) \in Nat
        /\ Count(main', m) = Count(main, m) + Of(c, m)
        /\ HeldCount(held, m) \in Nat /\ HeldCount(held', m) \in Nat
        /\ HeldCount(held, m) = HeldCount(held', m) + Of(c, m)
        /\ Count(delayed', m) \in Nat /\ Count(dead', m) \in Nat
        /\ Count(delayed', m) + Count(dead', m) = Count(delayed, m) + Count(dead, m) + more(m)
    BY <1>3, <1>9, <1>10, <1>11
  <2>5. Count(delayed, m) \in Nat /\ Count(dead, m) \in Nat
    BY <1>1, CountsAreNumbers
  <2> HIDE DEF more, c, Placed
  <2>6. Count(main', m) + Count(delayed', m) + Count(dead', m) + HeldCount(held', m) + 0
           = Count(main, m) + Count(delayed, m) + Count(dead, m) + HeldCount(held, m) + more(m)
    <3> DEFINE a == Count(main, m)  b == Count(delayed, m)  d == Count(dead, m)
               h == HeldCount(held, m)
               an == Count(main', m)  bn == Count(delayed', m)  dn == Count(dead', m)
               hn == HeldCount(held', m)
               o == Of(c, m)
               e == more(m)
    <3>1. /\ a \in Nat /\ b \in Nat /\ d \in Nat /\ h \in Nat /\ o \in Nat /\ e \in Nat
          /\ an \in Nat /\ bn \in Nat /\ dn \in Nat /\ hn \in Nat
          /\ an = a + o /\ h = hn + o /\ bn + dn = b + d + e
      BY <2>1, <2>4, <2>5
    <3> HIDE DEF a, b, d, h, an, bn, dn, hn, o, e
    <3>2. an + hn = a + h
      BY <3>1
    <3>3. (an + hn) + (bn + dn) = (a + h) + (b + d + e)
      BY <3>1, <3>2
    <3>4. an + bn + dn + hn + 0 = (an + hn) + (bn + dn)
      BY <3>1
    <3>5. a + b + d + h + e = (a + h) + (b + d + e)
      BY <3>1
    <3>6. QED
      BY <3>3, <3>4, <3>5 DEF a, b, d, h, an, bn, dn, hn, e
  <2>7. Count(delayed', m) + Count(dead', m) \in Nat /\ 0 <= more(m) /\ 0 \in Nat
    BY <2>1, <2>4
  <2>8. QED
    BY <1>7, <2>1, <2>2, <2>3, <2>4, <2>6, <2>7, Balance
<1>14. main' \in Queues
  BY <1>2, <1>3, <1>9
<1>15. QED
  BY <1>4, <1>5, <1>7, <1>11, <1>12, <1>13, <1>14 DEF Sound

\* The second message is confirmed: the first is about to be acknowledged.
LEMMA RepublishIsSound ==
  ASSUME Base, NEW w \in Workers, NEW i \in 1..Len(held[w]), Republish(w, i), faults \in Nat
  PROVE  Sound
<1> DEFINE c == held[w][i].copy
<1>1. TypeOK /\ QueuesFinite /\ FirstOfPost /\ StagesTrue /\ DeadDeserved
  BY DEF Base
<1>2. /\ Place(w, i) /\ To(w, i, "ack")
      /\ main' = main /\ session' = session /\ applied' = applied /\ parked' = parked
      /\ faults' = faults
  BY DEF Republish
<1>3. held[w][i].at \in {"retry", "dead"} /\ "ack" \in Stages \ {"queued"}
  BY <1>2 DEF Place, At, Stages
<1>4. FirstOfPost' /\ StagesTrue' /\ \A m : Busy(w, m)' => Busy(w, m)
  BY <1>1, <1>2, <1>3, OrderTo
<1>5. Others(w) /\ held' \in Deliveries
  BY <1>1, <1>2, <1>3, ToShape, HeldTo
<1>6. Elsewhere(w) /\ \A x \in Workers : session'[x] = "down" => held'[x] = <<>>
  BY <1>1, <1>2, <1>5, HasSession DEF Elsewhere, Others, TypeOK
<1>7. /\ delayed' \in Queues /\ dead' \in Queues /\ DeadDeserved'
      /\ \A m \in Messages :
           /\ IsFiniteSet(InPlaces(delayed', m)) /\ IsFiniteSet(InPlaces(dead', m))
           /\ Count(delayed', m) \in Nat /\ Count(dead', m) \in Nat
           /\ Count(delayed', m) + Count(dead', m)
                = Count(delayed, m) + Count(dead, m) + Of(c, m)
  BY <1>2, PlaceCounts
<1>8. QueuesFinite' /\ main' \in Queues
  BY <1>1, <1>2, <1>7 DEF QueuesFinite, TypeOK
<1>9. ASSUME NEW m \in Messages PROVE Pays(m) /\ Keeps(m)
  <2> DEFINE a == Count(main, m)  b == Count(delayed, m)  d == Count(dead, m)
             h == HeldCount(held, m)
             an == Count(main', m)  bn == Count(delayed', m)  dn == Count(dead', m)
             hn == HeldCount(held', m)
             o == Of(c, m)
  <2>1. a \in Nat /\ b \in Nat /\ d \in Nat /\ h \in Nat /\ an = a
    BY <1>1, <1>2, CountsAreNumbers
  <2>2. bn \in Nat /\ dn \in Nat /\ bn + dn = b + d + o /\ o \in Nat
    BY <1>7 DEF Of
  <2>3. hn \in Nat /\ h = hn + o
    BY <1>1, <1>2, <1>3, HeldTo
  <2>4. AtRisk(w, m)' => AtRisk(w, m)
    BY <1>2, <1>4 DEF AtRisk
  <2> HIDE DEF a, b, d, h, an, bn, dn, hn, o
  <2>5. an + bn + dn + hn + 0 = a + b + d + h + 0
    <3>1. bn + dn + hn = b + d + h
      BY <2>1, <2>2, <2>3
    <3>2. QED
      BY <2>1, <2>2, <2>3, <3>1
  <2>6. 0 + (IF AtRisk(w, m)' THEN 1 ELSE 0) + faults
          <= 0 + (IF AtRisk(w, m) THEN 1 ELSE 0) + faults'
    BY <1>2, <2>4
  <2>7. bn + dn \in Nat /\ an \in Nat /\ 0 \in Nat /\ 0 <= 0 /\ faults' \in Nat
    BY <1>2, <2>1, <2>2
  <2>8. QED
    BY <1>6, <2>1, <2>2, <2>3, <2>5, <2>6, <2>7, Balance DEF a, b, d, h, an, bn, dn, hn
<1>10. QED
  BY <1>4, <1>5, <1>6, <1>7, <1>8, <1>9 DEF Sound

\* The acknowledgement: the copy had stopped counting before.
LEMMA AckIsSound ==
  ASSUME Base, NEW w \in Workers, NEW i \in 1..Len(held[w]), Ack(w, i), faults \in Nat
  PROVE  Sound
<1>1. TypeOK /\ QueuesFinite /\ FirstOfPost /\ StagesTrue /\ DeadDeserved
  BY DEF Base
<1>2. /\ held[w][i].at = "ack" /\ Drop(w, i)
      /\ main' = main /\ delayed' = delayed /\ dead' = dead /\ session' = session
      /\ applied' = applied /\ parked' = parked /\ faults' = faults
  BY DEF Ack, At, broker
<1>3. FirstOfPost' /\ StagesTrue' /\ \A m : Busy(w, m)' => Busy(w, m)
  BY <1>1, <1>2, OrderDrop
<1>4. Others(w) /\ held' \in Deliveries
  BY <1>1, <1>2, DropShape, HeldDrop
<1>5. Elsewhere(w) /\ \A x \in Workers : session'[x] = "down" => held'[x] = <<>>
  BY <1>1, <1>2, <1>4, HasSession DEF Elsewhere, Others, TypeOK
<1>6. QueuesFinite' /\ DeadDeserved'
  BY <1>1, <1>2 DEF QueuesFinite, DeadDeserved, InQueue
<1>7. ASSUME NEW m \in Messages PROVE Pays(m) /\ Keeps(m)
  <2> DEFINE a == Count(main, m)  b == Count(delayed, m)  d == Count(dead, m)
             h == HeldCount(held, m)
             an == Count(main', m)  bn == Count(delayed', m)  dn == Count(dead', m)
             hn == HeldCount(held', m)
  <2>1. a \in Nat /\ b \in Nat /\ d \in Nat /\ h \in Nat /\ an = a /\ bn = b /\ dn = d
    BY <1>1, <1>2, CountsAreNumbers
  <2>2. hn \in Nat /\ h = hn
    BY <1>1, <1>2, HeldDrop
  <2>3. AtRisk(w, m)' => AtRisk(w, m)
    BY <1>2, <1>3 DEF AtRisk
  <2> HIDE DEF a, b, d, h, an, bn, dn, hn
  <2>4. an + bn + dn + hn + 0 = a + b + d + h + 0
    BY <2>1, <2>2
  <2>5. 0 + (IF AtRisk(w, m)' THEN 1 ELSE 0) + faults
          <= 0 + (IF AtRisk(w, m) THEN 1 ELSE 0) + faults'
    BY <1>2, <2>3
  <2>6. bn + dn \in Nat /\ 0 \in Nat /\ 0 <= 0 /\ faults' \in Nat
    BY <1>2, <2>1
  <2>7. QED
    BY <1>5, <2>1, <2>2, <2>4, <2>5, <2>6, Balance DEF a, b, d, h, an, bn, dn, hn
<1>8. QED
  BY <1>1, <1>2, <1>3, <1>4, <1>5, <1>6, <1>7 DEF Sound, TypeOK

\* A delivery comes from the queue.
LEMMA ReceiveIsSound ==
  ASSUME Base, NEW w \in Workers, Receive(w), faults \in Nat
  PROVE  Sound
<1>1. TypeOK /\ QueuesFinite /\ FirstOfPost /\ StagesTrue /\ DeadDeserved
  BY DEF Base
<1>2. PICK c \in InQueue(main) :
        /\ main' = Less(main, c)
        /\ held' = [held EXCEPT ![w] = Append(@, [copy |-> c, at |-> "queued"])]
  BY DEF Receive
<1>3. /\ session[w] = "up" /\ Len(held[w]) < Prefetch
      /\ delayed' = delayed /\ dead' = dead /\ session' = session
      /\ applied' = applied /\ parked' = parked /\ faults' = faults
  BY DEF Receive
<1>4. c \in Copies /\ main[c] > 0 /\ main \in Queues
  BY <1>1 DEF InQueue, TypeOK
<1>5. FirstOfPost' /\ StagesTrue'
  BY <1>1, <1>2, <1>4, OrderAppend
<1>6. Others(w)
  BY <1>1, <1>2, <1>4, AppendShape
<1>7. Elsewhere(w) /\ \A x \in Workers : session'[x] = "down" => held'[x] = <<>>
  BY <1>1, <1>3, <1>6 DEF Elsewhere, Others, TypeOK
<1>8. \A m \in Messages :
        /\ Less(main, c) \in Queues /\ IsFiniteSet(InPlaces(Less(main, c), m))
        /\ Count(main, m) = Count(Less(main, c), m) + Of(c, m)
        /\ Count(Less(main, c), m) \in Nat
  BY <1>1, <1>4, LessCount DEF QueuesFinite
<1>9. \A m :
        /\ held' \in Deliveries
        /\ HeldCount(held, m) \in Nat /\ HeldCount(held', m) \in Nat
        /\ HeldCount(held', m) = HeldCount(held, m) + Of(c, m)
  BY <1>1, <1>2, <1>3, <1>4, HeldAppend
<1>10. QueuesFinite' /\ DeadDeserved' /\ main' \in Queues
  <2>1. main' \in Queues
    BY <1>2, <1>4, <1>8 DEF Copies
  <2>2. QED
    BY <1>1, <1>2, <1>3, <1>8, <2>1 DEF QueuesFinite, DeadDeserved, InQueue
<1>11. ASSUME NEW m \in Messages PROVE Pays(m) /\ Keeps(m)
  <2> DEFINE a == Count(main, m)  b == Count(delayed, m)  d == Count(dead, m)
             h == HeldCount(held, m)
             an == Count(main', m)  bn == Count(delayed', m)  dn == Count(dead', m)
             hn == HeldCount(held', m)
             o == Of(c, m)
  <2>1. a \in Nat /\ b \in Nat /\ d \in Nat /\ h \in Nat /\ bn = b /\ dn = d
    BY <1>1, <1>3, CountsAreNumbers
  <2>2. o \in Nat /\ an \in Nat /\ a = an + o
    BY <1>2, <1>8 DEF Of
  <2>3. hn \in Nat /\ hn = h + o
    BY <1>9
  <2>4. ~AtRisk(w, m) /\ ~AtRisk(w, m)'
    BY <1>3 DEF AtRisk
  <2> HIDE DEF a, b, d, h, an, bn, dn, hn, o
  <2>5. an + bn + dn + hn + 0 = a + b + d + h + 0
    BY <2>1, <2>2, <2>3
  <2>6. 0 + (IF AtRisk(w, m)' THEN 1 ELSE 0) + faults
          <= 0 + (IF AtRisk(w, m) THEN 1 ELSE 0) + faults'
    BY <1>3, <2>4
  <2>7. bn + dn \in Nat /\ 0 \in Nat /\ 0 <= 0 /\ faults' \in Nat
    BY <1>3, <2>1
  <2>8. QED
    BY <1>7, <2>1, <2>2, <2>3, <2>5, <2>6, <2>7, Balance DEF a, b, d, h, an, bn, dn, hn
<1>12. QED
  BY <1>1, <1>3, <1>5, <1>7, <1>9, <1>10, <1>11 DEF Sound, TypeOK

\* A session that ends gives everything unacknowledged back to the queue.
LEMMA DownIsSound ==
  ASSUME Base, NEW w \in Workers, Down(w), faults \in Nat,
         \/ faults' = faults /\ \A i \in DOMAIN held[w] : held[w][i].at = "queued"
         \/ faults' = faults + 1
  PROVE  Sound
<1>1. TypeOK /\ QueuesFinite /\ FirstOfPost /\ StagesTrue /\ DeadDeserved
  BY DEF Base
<1>2. /\ held' = [held EXCEPT ![w] = <<>>] /\ session' = [session EXCEPT ![w] = "down"]
      /\ delayed' = delayed /\ dead' = dead /\ applied' = applied /\ parked' = parked
  BY DEF Down
<1>3. FirstOfPost' /\ StagesTrue'
  BY <1>1, <1>2, OrderDown
<1>4. Elsewhere(w) /\ held'[w] = <<>> /\ session'[w] = "down"
  BY <1>1, <1>2 DEF Elsewhere, TypeOK
<1>5. \A x \in Workers : session'[x] = "down" => held'[x] = <<>>
  BY <1>1, <1>4 DEF Elsewhere, TypeOK
<1>6. \A m \in Messages :
        /\ main' \in Queues /\ IsFiniteSet(InPlaces(main', m))
        /\ Count(main, m) \in Nat /\ Cardinality(AllOf(w, m)) \in Nat
        /\ Count(main', m) = Count(main, m) + Cardinality(AllOf(w, m))
  BY <1>1, BackCount DEF QueuesFinite
<1>7. \A m :
        /\ held' \in Deliveries /\ HeldCount(held', m) \in Nat /\ Cardinality(OpenOf(w, m)) \in Nat
        /\ HeldCount(held, m) = HeldCount(held', m) + Cardinality(OpenOf(w, m))
  BY <1>1, <1>2, HeldOfProcess
<1>8. main' \in Queues
  <2>1. CASE Messages = {}
    <3>1. Copies = {}
      BY <2>1 DEF Copies
    <3>2. QED
      BY <3>1 DEF Down, Queues
  <2>2. CASE Messages # {}
    BY <1>6, <2>2
  <2>3. QED
    BY <2>1, <2>2
<1>9. QueuesFinite' /\ DeadDeserved'
  BY <1>1, <1>2, <1>6 DEF QueuesFinite, DeadDeserved, InQueue
<1>10. ASSUME NEW m \in Messages PROVE Pays(m) /\ Keeps(m)
  <2> DEFINE a == Count(main, m)  b == Count(delayed, m)  d == Count(dead, m)
             h == HeldCount(held, m)
             an == Count(main', m)  bn == Count(delayed', m)  dn == Count(dead', m)
             hn == HeldCount(held', m)
             k == Cardinality(AllOf(w, m))
             j == Cardinality(OpenOf(w, m))
             more == k - j
  <2>1. a \in Nat /\ b \in Nat /\ d \in Nat /\ h \in Nat /\ bn = b /\ dn = d
    BY <1>1, <1>2, CountsAreNumbers
  <2>2. k \in Nat /\ an = a + k
    BY <1>6
  <2>3. hn \in Nat /\ j \in Nat /\ h = hn + j
    BY <1>7
  <2>4. j <= k /\ k <= 1 + j
    BY <1>1, AllAndOpen
  <2>5. (\A i \in DOMAIN held[w] : held[w][i].at = "queued") => k = j
    <3> SUFFICES ASSUME \A i \in DOMAIN held[w] : held[w][i].at = "queued" PROVE k = j
      OBVIOUS
    <3>1. \A i \in 1..Len(held[w]) : held[w][i].at # "ack"
      BY <1>1, HeldFields
    <3>2. QED
      BY <1>1, <3>1, AllAndOpen
  <2>6. ~AtRisk(w, m)'
    BY <1>4 DEF AtRisk
  <2> HIDE DEF a, b, d, h, an, bn, dn, hn, k, j
  <2>7. more \in Nat /\ more <= 1 /\ an \in Nat /\ k = j + more
    BY <2>1, <2>2, <2>3, <2>4
  <2>8. (\A i \in DOMAIN held[w] : held[w][i].at = "queued") => more = 0
    BY <2>3, <2>5, <2>7
  <2> HIDE DEF more
  <2>9. an + bn + dn + hn + 0 = a + b + d + h + more
    BY <2>1, <2>2, <2>3, <2>7
  <2>10. more + faults <= faults' /\ faults' \in Nat
    BY <2>7, <2>8
  <2>11. more + (IF AtRisk(w, m)' THEN 1 ELSE 0) + faults
           <= 0 + (IF AtRisk(w, m) THEN 1 ELSE 0) + faults'
    <3> DEFINE f == faults
               g == faults'
               u == IF AtRisk(w, m)' THEN 1 ELSE 0
               v == IF AtRisk(w, m) THEN 1 ELSE 0
    <3>1. u = 0 /\ v \in Nat /\ f \in Nat /\ g \in Nat /\ more + f <= g
      BY <2>6, <2>10
    <3> HIDE DEF f, g, u, v
    <3>2. more + u + f <= 0 + v + g
      BY <2>7, <3>1
    <3>3. QED
      BY <3>2 DEF f, g, u, v
  <2>12. bn + dn \in Nat /\ 0 \in Nat /\ 0 <= more
    BY <2>1, <2>7
  <2>13. QED
    BY <1>4, <2>1, <2>3, <2>7, <2>9, <2>10, <2>11, <2>12, Balance
       DEF a, b, d, h, an, bn, dn, hn
<1>11. held' \in Deliveries
  BY <1>7
<1>12. QED
  BY <1>1, <1>2, <1>3, <1>5, <1>8, <1>9, <1>10, <1>11 DEF Sound, TypeOK

\* A session that opens, or begins to close.
LEMMA SessionIsSound ==
  ASSUME Base, NEW w \in Workers, faults \in Nat, UNCHANGED <<broker, held, applied, parked>>,
         \/ session[w] = "down" /\ session' = [session EXCEPT ![w] = "up"] /\ faults' = faults
         \/ /\ session[w] = "up" /\ session' = [session EXCEPT ![w] = "closing"]
            /\ faults' = faults + 1
  PROVE  Sound
<1>1. TypeOK /\ QueuesFinite /\ FirstOfPost /\ StagesTrue /\ DeadDeserved
  BY DEF Base
<1>2. /\ main' = main /\ delayed' = delayed /\ dead' = dead /\ held' = held
      /\ applied' = applied /\ parked' = parked
  BY DEF broker
<1>3. FirstOfPost' /\ StagesTrue' /\ QueuesFinite' /\ DeadDeserved'
  BY <1>1, <1>2 DEF FirstOfPost, StagesTrue, QueuesFinite, DeadDeserved, InQueue
<1>4. Elsewhere(w) /\ session'[w] \in {"up", "closing"}
  BY <1>1, <1>2 DEF Elsewhere, TypeOK
<1>5. \A x \in Workers : session'[x] = "down" => held'[x] = <<>>
  BY <1>1, <1>2, <1>4 DEF Elsewhere, TypeOK
<1>6. held' \in Deliveries
  BY <1>1, <1>2 DEF TypeOK, Deliveries
<1>7. ASSUME NEW m \in Messages PROVE Pays(m) /\ Keeps(m)
  <2> DEFINE a == Count(main, m)  b == Count(delayed, m)  d == Count(dead, m)
             h == HeldCount(held, m)
             an == Count(main', m)  bn == Count(delayed', m)  dn == Count(dead', m)
             hn == HeldCount(held', m)
  <2>1. /\ a \in Nat /\ b \in Nat /\ d \in Nat /\ h \in Nat
        /\ an = a /\ bn = b /\ dn = d /\ hn = h
    BY <1>1, <1>2, CountsAreNumbers
  <2>2. 0 + (IF AtRisk(w, m)' THEN 1 ELSE 0) + faults
          <= 0 + (IF AtRisk(w, m) THEN 1 ELSE 0) + faults'
    <3>1. CASE faults' = faults
      <4>1. session'[w] = "up"
        BY <1>1, <3>1 DEF TypeOK
      <4>2. ~AtRisk(w, m)'
        BY <4>1 DEF AtRisk
      <4>3. QED
        BY <3>1, <4>2
    <3>2. CASE faults' = faults + 1
      BY <3>2
    <3>3. QED
      BY <3>1, <3>2
  <2> HIDE DEF a, b, d, h, an, bn, dn, hn
  <2>3. an + bn + dn + hn + 0 = a + b + d + h + 0
    BY <2>1
  <2>4. bn + dn \in Nat /\ 0 \in Nat /\ 0 <= 0 /\ faults' \in Nat
    BY <2>1
  <2>5. QED
    BY <1>4, <2>1, <2>2, <2>3, <2>4, Balance DEF a, b, d, h, an, bn, dn, hn
<1>8. QED
  BY <1>1, <1>2, <1>3, <1>5, <1>6, <1>7 DEF Sound, TypeOK

\* The broker alone: a copy more with a failure, or a copy that changes queues.
LEMMA BrokerIsSound ==
  ASSUME Base, faults \in Nat, UNCHANGED <<dead, held, session, applied, parked>>,
         \/ \E x \in Messages : main' = More(main, First(x)) /\ delayed' = delayed
                                /\ faults' = faults + 1
         \/ \E c \in InQueue(delayed) : delayed' = Less(delayed, c) /\ main' = More(main, c)
                                        /\ faults' = faults
  PROVE  Sound
<1>1. TypeOK /\ QueuesFinite /\ FirstOfPost /\ StagesTrue /\ DeadDeserved
  BY DEF Base
<1>2. FirstOfPost' /\ StagesTrue' /\ DeadDeserved'
  BY <1>1 DEF FirstOfPost, StagesTrue, DeadDeserved, InQueue
<1>3. held' \in Deliveries /\ \A x \in Workers : session'[x] = "down" => held'[x] = <<>>
  BY <1>1 DEF TypeOK, Deliveries
<1>4. main \in Queues /\ delayed \in Queues /\ dead \in Queues
  BY <1>1 DEF TypeOK
<1> DEFINE Shift(m, e, f) ==
             /\ IsFiniteSet(InPlaces(main', m)) /\ IsFiniteSet(InPlaces(delayed', m))
             /\ Count(main', m) \in Nat /\ Count(delayed', m) \in Nat
             /\ Count(main', m) = Count(main, m) + e
             /\ Count(delayed, m) = Count(delayed', m) + f
             /\ e \in Nat /\ f \in Nat /\ f <= e /\ e + faults <= f + faults'
<1>5. /\ main' \in Queues /\ delayed' \in Queues /\ faults' \in Nat
      /\ \A m \in Messages : \E e, f \in Nat : Shift(m, e, f)
  <2>1. CASE \E x \in Messages : main' = More(main, First(x)) /\ delayed' = delayed
                                 /\ faults' = faults + 1
    <3>1. PICK x \in Messages : main' = More(main, First(x)) /\ delayed' = delayed
                                /\ faults' = faults + 1
      BY <2>1
    <3> DEFINE c == First(x)
    <3>2. c \in Copies
      BY CopyFields
    <3> HIDE DEF c
    <3>3. \A m \in Messages :
            /\ More(main, c) \in Queues /\ IsFiniteSet(InPlaces(More(main, c), m))
            /\ Count(More(main, c), m) = Count(main, m) + Of(c, m) /\ Count(main, m) \in Nat
      BY <1>1, <1>4, <3>2, MoreCount DEF QueuesFinite
    <3>4. ASSUME NEW m \in Messages PROVE Shift(m, Of(c, m), 0)
      <4>1. Of(c, m) \in Nat /\ Of(c, m) <= 1
        BY DEF Of
      <4>2. Count(delayed, m) \in Nat /\ IsFiniteSet(InPlaces(delayed, m))
        BY <1>1, CountsAreNumbers DEF QueuesFinite
      <4>3. Count(main', m) = Count(main, m) + Of(c, m) /\ IsFiniteSet(InPlaces(main', m))
            /\ Count(main, m) \in Nat
        BY <3>1, <3>3 DEF c
      <4>4. QED
        BY <3>1, <4>1, <4>2, <4>3
    <3>5. \A m \in Messages : Of(c, m) \in Nat
      BY DEF Of
    <3> HIDE DEF Shift
    <3>6. QED
      BY <1>4, <3>1, <3>3, <3>4, <3>5 DEF c
  <2>2. CASE \E c \in InQueue(delayed) : delayed' = Less(delayed, c) /\ main' = More(main, c)
                                         /\ faults' = faults
    <3>1. PICK c \in InQueue(delayed) : delayed' = Less(delayed, c) /\ main' = More(main, c)
                                        /\ faults' = faults
      BY <2>2
    <3>2. c \in Copies /\ delayed[c] > 0 /\ c.msg \in Messages
      BY <3>1, CopyFields DEF InQueue
    <3>3. \A m \in Messages :
            /\ More(main, c) \in Queues /\ IsFiniteSet(InPlaces(More(main, c), m))
            /\ Count(More(main, c), m) = Count(main, m) + Of(c, m) /\ Count(main, m) \in Nat
      BY <1>1, <1>4, <3>2, MoreCount DEF QueuesFinite
    <3>4. \A m \in Messages :
            /\ Less(delayed, c) \in Queues /\ IsFiniteSet(InPlaces(Less(delayed, c), m))
            /\ Count(delayed, m) = Count(Less(delayed, c), m) + Of(c, m)
            /\ Count(Less(delayed, c), m) \in Nat
      BY <1>1, <1>4, <3>2, LessCount DEF QueuesFinite
    <3>5. \A m \in Messages : Of(c, m) \in Nat
      BY DEF Of
    <3>6. \A m \in Messages : Shift(m, Of(c, m), Of(c, m))
      BY <3>1, <3>3, <3>4, <3>5
    <3> HIDE DEF Shift
    <3>7. QED
      BY <3>1, <3>2, <3>3, <3>4, <3>5, <3>6
  <2>3. QED
    BY <2>1, <2>2
<1>6. QueuesFinite'
  BY <1>1, <1>5 DEF QueuesFinite
<1>7. ASSUME NEW m \in Messages PROVE Pays(m) /\ Keeps(m)
  <2>1. PICK e \in Nat, f \in Nat : Shift(m, e, f)
    BY <1>5
  <2> DEFINE a == Count(main, m)  b == Count(delayed, m)  d == Count(dead, m)
             h == HeldCount(held, m)
             an == Count(main', m)  bn == Count(delayed', m)  dn == Count(dead', m)
             hn == HeldCount(held', m)
             r == Cardinality(Risks(m))
             rn == Cardinality(Risks(m)')
  <2>2. /\ a \in Nat /\ b \in Nat /\ d \in Nat /\ h \in Nat /\ r \in Nat
        /\ dn = d /\ hn = h
    BY <1>1, CountsAreNumbers
  <2>3. rn = r
    BY DEF Risks, Busy
  <2>4. an \in Nat /\ bn \in Nat /\ an = a + e /\ b = bn + f /\ f <= e /\ e + faults <= f + faults'
    BY <2>1
  <2> HIDE DEF a, b, d, h, an, bn, dn, hn, r, rn
  <2>5. an + bn + dn + hn + f = a + b + d + h + e
    BY <2>2, <2>4
  <2>6. bn + dn \in Nat /\ rn \in Nat /\ r + 0 = rn + 0 /\ 0 \in Nat
        /\ e + 0 + faults <= f + 0 + faults'
    BY <2>2, <2>3, <2>4
  <2>7. QED
    BY <1>5, <2>2, <2>4, <2>5, <2>6, Account DEF a, b, d, h, an, bn, dn, hn, r, rn
<1>8. QED
  BY <1>2, <1>3, <1>4, <1>5, <1>6, <1>7 DEF Sound

-----------------------------------------------------------------------------
(* The theorems                                                             *)

LEMMA InitIInv == Init => IInv
<1> SUFFICES ASSUME Init PROVE IInv
  OBVIOUS
<1>1. \A w \in Workers : held[w] = <<>> /\ Len(held[w]) = 0
  BY EmptySeq DEF Init
<1>2. 0 \in 0..MaxFaults /\ IsFiniteSet({}) /\ Cardinality({}) = 0
  BY FS_EmptySet
<1>3. TypeOK
  <2>1. main \in Queues /\ delayed \in Queues /\ dead \in Queues
    BY DEF Init, None, Queues
  <2>2. held \in [Workers -> Seq(Slots)] /\ \A w \in Workers : Len(held[w]) <= Prefetch
    <3>1. <<>> \in Seq(Slots)
      BY EmptySeq
    <3>2. QED
      BY <1>1, <3>1 DEF Init
  <2>3. session \in [Workers -> {"up", "closing", "down"}] /\ limit \in [Workers -> Limits]
    BY DEF Init
  <2>4. /\ applied \subseteq Messages \ (Foreign \cup Poison)
        /\ parked \subseteq Foreign /\ IsFiniteSet(parked) /\ Cardinality(parked) <= ParkingRoom
        /\ faults \in 0..MaxFaults
    BY <1>2 DEF Init
  <2>5. QED
    BY <1>1, <2>1, <2>2, <2>3, <2>4 DEF TypeOK
<1>4. FirstOfPost /\ StagesTrue
  BY <1>1 DEF FirstOfPost, StagesTrue
<1>5. DeadDeserved
  BY DEF Init, DeadDeserved, InQueue, None
<1>6. ASSUME NEW m \in Messages
      PROVE  /\ InPlaces(main, m) = {<<First(m), 1>>}
             /\ InPlaces(delayed, m) = {} /\ InPlaces(dead, m) = {}
             /\ HeldPlaces(held, m) = {} /\ Risks(m) = {}
  <2>1. InPlaces(main, m) = {<<First(m), 1>>}
    <3>1. \A c \in Copies : c.msg = m /\ c.attempt = 0 <=> c = First(m)
      BY CopyFields DEF Copies, First
    <3>2. First(m) \in Copies
      BY CopyFields
    <3>3. \A c \in Copies : main[c] = IF c.attempt = 0 THEN 1 ELSE 0
      BY DEF Init
    <3>4. \A c \in Copies : \A k \in 1..main[c] : k = 1 /\ c.attempt = 0
      BY <3>3
    <3>5. 1 \in 1..main[First(m)]
      BY <3>1, <3>2, <3>3
    <3>6. ASSUME NEW p \in InPlaces(main, m) PROVE p = <<First(m), 1>>
      <4>1. PICK c \in Copies : c.msg = m /\ \E k \in 1..main[c] : p = <<c, k>>
        BY PlaceIn
      <4>2. PICK k \in 1..main[c] : p = <<c, k>>
        BY <4>1
      <4>3. QED
        BY <3>1, <3>4, <4>1, <4>2
    <3>7. <<First(m), 1>> \in InPlaces(main, m)
      BY <3>1, <3>2, <3>5, PlaceIn
    <3>8. QED
      BY <3>6, <3>7
  <2>2. \A c \in Copies : delayed[c] = 0 /\ dead[c] = 0
    BY DEF Init, None
  <2>3. InPlaces(delayed, m) = {} /\ InPlaces(dead, m) = {}
    BY <2>2, PlaceIn
  <2>4. HeldPlaces(held, m) = {}
    BY <1>1 DEF HeldPlaces
  <2>5. Risks(m) = {}
    BY DEF Init, Risks
  <2>6. QED
    BY <2>1, <2>3, <2>4, <2>5
<1>7. QueuesFinite
  <2>1. \A m \in Messages : IsFiniteSet({<<First(m), 1>>})
    BY FS_Singleton
  <2>2. QED
    BY <1>2, <1>6, <2>1 DEF QueuesFinite
<1>8. \A m \in Messages : CopiesOf(m) = 1 /\ Cardinality(Risks(m)) = 0
  <2> SUFFICES ASSUME NEW m \in Messages
               PROVE  CopiesOf(m) = 1 /\ Cardinality(Risks(m)) = 0
    OBVIOUS
  <2>1. Cardinality(InPlaces(main, m)) = 1
    BY <1>6, FS_Singleton
  <2>2. /\ Cardinality(InPlaces(delayed, m)) = 0 /\ Cardinality(InPlaces(dead, m)) = 0
        /\ Cardinality(HeldPlaces(held, m)) = 0 /\ Cardinality(Risks(m)) = 0
    BY <1>2, <1>6
  <2>3. QED
    BY <2>1, <2>2 DEF CopiesOf
<1>9. NothingLost /\ FaultsPayForCopies
  BY <1>8 DEF NothingLost, FaultsPayForCopies, Init
<1>10. QED
  BY <1>3, <1>4, <1>5, <1>7, <1>9 DEF IInv

\* A sound step that keeps the other types keeps the whole invariant.
LEMMA SoundStep ==
  ASSUME IInv, Sound, limit' \in [Workers -> Limits],
         session' \in [Workers -> {"up", "closing", "down"}],
         applied' \subseteq Messages \ (Foreign \cup Poison), applied \subseteq applied',
         parked' \subseteq Foreign, IsFiniteSet(parked'), Cardinality(parked') <= ParkingRoom,
         parked \subseteq parked', faults' \in 0..MaxFaults
  PROVE  IInv'
<1>1. TypeOK'
  BY DEF TypeOK, Sound, Deliveries
<1>2. QueuesFinite' /\ FirstOfPost' /\ StagesTrue' /\ DeadDeserved'
  BY DEF Sound
<1>3. NothingLost'
  <2>1. ASSUME NEW m \in Messages PROVE m \in applied' \cup parked' \/ CopiesOf(m)' > 0
    <3>1. m \in applied' \cup parked' \/ CopiesOf(m) <= CopiesOf(m)'
      BY DEF Sound, Keeps
    <3>2. m \in applied \cup parked \/ CopiesOf(m) > 0
      BY DEF IInv, NothingLost
    <3>3. CopiesOf(m) \in Nat
      BY CountsAreNumbers DEF IInv
    <3>4. CopiesOf(m)' \in Nat
      <4>1. TypeOK' /\ QueuesFinite'
        BY <1>1, <1>2
      <4>2. /\ Count(main', m) \in Nat /\ Count(delayed', m) \in Nat /\ Count(dead', m) \in Nat
        BY <1>2, FS_CardinalityType DEF QueuesFinite, Count
      <4>3. held' \in Deliveries
        BY DEF Sound
      <4>4. HeldCount(held', m) \in Nat
        BY <4>3, HeldPlace
      <4>5. QED
        BY <4>2, <4>4, CopiesAfter
    <3> DEFINE x == CopiesOf(m)
               y == CopiesOf(m)'
    <3> HIDE DEF x, y
    <3>5. x \in Nat /\ y \in Nat /\ (x > 0 /\ x <= y => y > 0)
      BY <3>3, <3>4 DEF x, y
    <3>6. QED
      BY <3>1, <3>2, <3>5 DEF x, y
  <2>2. QED
    BY <2>1 DEF NothingLost
<1>4. FaultsPayForCopies'
  <2>1. ASSUME NEW m \in Messages PROVE CopiesOf(m)' + Cardinality(Risks(m)') <= 1 + faults'
    <3> DEFINE x == CopiesOf(m)
               y == CopiesOf(m)'
               r == Cardinality(Risks(m))
               rn == Cardinality(Risks(m)')
               f == faults
               g == faults'
    <3>1. x \in Nat /\ r \in Nat
      BY CountsAreNumbers DEF IInv
    <3>2. y \in Nat
      <4>1. /\ Count(main', m) \in Nat /\ Count(delayed', m) \in Nat /\ Count(dead', m) \in Nat
        BY <1>2, FS_CardinalityType DEF QueuesFinite, Count
      <4>2. held' \in Deliveries
        BY DEF Sound
      <4>3. HeldCount(held', m) \in Nat
        BY <4>2, HeldPlace
      <4>4. QED
        BY <4>1, <4>3, CopiesAfter
    <3>3. rn \in Nat
      BY FS_Subset, FS_CardinalityType DEF Risks
    <3>4. f \in Nat /\ g \in Nat
      BY DEF IInv, TypeOK
    <3>5. y + rn + f <= x + r + g
      BY DEF Sound, Pays
    <3>6. x + r <= 1 + f
      BY DEF IInv, FaultsPayForCopies
    <3> HIDE DEF x, y, r, rn, f, g
    <3>7. y + rn <= 1 + g
      BY <3>1, <3>2, <3>3, <3>4, <3>5, <3>6
    <3>8. QED
      BY <3>7 DEF y, rn, g
  <2>2. QED
    BY <2>1 DEF FaultsPayForCopies
<1>5. QED
  BY <1>1, <1>2, <1>3, <1>4 DEF IInv

\* The steps that handle one delivery.
LEMMA HandlingStep ==
  ASSUME IInv, NEW w \in Workers, NEW i \in 1..Prefetch, Handle(w, i) \/ Mishap(w, i)
  PROVE  IInv'
<1>1. Base /\ TypeOK /\ StagesTrue
  BY DEF IInv, Base
<1>2. /\ faults \in 0..MaxFaults /\ faults \in Nat
      /\ limit \in [Workers -> Limits]
      /\ session \in [Workers -> {"up", "closing", "down"}]
      /\ applied \subseteq Messages \ (Foreign \cup Poison)
      /\ parked \subseteq Foreign /\ IsFiniteSet(parked) /\ Cardinality(parked) <= ParkingRoom
  BY <1>1 DEF TypeOK
<1>3. \A stage : At(w, i, stage) => i \in 1..Len(held[w]) /\ held[w][i].at = stage
  BY <1>1, HeldFields DEF At
<1>4. i \in 1..Len(held[w]) =>
        /\ Msg(w, i) = held[w][i].copy.msg /\ Msg(w, i) \in Messages
        /\ Attempt(w, i) = held[w][i].copy.attempt /\ Attempt(w, i) \in Nat
        /\ held[w][i].copy \in Copies
  BY <1>1, HeldFields, CopyFields, LimitBounds DEF Msg, Attempt
<1>5. limit[w] \in Nat /\ MinLimit \in Nat /\ MinLimit <= limit[w]
  BY <1>2, LimitBounds
<1>6. {"process", "retry", "dead", "ack"} \subseteq Stages \ {"queued"}
  BY DEF Stages
<1>7. CASE Park(w, i)
  <2>1. /\ i \in 1..Len(held[w]) /\ held[w][i].at = "queued" /\ To(w, i, "ack")
        /\ held[w][i].copy.msg \in Foreign /\ parked' = parked \cup {held[w][i].copy.msg}
        /\ Cardinality(parked) < ParkingRoom /\ Startable(w, i)
        /\ UNCHANGED <<broker, session, limit, applied, faults>>
    BY <1>3, <1>4, <1>7 DEF Park, Startable
  <2>2. Sound
    BY <1>1, <1>2, <1>6, <2>1, ToIsSound
  <2>3. IsFiniteSet(parked') /\ Cardinality(parked') <= ParkingRoom
    <3> DEFINE x == held[w][i].copy.msg
    <3>1. parked' = parked \cup {x} /\ Cardinality(parked) < ParkingRoom /\ ParkingRoom \in Nat
      BY <2>1
    <3>2. Cardinality(parked) \in Nat
      BY <1>2, FS_CardinalityType
    <3>3. IsFiniteSet(parked')
      BY <1>2, <3>1, FS_AddElement, Zenon
    <3> HIDE DEF x
    <3>4. parked' \ {x} = parked \ {x}
      BY <3>1
    <3>5. /\ Cardinality(parked') \in Nat
          /\ Cardinality(parked') + (IF x \in parked THEN 1 ELSE 0)
               = Cardinality(parked) + (IF x \in parked' THEN 1 ELSE 0)
      BY <1>2, <3>3, <3>4, DifferInOne
    <3>6. Cardinality(parked') <= Cardinality(parked) + 1
      BY <3>2, <3>5
    <3>7. QED
      BY <3>1, <3>2, <3>3, <3>5, <3>6
  <2>4. QED
    BY <1>2, <2>1, <2>2, <2>3, SoundStep
<1>8. CASE Admit(w, i)
  <2> DEFINE stage == IF Attempt(w, i) > limit[w] THEN "dead" ELSE "process"
  <2>1. /\ i \in 1..Len(held[w]) /\ held[w][i].at = "queued" /\ To(w, i, stage)
        /\ held[w][i].copy.msg \notin Foreign /\ Startable(w, i)
        /\ UNCHANGED <<broker, session, limit, applied, parked, faults>>
    BY <1>3, <1>4, <1>8 DEF Admit, Startable
  <2>2. stage = "dead" => Deserved(held[w][i].copy)
    BY <1>4, <1>5, <2>1 DEF Deserved
  <2>3. stage \in Stages \ {"queued"} /\ stage # "ack"
    BY <1>6
  <2> HIDE DEF stage
  <2>4. Sound
    BY <1>1, <1>2, <2>1, <2>2, <2>3, ToIsSound
  <2>5. QED
    BY <1>2, <2>1, <2>4, SoundStep
<1>9. CASE Succeed(w, i)
  <2>1. /\ i \in 1..Len(held[w]) /\ held[w][i].at = "process" /\ To(w, i, "ack")
        /\ held[w][i].copy.msg \notin Poison /\ applied' = applied \cup {held[w][i].copy.msg}
        /\ UNCHANGED <<broker, session, limit, parked, faults>>
    BY <1>3, <1>4, <1>9 DEF Succeed
  <2>2. Sound
    BY <1>1, <1>2, <1>6, <2>1, ToIsSound
  <2>3. applied' \subseteq Messages \ (Foreign \cup Poison)
    BY <1>1, <1>2, <1>4, <2>1 DEF StagesTrue
  <2>4. QED
    BY <1>2, <2>1, <2>2, <2>3, SoundStep
<1>10. CASE Reject(w, i)
  <2>1. /\ i \in 1..Len(held[w]) /\ held[w][i].at = "process" /\ To(w, i, "dead")
        /\ held[w][i].copy.msg \in Poison
        /\ UNCHANGED <<broker, session, limit, applied, parked, faults>>
    BY <1>3, <1>4, <1>10 DEF Reject
  <2>2. Deserved(held[w][i].copy)
    BY <2>1 DEF Deserved
  <2>3. Sound
    BY <1>1, <1>2, <1>6, <2>1, <2>2, ToIsSound
  <2>4. QED
    BY <1>2, <2>1, <2>3, SoundStep
<1>11. CASE Republish(w, i)
  <2>1. i \in 1..Len(held[w]) /\ UNCHANGED <<session, limit, applied, parked, faults>>
    BY <1>3, <1>11 DEF Republish, Place
  <2>2. Sound
    BY <1>1, <1>2, <1>11, <2>1, RepublishIsSound
  <2>3. QED
    BY <1>2, <2>1, <2>2, SoundStep
<1>12. CASE Ack(w, i)
  <2>1. i \in 1..Len(held[w]) /\ UNCHANGED <<session, limit, applied, parked, faults>>
    BY <1>3, <1>12 DEF Ack
  <2>2. Sound
    BY <1>1, <1>2, <1>12, <2>1, AckIsSound
  <2>3. QED
    BY <1>2, <2>1, <2>2, SoundStep
<1>13. CASE Fail(w, i)
  <2> DEFINE stage == AfterFailure(w, i)
  <2>1. /\ i \in 1..Len(held[w]) /\ held[w][i].at = "process" /\ To(w, i, stage)
        /\ held[w][i].copy.msg \notin Poison
        /\ applied' \in {applied, applied \cup {held[w][i].copy.msg}}
        /\ faults < MaxFaults /\ faults' = faults + 1
        /\ UNCHANGED <<broker, session, limit, parked>>
    BY <1>3, <1>4, <1>13 DEF Fail
  <2>2. stage = "dead" => Deserved(held[w][i].copy)
    BY <1>4, <1>5, <2>1 DEF Deserved, AfterFailure
  <2>3. stage \in Stages \ {"queued"} /\ stage # "ack" /\ stage # "process"
    BY <1>6 DEF AfterFailure
  <2> HIDE DEF stage
  <2>4. faults' \in 0..MaxFaults /\ faults' \in Nat /\ faults <= faults'
    BY <1>2, <2>1
  <2>5. Sound
    BY <1>1, <1>2, <2>1, <2>2, <2>3, <2>4, ToIsSound
  <2>6. applied' \subseteq Messages \ (Foreign \cup Poison) /\ applied \subseteq applied'
    BY <1>1, <1>2, <1>4, <2>1 DEF StagesTrue
  <2>7. QED
    BY <1>2, <2>1, <2>4, <2>5, <2>6, SoundStep
<1>14. ASSUME i \in 1..Len(held[w]), held[w][i].at # "ack", Requeue(w, i),
              \/ UNCHANGED <<delayed, dead>>
              \/ Place(w, i) /\ held[w][i].at \in {"retry", "dead"}
       PROVE  IInv'
  <2>1. Sound
    BY <1>1, <1>2, <1>14, RequeueIsSound
  <2>2. /\ session' = [session EXCEPT ![w] = "closing"]
        /\ UNCHANGED <<limit, applied, parked>>
        /\ faults' = faults \/ (faults < MaxFaults /\ faults' = faults + 1)
    BY <1>14 DEF Requeue
  <2>3. faults' \in 0..MaxFaults /\ session' \in [Workers -> {"up", "closing", "down"}]
    BY <1>2, <2>2
  <2>4. QED
    BY <1>2, <2>1, <2>2, <2>3, SoundStep
<1>15. CASE Unavailable(w, i)
  <2>1. i \in 1..Len(held[w]) /\ held[w][i].at # "ack"
    BY <1>3, <1>15 DEF Unavailable, Startable
  <2>2. QED
    BY <1>14, <1>15, <2>1 DEF Unavailable
<1>16. CASE Unconfirmed(w, i)
  <2>1. i \in 1..Len(held[w]) /\ held[w][i].at \in {"retry", "dead"}
    BY <1>3, <1>16 DEF Unconfirmed
  <2>2. QED
    BY <1>14, <1>16, <2>1 DEF Unconfirmed
<1>17. QED
  BY <1>7, <1>8, <1>9, <1>10, <1>11, <1>12, <1>13, <1>15, <1>16 DEF Handle, Mishap

LEMMA NextIInv == IInv /\ [Next]_vars => IInv'
<1> SUFFICES ASSUME IInv, [Next]_vars PROVE IInv'
  OBVIOUS
<1>1. Base /\ TypeOK
  BY DEF IInv, Base
<1>2. /\ faults \in 0..MaxFaults /\ faults \in Nat
      /\ limit \in [Workers -> Limits]
      /\ session \in [Workers -> {"up", "closing", "down"}]
      /\ applied \subseteq Messages \ (Foreign \cup Poison)
      /\ parked \subseteq Foreign /\ IsFiniteSet(parked) /\ Cardinality(parked) <= ParkingRoom
  BY <1>1 DEF TypeOK
<1>3. CASE UNCHANGED vars
  <2>1. TypeOK'
    BY <1>1, <1>3 DEF TypeOK, vars
  <2>2. FirstOfPost' /\ StagesTrue' /\ QueuesFinite' /\ DeadDeserved'
    BY <1>3 DEF IInv, FirstOfPost, StagesTrue, QueuesFinite, DeadDeserved, InQueue, vars
  <2>3. \A m : CopiesOf(m)' = CopiesOf(m) /\ Risks(m)' = Risks(m)
    BY <1>3 DEF CopiesOf, Risks, Busy, vars
  <2>4. NothingLost' /\ FaultsPayForCopies'
    BY <1>3, <2>3 DEF IInv, NothingLost, FaultsPayForCopies, vars
  <2>5. QED
    BY <2>1, <2>2, <2>4 DEF IInv
<1>4. CASE \E m \in Messages : PublishAgain(m)
  <2>1. /\ \E x \in Messages : main' = More(main, First(x)) /\ delayed' = delayed
                               /\ faults' = faults + 1
        /\ UNCHANGED <<dead, held, session, limit, applied, parked>>
        /\ faults < MaxFaults /\ faults' = faults + 1
    BY <1>4 DEF PublishAgain
  <2>2. Sound
    BY <1>1, <1>2, <2>1, BrokerIsSound
  <2>3. faults' \in 0..MaxFaults
    BY <1>2, <2>1
  <2>4. QED
    BY <1>2, <2>1, <2>2, <2>3, SoundStep
<1>5. CASE \E c \in InQueue(delayed) : Expire(c)
  <2>1. /\ \E c \in InQueue(delayed) : delayed' = Less(delayed, c) /\ main' = More(main, c)
                                       /\ faults' = faults
        /\ UNCHANGED <<dead, held, session, limit, applied, parked, faults>>
    BY <1>5 DEF Expire
  <2>2. Sound
    BY <1>1, <1>2, <2>1, BrokerIsSound
  <2>3. QED
    BY <1>2, <2>1, <2>2, SoundStep
<1>6. ASSUME NEW w \in Workers, Open(w) \/ Shutdown(w) PROVE IInv'
  <2>1. /\ \/ session[w] = "down" /\ session' = [session EXCEPT ![w] = "up"] /\ faults' = faults
           \/ /\ session[w] = "up" /\ session' = [session EXCEPT ![w] = "closing"]
              /\ faults' = faults + 1 /\ faults < MaxFaults
        /\ UNCHANGED <<broker, held, limit, applied, parked>>
    BY <1>6 DEF Open, Shutdown
  <2>2. Sound
    BY <1>1, <1>2, <2>1, SessionIsSound
  <2>3. faults' \in 0..MaxFaults /\ session' \in [Workers -> {"up", "closing", "down"}]
    BY <1>2, <2>1
  <2>4. QED
    BY <1>2, <2>1, <2>2, <2>3, SoundStep
<1>7. ASSUME NEW w \in Workers, Receive(w) PROVE IInv'
  <2>1. UNCHANGED <<session, limit, applied, parked, faults>>
    BY <1>7 DEF Receive
  <2>2. Sound
    BY <1>1, <1>2, <1>7, ReceiveIsSound
  <2>3. QED
    BY <1>2, <2>1, <2>2, SoundStep
<1>8. ASSUME NEW w \in Workers, Close(w) \/ Break(w) PROVE IInv'
  <2>1. /\ Down(w)
        /\ \/ faults' = faults /\ \A i \in DOMAIN held[w] : held[w][i].at = "queued"
           \/ faults' = faults + 1 /\ faults < MaxFaults
    BY <1>8 DEF Close, Break
  <2>2. Sound
    BY <1>1, <1>2, <2>1, DownIsSound
  <2>3. session' = [session EXCEPT ![w] = "down"] /\ UNCHANGED <<limit, applied, parked>>
    BY <2>1 DEF Down
  <2>4. faults' \in 0..MaxFaults /\ session' \in [Workers -> {"up", "closing", "down"}]
    BY <1>2, <2>1, <2>3
  <2>5. QED
    BY <1>2, <2>2, <2>3, <2>4, SoundStep
<1>9. ASSUME NEW w \in Workers, NEW n \in Limits, Reconfigure(w, n) PROVE IInv'
  <2>1. limit' = [limit EXCEPT ![w] = n]
        /\ UNCHANGED <<main, delayed, dead, held, session, applied, parked, faults>>
    BY <1>9 DEF Reconfigure, broker
  <2>2. limit' \in [Workers -> Limits]
    BY <1>2, <2>1
  <2>3. TypeOK'
    BY <1>1, <2>1, <2>2 DEF TypeOK
  <2>4. FirstOfPost' /\ StagesTrue' /\ QueuesFinite' /\ DeadDeserved'
    BY <2>1 DEF IInv, FirstOfPost, StagesTrue, QueuesFinite, DeadDeserved, InQueue
  <2>5. \A m : CopiesOf(m)' = CopiesOf(m) /\ Risks(m)' = Risks(m)
    BY <2>1 DEF CopiesOf, Risks, Busy
  <2>6. NothingLost' /\ FaultsPayForCopies'
    BY <2>1, <2>5 DEF IInv, NothingLost, FaultsPayForCopies
  <2>7. QED
    BY <2>3, <2>4, <2>6 DEF IInv
<1>10. QED
  BY <1>3, <1>4, <1>5, <1>6, <1>7, <1>8, <1>9, HandlingStep DEF Next

\* Every reachable state satisfies the inductive invariant.
THEOREM ConsumerInvariant == Spec => []IInv
BY InitIInv, NextIInv, PTL DEF Spec

\* The types of the queues, the deliveries and the sessions: in particular a
\* process never holds more than its prefetch, and the parking table never
\* more than its capacity.
THEOREM ConsumerTypes == Spec => []TypeOK
<1>1. IInv => TypeOK
  BY DEF IInv
<1>2. QED
  BY <1>1, ConsumerInvariant, PTL

\* A published event has been applied, or is parked, or the broker still has
\* it, for any number of processes, failures and retries.
THEOREM NoEventIsLost == Spec => []NothingLost
<1>1. IInv => NothingLost
  BY DEF IInv
<1>2. QED
  BY <1>1, ConsumerInvariant, PTL

\* Every copy of an event beyond the first has had its own failure.
THEOREM CopiesHaveFaults == Spec => []CopiesNeedFaults
<1>1. IInv => CopiesNeedFaults
  <2> SUFFICES ASSUME IInv, NEW m \in Messages PROVE CopiesOf(m) <= 1 + faults
    BY DEF CopiesNeedFaults
  <2> DEFINE x == CopiesOf(m)
             r == Cardinality(Risks(m))
             f == faults
  <2>1. x \in Nat /\ r \in Nat /\ f \in Nat
    BY CountsAreNumbers DEF IInv, TypeOK
  <2>2. x + r <= 1 + f
    BY DEF IInv, FaultsPayForCopies
  <2> HIDE DEF x, r, f
  <2>3. x <= 1 + f
    BY <2>1, <2>2
  <2>4. QED
    BY <2>3 DEF x, f
<1>2. QED
  BY <1>1, ConsumerInvariant, PTL

\* Nothing is in the dead queue before its attempts are used up, unless it
\* can never be processed.
THEOREM DeadLettersDeserved == Spec => []DeadDeserved
<1>1. IInv => DeadDeserved
  BY DEF IInv
<1>2. QED
  BY <1>1, ConsumerInvariant, PTL
=============================================================================
