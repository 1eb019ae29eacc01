---------------------------- MODULE MonitorProofs ----------------------------
(***************************************************************************)
(* What holds of Monitor's components in every behaviour of MCMonitor, for  *)
(* every value of their constants.  A component is in the state its Init    *)
(* gives it unless `part` names it, so that its invariant needs no case of  *)
(* its own: the steps of the others leave its variables alone.              *)
(***************************************************************************)
EXTENDS MCMonitor, CountingFacts, SequenceTheorems, TLAPS

-----------------------------------------------------------------------------
(* The log path.                                                            *)

Elements(s) == {s[i] : i \in DOMAIN s}
Accepted == Elements(accepted)
Queued == {logged[i].id : i \in DOMAIN logged}
Spooled == Elements(spool)
Sent == Spooled \cup ghosts

Flights == [rec : Log!Record, st : {"none", "send", "accepted", "rejected", "wait"}]
Counts == [logged : 0..MaxLogged, faults : 0..MaxLogFaults]

LogTypes ==
  /\ Log!TypeOK
  /\ flight \in Flights /\ count \in Counts
  /\ ghosts \subseteq Accepted
  /\ \A x \in Accepted : x \in Nat /\ x <= count.logged
  /\ (expired => closed) /\ (phase # "run" => closed)
  /\ phase = "done" => flight.st = "none" /\ logged = <<>>

\* The queue is in the order of logging, behind the record in flight, and that behind
\* everything that has been sent.
QueueInOrder ==
  /\ \A i, j \in DOMAIN logged : i < j => logged[i].id < logged[j].id
  /\ Queued \subseteq Accepted
  /\ \A x \in Sent, y \in Queued : x < y
  /\ flight.st # "none" => /\ flight.rec.id \in Accepted
                           /\ \A y \in Queued : flight.rec.id < y
                           /\ \A x \in Sent : x <= flight.rec.id

\* A request given up whose record has not reached the spool is one of the record in
\* flight, or of the last one before the end: no later record overtakes it.
GhostsInOrder ==
  \A g \in ghosts \ Spooled :
    /\ \A x \in Sent : x <= g
    /\ phase = "done" \/ (flight.st # "none" /\ flight.rec.id = g /\ flight.rec.ok)

AnswersTrue ==
  /\ flight.st = "accepted" => flight.rec.id \in Spooled
  /\ flight.st = "rejected" => ~flight.rec.ok

FirstsInOrder ==
  /\ \A j \in DOMAIN spool :
       Log!FirstCopy(j) => \A i \in 1..(j - 1) : spool[i] < spool[j]
  /\ Spooled \subseteq Accepted

Kept ==
  \A x \in Accepted : \/ x \in Spooled \/ x \in refused \/ expired \/ x \in Queued
                      \/ flight.st # "none" /\ flight.rec.id = x

\* The inductive invariant of the log path.
LogInv ==
  /\ LogTypes /\ QueueInOrder /\ GhostsInOrder /\ AnswersTrue /\ FirstsInOrder /\ Kept

LEMMA AppendElements ==
  ASSUME NEW S, NEW s \in Seq(S), NEW e \in S
  PROVE  /\ Append(s, e) \in Seq(S) /\ Len(Append(s, e)) = Len(s) + 1
         /\ Elements(Append(s, e)) = Elements(s) \cup {e}
<1>1. /\ Append(s, e) \in Seq(S) /\ Len(Append(s, e)) = Len(s) + 1
      /\ DOMAIN Append(s, e) = 1..(Len(s) + 1) /\ DOMAIN s = 1..Len(s) /\ Len(s) \in Nat
      /\ \A i \in 1..Len(s) : Append(s, e)[i] = s[i]
      /\ Append(s, e)[Len(s) + 1] = e
  OBVIOUS
<1>2. QED
  BY <1>1 DEF Elements

LEMMA LogInit == Log!Init => LogInv
<1> SUFFICES ASSUME Log!Init PROVE LogInv
  OBVIOUS
<1> USE LogAssumption DEF Log!Init, Log!NoFlight, Log!Record
<1>1. Accepted = {} /\ Queued = {} /\ Spooled = {} /\ Sent = {}
  BY DEF Accepted, Queued, Spooled, Sent, Elements
<1>2. flight \in Flights /\ count \in Counts
  BY DEF Flights, Counts
<1>3. LogTypes
  <2>1. logged \in Seq(Log!Record) /\ Len(logged) = 0
    OBVIOUS
  <2>2. accepted \in Seq(1..MaxLogged) /\ spool \in Seq(1..MaxLogged)
    OBVIOUS
  <2>3. Log!TypeOK
    <3>1. Len(logged) <= LogCapacity
      BY <2>1
    <3>2. {closed, expired} \subseteq BOOLEAN /\ phase \in {"run", "drain", "done"}
      OBVIOUS
    <3>3. flight.rec \in Log!Record /\ flight.st = "none"
      BY <1>2 DEF Flights
    <3>4. QED
      BY <2>1, <2>2, <3>1, <3>2, <3>3 DEF Log!TypeOK
  <2>4. QED
    BY <1>1, <1>2, <2>3 DEF LogTypes
<1>4. QueueInOrder /\ GhostsInOrder /\ AnswersTrue
  BY <1>1 DEF QueueInOrder, GhostsInOrder, AnswersTrue
<1>5. FirstsInOrder /\ Kept
  BY <1>1 DEF FirstsInOrder, Kept
<1>6. QED
  BY <1>3, <1>4, <1>5 DEF LogInv

\* What the types say of the sets, without the sequences.
LEMMA LogSets ==
  ASSUME LogTypes
  PROVE  /\ Accepted \subseteq Nat /\ flight \in Flights /\ flight.rec \in Log!Record
         /\ flight.rec.id \in 1..MaxLogged /\ flight.rec.ok \in BOOLEAN
         /\ count \in Counts /\ count.logged \in Nat
BY LogAssumption DEF LogTypes, Flights, Counts, Log!Record

LEMMA LogEnqueue == LogInv /\ Log!Enqueue => LogInv'
<1> SUFFICES ASSUME LogInv, Log!Enqueue PROVE LogInv'
  OBVIOUS
<1> DEFINE n == count.logged + 1
<1>1. LogTypes /\ QueueInOrder /\ GhostsInOrder /\ AnswersTrue /\ FirstsInOrder /\ Kept
  BY DEF LogInv
<1>2. /\ UNCHANGED <<flight, closed, phase, expired, refused, spool, ghosts>>
      /\ count' = [count EXCEPT !.logged = @ + 1] /\ count.logged < MaxLogged
  BY DEF Log!Enqueue
<1>3. count' \in Counts /\ count'.logged = n /\ n \in 1..MaxLogged /\ n > count.logged
  BY <1>1, <1>2, LogSets, LogAssumption DEF Counts
<1>4. Spooled' = Spooled /\ Sent' = Sent
  BY <1>2 DEF Spooled, Sent
<1>5. CASE UNCHANGED <<logged, accepted>>
  <2>1. Accepted' = Accepted /\ Queued' = Queued
    BY <1>5 DEF Accepted, Queued
  <2>2. LogTypes'
    BY <1>1, <1>2, <1>3, <1>5, <2>1, LogSets DEF LogTypes, Log!TypeOK
  <2>3. QueueInOrder' /\ GhostsInOrder' /\ AnswersTrue' /\ FirstsInOrder' /\ Kept'
    BY <1>1, <1>2, <1>4, <1>5, <2>1
       DEF QueueInOrder, GhostsInOrder, AnswersTrue, FirstsInOrder, Kept, Log!FirstCopy
  <2>4. QED
    BY <2>2, <2>3 DEF LogInv
<1>6. CASE \E ok \in BOOLEAN : /\ ~closed /\ Len(logged) < LogCapacity
                               /\ logged' = Append(logged, [id |-> n, ok |-> ok])
                               /\ accepted' = Append(accepted, n)
  <2>1. PICK ok \in BOOLEAN : /\ ~closed /\ Len(logged) < LogCapacity
                              /\ logged' = Append(logged, [id |-> n, ok |-> ok])
                              /\ accepted' = Append(accepted, n)
    BY <1>6
  <2> DEFINE r == [id |-> n, ok |-> ok]
  <2>2. r \in Log!Record /\ r.id = n
    BY <1>3 DEF Log!Record
  <2>3. logged \in Seq(Log!Record) /\ accepted \in Seq(1..MaxLogged) /\ Len(logged) \in Nat
    BY <1>1 DEF LogTypes, Log!TypeOK
  <2>4. logged' = Append(logged, r)
    BY <2>1
  <2> HIDE DEF r, n
  <2>5. /\ accepted' \in Seq(1..MaxLogged) /\ Accepted' = Accepted \cup {n}
    <3>1. accepted' = Append(accepted, n)
      BY <2>1
    <3> HIDE DEF n
    <3>2. n \in 1..MaxLogged
      BY <1>3
    <3>3. /\ Append(accepted, n) \in Seq(1..MaxLogged)
          /\ Elements(Append(accepted, n)) = Elements(accepted) \cup {n}
      <4>1. \A S : accepted \in Seq(S) /\ n \in S =>
                     /\ Append(accepted, n) \in Seq(S)
                     /\ Elements(Append(accepted, n)) = Elements(accepted) \cup {n}
        BY AppendElements
      <4>2. QED
        BY <2>3, <3>2, <4>1
    <3>4. QED
      BY <3>1, <3>3 DEF Accepted
  <2>6. /\ logged' \in Seq(Log!Record) /\ Len(logged') = Len(logged) + 1
        /\ DOMAIN logged' = 1..(Len(logged) + 1) /\ DOMAIN logged = 1..Len(logged)
        /\ \A i \in 1..Len(logged) : logged'[i] = logged[i]
        /\ logged'[Len(logged) + 1] = r
    BY <2>2, <2>3, <2>4
  <2>7. Queued' = Queued \cup {n}
    BY <2>2, <2>3, <2>6 DEF Queued
  <2>8. \A x \in Accepted : x \in Nat /\ x < n
    BY <1>1, <1>3, LogSets DEF LogTypes
  <2>9. LogTypes'
    <3>1. Log!TypeOK'
      BY <1>1, <1>2, <2>1, <2>3, <2>5, <2>6, LogAssumption DEF LogTypes, Log!TypeOK
    <3>2. QED
      BY <3>1, <1>1, <1>2, <1>3, <2>1, <2>5, <2>8 DEF LogTypes
  <2>10. Sent \subseteq Accepted
    BY <1>1 DEF Sent, LogTypes, FirstsInOrder
  <2>11. QueueInOrder'
    <3>1. \A i \in 1..Len(logged) : logged[i].id < n
      BY <1>1, <2>6, <2>8 DEF Queued, QueueInOrder
    <3>2. \A i, j \in DOMAIN logged' : i < j => logged'[i].id < logged'[j].id
      BY <1>1, <2>2, <2>3, <2>6, <3>1 DEF QueueInOrder
    <3>3. QED
      BY <1>1, <1>2, <1>4, <2>5, <2>7, <2>8, <2>10, <3>2 DEF QueueInOrder
  <2>12. GhostsInOrder' /\ AnswersTrue' /\ FirstsInOrder'
    BY <1>1, <1>2, <1>4, <2>5 DEF GhostsInOrder, AnswersTrue, FirstsInOrder, Log!FirstCopy
  <2>13. Kept'
    BY <1>1, <1>2, <1>4, <2>5, <2>7 DEF Kept
  <2>14. QED
    BY <2>9, <2>11, <2>12, <2>13 DEF LogInv
<1>7. QED
  BY <1>5, <1>6 DEF Log!Enqueue

LEMMA LogClose == LogInv /\ (Log!Close \/ Log!Expire \/ Log!Closing \/ Log!Drained) => LogInv'
<1> SUFFICES ASSUME LogInv, Log!Close \/ Log!Expire \/ Log!Closing \/ Log!Drained
             PROVE LogInv'
  OBVIOUS
<1>1. LogTypes /\ QueueInOrder /\ GhostsInOrder /\ AnswersTrue /\ FirstsInOrder /\ Kept
  BY DEF LogInv
<1>2. UNCHANGED <<logged, flight, accepted, refused, spool, ghosts, count>>
  BY DEF Log!Close, Log!Expire, Log!Closing, Log!Drained
<1>3. /\ closed' \in BOOLEAN /\ (closed => closed')
      /\ expired' \in BOOLEAN /\ (expired => expired') /\ (expired' => expired \/ closed')
      /\ phase' \in {"run", "drain", "done"} /\ (phase' # "run" => closed')
      /\ phase' = "done" => flight.st = "none" /\ logged = <<>>
      /\ phase = "done" => phase' = "done"
  <2> DEFINE P == /\ closed' \in BOOLEAN /\ (closed => closed')
                  /\ expired' \in BOOLEAN /\ (expired => expired') /\ (expired' => expired \/ closed')
                  /\ phase' \in {"run", "drain", "done"} /\ (phase' # "run" => closed')
                  /\ phase' = "done" => flight.st = "none" /\ logged = <<>>
                  /\ phase = "done" => phase' = "done"
  <2>1. /\ closed \in BOOLEAN /\ expired \in BOOLEAN /\ phase \in {"run", "drain", "done"}
        /\ (expired => closed) /\ (phase # "run" => closed)
        /\ phase = "done" => flight.st = "none" /\ logged = <<>>
    BY <1>1 DEF LogTypes, Log!TypeOK
  <2>2. CASE Log!Close
    BY <2>1, <2>2 DEF Log!Close
  <2>3. CASE Log!Expire
    BY <2>1, <2>3 DEF Log!Expire
  <2>4. CASE Log!Closing
    BY <2>1, <2>4 DEF Log!Closing
  <2>5. CASE Log!Drained
    BY <2>1, <2>5 DEF Log!Drained
  <2>6. QED
    BY <2>2, <2>3, <2>4, <2>5
<1>4. Accepted' = Accepted /\ Queued' = Queued /\ Spooled' = Spooled /\ Sent' = Sent
  BY <1>2 DEF Accepted, Queued, Spooled, Sent
<1>5. LogTypes'
  BY <1>1, <1>2, <1>3, <1>4 DEF LogTypes, Log!TypeOK
<1>6. QueueInOrder' /\ GhostsInOrder' /\ AnswersTrue' /\ FirstsInOrder' /\ Kept'
  BY <1>1, <1>2, <1>3, <1>4
     DEF QueueInOrder, GhostsInOrder, AnswersTrue, FirstsInOrder, Kept, Log!FirstCopy
<1>7. QED
  BY <1>5, <1>6 DEF LogInv

\* The record that leaves the queue is before the others and behind all that was sent.
LEMMA LogTake == LogInv /\ Log!Take => LogInv'
<1> SUFFICES ASSUME LogInv, Log!Take PROVE LogInv'
  OBVIOUS
<1>1. LogTypes /\ QueueInOrder /\ GhostsInOrder /\ AnswersTrue /\ FirstsInOrder /\ Kept
  BY DEF LogInv
<1>2. /\ phase \in {"run", "drain"} /\ flight.st = "none" /\ logged # <<>>
      /\ flight' = [rec |-> Head(logged), st |-> "send"] /\ logged' = Tail(logged)
      /\ UNCHANGED <<closed, phase, expired, accepted, refused, spool, ghosts, count>>
  BY DEF Log!Take
<1>3. logged \in Seq(Log!Record) /\ Len(logged) <= LogCapacity /\ Len(logged) \in Nat \ {0}
  BY <1>1, <1>2 DEF LogTypes, Log!TypeOK
<1>4. /\ logged' \in Seq(Log!Record) /\ Len(logged') = Len(logged) - 1
      /\ DOMAIN logged = 1..Len(logged) /\ DOMAIN logged' = 1..(Len(logged) - 1)
      /\ \A i \in 1..(Len(logged) - 1) : logged'[i] = logged[i + 1]
      /\ Head(logged) = logged[1] /\ logged[1] \in Log!Record
  BY <1>2, <1>3
<1>5. /\ flight'.rec = logged[1] /\ flight'.st = "send" /\ flight' \in Flights
  BY <1>2, <1>4 DEF Flights
<1>6. Accepted' = Accepted /\ Spooled' = Spooled /\ Sent' = Sent
  BY <1>2 DEF Accepted, Spooled, Sent
<1> DEFINE x == logged[1].id
<1>7. x \in 1..MaxLogged
  BY <1>4 DEF Log!Record
<1>8. /\ x \in Queued /\ Queued' \subseteq Queued /\ Queued = Queued' \cup {x}
      /\ \A y \in Queued' : x < y
  <2>1. x \in Queued
    BY <1>3, <1>4 DEF Queued
  <2>2. \A y \in Queued' : y \in Queued /\ x < y
    <3>1. TAKE y \in Queued'
    <3>2. PICK i \in 1..(Len(logged) - 1) : y = logged'[i].id
      BY <1>4 DEF Queued
    <3>3. i + 1 \in 1..Len(logged) /\ 1 \in 1..Len(logged) /\ 1 < i + 1
      BY <1>3
    <3>4. y = logged[i + 1].id
      BY <1>4, <3>2
    <3>5. QED
      BY <1>1, <1>4, <3>3, <3>4 DEF QueueInOrder, Queued
  <2>3. \A y \in Queued : y = x \/ y \in Queued'
    <3>1. TAKE y \in Queued
    <3>2. PICK i \in 1..Len(logged) : y = logged[i].id
      BY <1>4 DEF Queued
    <3>3. CASE i = 1
      BY <3>2, <3>3
    <3>4. CASE i # 1
      <4>1. i - 1 \in 1..(Len(logged) - 1) /\ (i - 1) + 1 = i
        BY <1>3, <3>4
      <4>2. logged'[i - 1] = logged[i]
        BY <1>4, <4>1
      <4>3. QED
        BY <1>4, <3>2, <4>1, <4>2 DEF Queued
    <3>5. QED
      BY <3>3, <3>4
  <2>4. QED
    BY <2>1, <2>2, <2>3
<1>9. flight'.rec.id = x
  BY <1>5
<1> HIDE DEF x
<1>10. LogTypes'
  <2>1. Log!TypeOK'
    BY <1>1, <1>2, <1>3, <1>4, <1>5, LogAssumption DEF LogTypes, Log!TypeOK, Flights
  <2>2. QED
    BY <2>1, <1>1, <1>2, <1>5, <1>6 DEF LogTypes
<1>11. QueueInOrder'
  <2>1. \A i, j \in DOMAIN logged' : i < j => logged'[i].id < logged'[j].id
    <3>1. TAKE i, j \in DOMAIN logged'
    <3>2. /\ i \in 1..(Len(logged) - 1) /\ j \in 1..(Len(logged) - 1)
          /\ i + 1 \in 1..Len(logged) /\ j + 1 \in 1..Len(logged)
      BY <1>3, <1>4
    <3>3. i < j => logged[i + 1].id < logged[j + 1].id
      BY <1>1, <1>4, <3>2 DEF QueueInOrder
    <3>4. QED
      BY <1>4, <3>2, <3>3
  <2>2. \A y \in Sent : y \in Nat /\ y < x
    BY <1>1, <1>8, LogSets DEF QueueInOrder, Sent, FirstsInOrder, LogTypes
  <2>3. QED
    BY <1>1, <1>6, <1>7, <1>8, <1>9, <2>1, <2>2 DEF QueueInOrder
<1>12. GhostsInOrder' /\ AnswersTrue' /\ FirstsInOrder'
  BY <1>1, <1>2, <1>5, <1>6 DEF GhostsInOrder, AnswersTrue, FirstsInOrder, Log!FirstCopy
<1>13. Kept'
  BY <1>1, <1>2, <1>5, <1>6, <1>8, <1>9 DEF Kept
<1>14. QED
  BY <1>10, <1>11, <1>12, <1>13 DEF LogInv

\* What a step that changes only the request of the record in flight keeps.
LEMMA LogRequest ==
  ASSUME LogTypes, NEW st \in {"send", "accepted", "rejected", "wait"},
         flight' = [flight EXCEPT !.st = st]
  PROVE  flight' \in Flights /\ flight'.rec = flight.rec /\ flight'.st = st
BY LogSets DEF Flights

LEMMA LogRetry == LogInv /\ Log!Retry => LogInv'
<1> SUFFICES ASSUME LogInv, Log!Retry PROVE LogInv'
  OBVIOUS
<1>1. LogTypes /\ QueueInOrder /\ GhostsInOrder /\ AnswersTrue /\ FirstsInOrder /\ Kept
  BY DEF LogInv
<1>2. /\ flight.st = "wait" /\ flight' = [flight EXCEPT !.st = "send"]
      /\ UNCHANGED <<logged, closed, phase, expired, accepted, refused, spool, ghosts, count>>
  BY DEF Log!Retry
<1>3. flight' \in Flights /\ flight'.rec = flight.rec /\ flight'.st = "send"
  BY <1>1, <1>2, LogRequest
<1>4. Accepted' = Accepted /\ Queued' = Queued /\ Spooled' = Spooled /\ Sent' = Sent
  BY <1>2 DEF Accepted, Queued, Spooled, Sent
<1>5. LogTypes'
  BY <1>1, <1>2, <1>3, <1>4, LogSets DEF LogTypes, Log!TypeOK
<1>6. QueueInOrder' /\ GhostsInOrder' /\ AnswersTrue' /\ FirstsInOrder' /\ Kept'
  BY <1>1, <1>2, <1>3, <1>4
     DEF QueueInOrder, GhostsInOrder, AnswersTrue, FirstsInOrder, Kept, Log!FirstCopy
<1>7. QED
  BY <1>5, <1>6 DEF LogInv

\* A request that fails, or is given up with the end of the process, may leave a ghost
\* of the record in flight.
LEMMA LogSendFails == LogInv /\ Log!SendFails => LogInv'
<1> SUFFICES ASSUME LogInv, Log!SendFails PROVE LogInv'
  OBVIOUS
<1>1. LogTypes /\ QueueInOrder /\ GhostsInOrder /\ AnswersTrue /\ FirstsInOrder /\ Kept
  BY DEF LogInv
<1>2. /\ flight.st \in {"send", "accepted", "rejected"}
      /\ flight' = [flight EXCEPT !.st = "wait"]
      /\ \/ ghosts' = ghosts
         \/ flight.rec.ok /\ ghosts' = ghosts \cup {flight.rec.id}
      /\ count.faults < MaxLogFaults /\ count' = [count EXCEPT !.faults = @ + 1]
      /\ UNCHANGED <<logged, closed, phase, expired, accepted, refused, spool>>
  BY DEF Log!SendFails, Log!Fault
<1>3. flight' \in Flights /\ flight'.rec = flight.rec /\ flight'.st = "wait"
  BY <1>1, <1>2, LogRequest
<1>4. count' \in Counts /\ count'.logged = count.logged
  BY <1>1, <1>2, LogSets, LogAssumption DEF Counts
<1>5. Accepted' = Accepted /\ Queued' = Queued /\ Spooled' = Spooled
  BY <1>2 DEF Accepted, Queued, Spooled
<1>6. /\ flight.rec.id \in Accepted /\ flight.rec.id \in Nat
      /\ ghosts' \subseteq ghosts \cup {flight.rec.id}
      /\ Sent' \subseteq Sent \cup {flight.rec.id}
  BY <1>1, <1>2, <1>5, LogSets DEF QueueInOrder, Sent
<1>7. LogTypes'
  BY <1>1, <1>2, <1>3, <1>4, <1>5, <1>6, LogSets DEF LogTypes, Log!TypeOK
<1>8. QueueInOrder'
  BY <1>1, <1>2, <1>3, <1>5, <1>6 DEF QueueInOrder
<1>9. GhostsInOrder'
  <2> SUFFICES ASSUME NEW g \in ghosts' \ Spooled'
               PROVE  /\ \A x \in Sent' : x <= g
                      /\ flight.rec.id = g /\ flight.rec.ok
    BY <1>3 DEF GhostsInOrder
  <2>1. \A x \in Sent \cup {flight.rec.id} : x <= flight.rec.id
    BY <1>1, <1>2, <1>6 DEF QueueInOrder
  <2>2. CASE g \in ghosts
    <3>1. flight.rec.id = g /\ flight.rec.ok
      BY <1>1, <1>2, <1>5, <2>2 DEF GhostsInOrder, LogTypes
    <3>2. QED
      BY <1>6, <2>1, <3>1
  <2>3. CASE g \notin ghosts
    BY <1>2, <1>6, <2>1, <2>3
  <2>4. QED
    BY <2>2, <2>3
<1>10. AnswersTrue' /\ FirstsInOrder'
  BY <1>1, <1>2, <1>3, <1>5 DEF AnswersTrue, FirstsInOrder, Log!FirstCopy
<1>11. Kept'
  BY <1>1, <1>2, <1>3, <1>5 DEF Kept
<1>12. QED
  BY <1>7, <1>8, <1>9, <1>10, <1>11 DEF LogInv

LEMMA LogGiveUp == LogInv /\ Log!GiveUp => LogInv'
<1> SUFFICES ASSUME LogInv, Log!GiveUp PROVE LogInv'
  OBVIOUS
<1>1. LogTypes /\ QueueInOrder /\ GhostsInOrder /\ AnswersTrue /\ FirstsInOrder /\ Kept
  BY DEF LogInv
<1>2. /\ expired /\ phase' = "done" /\ flight' = Log!NoFlight /\ logged' = <<>>
      /\ \/ ghosts' = ghosts
         \/ flight.st = "send" /\ flight.rec.ok /\ ghosts' = ghosts \cup {flight.rec.id}
      /\ UNCHANGED <<closed, expired, accepted, refused, spool, count>>
  BY DEF Log!GiveUp
<1>3. flight' \in Flights /\ flight'.st = "none"
  BY <1>2, LogAssumption DEF Flights, Log!NoFlight, Log!Record
<1>4. Accepted' = Accepted /\ Queued' = {} /\ Spooled' = Spooled
  BY <1>2 DEF Accepted, Queued, Spooled
<1>5. ghosts' \subseteq Accepted /\ Sent' = Spooled \cup ghosts'
  BY <1>1, <1>2, <1>4 DEF QueueInOrder, LogTypes, Sent
<1>6. LogTypes'
  <2>1. logged' \in Seq(Log!Record) /\ Len(logged') = 0
    BY <1>2
  <2>2. Log!TypeOK'
    BY <1>1, <1>2, <1>3, <2>1, LogAssumption DEF LogTypes, Log!TypeOK, Flights
  <2>3. QED
    BY <1>1, <1>2, <1>3, <1>4, <1>5, <2>2 DEF LogTypes
<1>7. QueueInOrder'
  BY <1>2, <1>3, <1>4 DEF QueueInOrder
<1>8. GhostsInOrder'
  <2>1. CASE ghosts' = ghosts
    BY <1>1, <1>2, <1>4, <1>5, <2>1 DEF GhostsInOrder, Sent
  <2>2. CASE flight.st = "send" /\ flight.rec.ok /\ ghosts' = ghosts \cup {flight.rec.id}
    <3>1. Sent' \subseteq Sent \cup {flight.rec.id} /\ flight.rec.id \in Nat
      BY <1>1, <1>5, <2>2, LogSets DEF Sent
    <3>2. \A x \in Sent' : x <= flight.rec.id
      BY <1>1, <2>2, <3>1 DEF QueueInOrder
    <3>3. phase # "done"
      BY <1>1, <2>2 DEF LogTypes
    <3>4. \A g \in ghosts' \ Spooled' : g = flight.rec.id
      BY <1>1, <1>4, <2>2, <3>3 DEF GhostsInOrder
    <3>5. QED
      BY <1>2, <3>2, <3>4 DEF GhostsInOrder
  <2>3. QED
    BY <1>2, <2>1, <2>2
<1>9. AnswersTrue' /\ FirstsInOrder' /\ Kept'
  BY <1>1, <1>2, <1>3, <1>4 DEF AnswersTrue, FirstsInOrder, Kept, Log!FirstCopy
<1>10. QED
  BY <1>6, <1>7, <1>8, <1>9 DEF LogInv

\* A record is answered for once it is on the spool or refused for good; no ghost that
\* could overtake a later record is left.
LEMMA LogAnswer == LogInv /\ Log!Answer => LogInv'
<1> SUFFICES ASSUME LogInv, Log!Answer PROVE LogInv'
  OBVIOUS
<1>1. LogTypes /\ QueueInOrder /\ GhostsInOrder /\ AnswersTrue /\ FirstsInOrder /\ Kept
  BY DEF LogInv
<1>2. /\ flight.st \in {"accepted", "rejected"} /\ flight' = Log!NoFlight
      /\ refused \subseteq refused' /\ (flight.st = "rejected" => flight.rec.id \in refused')
      /\ UNCHANGED <<logged, closed, phase, expired, accepted, spool, ghosts, count>>
  BY DEF Log!Answer
<1>3. flight' \in Flights /\ flight'.st = "none"
  BY <1>2, LogAssumption DEF Flights, Log!NoFlight, Log!Record
<1>4. Accepted' = Accepted /\ Queued' = Queued /\ Spooled' = Spooled /\ Sent' = Sent
  BY <1>2 DEF Accepted, Queued, Spooled, Sent
<1>5. LogTypes'
  <2>1. Log!TypeOK'
    BY <1>1, <1>2, <1>3 DEF LogTypes, Log!TypeOK, Flights
  <2>2. QED
    BY <1>1, <1>2, <1>3, <1>4, <2>1 DEF LogTypes
<1>6. QueueInOrder' /\ AnswersTrue' /\ FirstsInOrder'
  BY <1>1, <1>2, <1>3, <1>4 DEF QueueInOrder, AnswersTrue, FirstsInOrder, Log!FirstCopy
<1>7. GhostsInOrder'
  BY <1>1, <1>2, <1>4 DEF GhostsInOrder, AnswersTrue
<1>8. Kept'
  BY <1>1, <1>2, <1>3, <1>4 DEF Kept, AnswersTrue
<1>9. QED
  BY <1>5, <1>6, <1>7, <1>8 DEF LogInv

\* The record in flight, or a ghost, reaches the spool: everything on it is of records
\* logged before, or is the same record.
LEMMA LogArrives ==
  ASSUME LogTypes, FirstsInOrder, NEW x \in Accepted,
         x \in Spooled \/ \A y \in Spooled : y <= x,
         spool' = Append(spool, x), UNCHANGED accepted
  PROVE  /\ Accepted' = Accepted /\ Spooled' = Spooled \cup {x}
         /\ spool' \in Seq(1..MaxLogged) /\ FirstsInOrder'
<1> DEFINE S == 1..MaxLogged
           n == Len(spool)
<1>1. spool \in Seq(S) /\ x \in S /\ n \in Nat
  <2>1. spool \in Seq(S) /\ accepted \in Seq(S)
    BY DEF LogTypes, Log!TypeOK
  <2>2. PICK i \in DOMAIN accepted : x = accepted[i]
    BY DEF Accepted, Elements
  <2> HIDE DEF S
  <2>3. QED
    BY <2>1, <2>2
<1>2. x \in Nat /\ \A i \in 1..n : spool[i] \in Nat /\ spool[i] \in Spooled
  BY <1>1, LogAssumption DEF Spooled, Elements
<1> HIDE DEF S
<1>3. /\ spool' \in Seq(S) /\ Len(spool') = n + 1 /\ DOMAIN spool' = 1..(n + 1)
      /\ DOMAIN spool = 1..n
      /\ \A i \in 1..n : spool'[i] = spool[i]
      /\ spool'[n + 1] = x
  BY <1>1
<1>4. Accepted' = Accepted
  BY DEF Accepted
<1>5. Spooled' = Spooled \cup {x}
  BY <1>1, <1>3 DEF Spooled, Elements
<1> HIDE DEF n
<1>6. ASSUME NEW j \in DOMAIN spool', Log!FirstCopy(j)', NEW i \in 1..(j - 1)
      PROVE  spool'[i] < spool'[j]
  <2>1. j \in 1..(n + 1) /\ i \in 1..n /\ n \in Nat
    BY <1>1, <1>3, <1>6 DEF n
  <2>2. spool'[i] # spool'[j]
    BY <1>6 DEF Log!FirstCopy
  <2>3. CASE j = n + 1
    <3>1. \A k \in 1..n : spool[k] # x
      BY <1>3, <1>6, <2>1, <2>3 DEF Log!FirstCopy
    <3>2. x \notin Spooled
      BY <1>3, <3>1 DEF Spooled, Elements
    <3>3. QED
      BY <1>2, <1>3, <2>1, <2>2, <2>3, <3>2
  <2>4. CASE j # n + 1
    <3>1. j \in 1..n
      <4>1. \A k \in 1..(n + 1) : n \in Nat /\ k # n + 1 => k \in 1..n
        OBVIOUS
      <4>2. QED
        BY <2>1, <2>4, <4>1
    <3>2. \A k \in 1..(j - 1) : k \in 1..n
      BY <2>1, <3>1
    <3>3. Log!FirstCopy(j)
      BY <1>3, <1>6, <3>1, <3>2 DEF Log!FirstCopy
    <3>4. QED
      BY <1>3, <2>1, <3>1, <3>3 DEF FirstsInOrder
  <2>5. QED
    BY <2>3, <2>4
<1>7. QED
  BY <1>3, <1>4, <1>5, <1>6 DEF FirstsInOrder, S

LEMMA LogIngest == LogInv /\ Log!Ingest => LogInv'
<1> SUFFICES ASSUME LogInv, Log!Ingest PROVE LogInv'
  OBVIOUS
<1>1. LogTypes /\ QueueInOrder /\ GhostsInOrder /\ AnswersTrue /\ FirstsInOrder /\ Kept
  BY DEF LogInv
<1>2. /\ flight.st = "send"
      /\ UNCHANGED <<logged, closed, phase, expired, accepted, refused, ghosts, count>>
  BY DEF Log!Ingest
<1>3. Queued' = Queued
  BY <1>2 DEF Queued
<1> DEFINE x == flight.rec.id
<1>4. x \in Accepted /\ x \in Nat /\ \A y \in Sent : y <= x
  BY <1>1, <1>2, LogSets DEF QueueInOrder
<1>5. CASE /\ flight.rec.ok /\ spool' = Append(spool, x)
           /\ flight' = [flight EXCEPT !.st = "accepted"]
  <2>1. flight' \in Flights /\ flight'.rec = flight.rec /\ flight'.st = "accepted"
    BY <1>1, <1>5, LogRequest
  <2>2. /\ Accepted' = Accepted /\ Spooled' = Spooled \cup {x}
        /\ spool' \in Seq(1..MaxLogged) /\ FirstsInOrder'
    BY <1>1, <1>2, <1>4, <1>5, LogArrives DEF Sent
  <2>3. Sent' = Sent \cup {x}
    BY <1>2, <2>2 DEF Sent
  <2> HIDE DEF x
  <2>4. LogTypes'
    <3>1. Log!TypeOK'
      BY <1>1, <1>2, <2>1, <2>2 DEF LogTypes, Log!TypeOK, Flights
    <3>2. QED
      BY <1>1, <1>2, <2>1, <2>2, <3>1 DEF LogTypes
  <2>5. QueueInOrder'
    BY <1>1, <1>2, <1>3, <1>4, <2>1, <2>2, <2>3 DEF QueueInOrder, x
  <2>6. GhostsInOrder'
    BY <1>1, <1>2, <2>1, <2>2, <2>3 DEF GhostsInOrder, LogTypes, x
  <2>7. AnswersTrue' /\ Kept'
    BY <1>1, <1>2, <1>3, <2>1, <2>2 DEF AnswersTrue, Kept, x
  <2>8. QED
    BY <2>2, <2>4, <2>5, <2>6, <2>7 DEF LogInv
<1>6. CASE /\ ~flight.rec.ok /\ spool' = spool
           /\ flight' = [flight EXCEPT !.st = "rejected"]
  <2>1. flight' \in Flights /\ flight'.rec = flight.rec /\ flight'.st = "rejected"
    BY <1>1, <1>6, LogRequest
  <2>2. Accepted' = Accepted /\ Spooled' = Spooled /\ Sent' = Sent
    BY <1>2, <1>6 DEF Accepted, Spooled, Sent
  <2>3. LogTypes'
    BY <1>1, <1>2, <1>6, <2>1, <2>2, LogSets DEF LogTypes, Log!TypeOK
  <2>4. QueueInOrder' /\ GhostsInOrder' /\ AnswersTrue' /\ FirstsInOrder' /\ Kept'
    BY <1>1, <1>2, <1>3, <1>6, <2>1, <2>2
       DEF QueueInOrder, GhostsInOrder, AnswersTrue, FirstsInOrder, Kept, Log!FirstCopy
  <2>5. QED
    BY <2>3, <2>4 DEF LogInv
<1>7. QED
  BY <1>5, <1>6 DEF Log!Ingest

\* A ghost that is not on the spool yet is the last record sent.
LEMMA LogLateIngest == LogInv /\ Log!LateIngest => LogInv'
<1> SUFFICES ASSUME LogInv, Log!LateIngest PROVE LogInv'
  OBVIOUS
<1>1. LogTypes /\ QueueInOrder /\ GhostsInOrder /\ AnswersTrue /\ FirstsInOrder /\ Kept
  BY DEF LogInv
<1>2. PICK x \in ghosts : spool' = Append(spool, x) /\ ghosts' = ghosts \ {x}
  BY DEF Log!LateIngest
<1>3. UNCHANGED <<logged, flight, closed, phase, expired, accepted, refused, count>>
  BY DEF Log!LateIngest
<1>4. x \in Accepted /\ x \in Sent /\ Queued' = Queued
  BY <1>1, <1>2, <1>3 DEF LogTypes, Sent, Queued
<1>5. Accepted' = Accepted /\ Spooled' = Spooled \cup {x} /\ spool' \in Seq(1..MaxLogged)
      /\ FirstsInOrder'
  <2>1. x \in Spooled \/ \A y \in Spooled : y <= x
    BY <1>1, <1>2 DEF GhostsInOrder, Sent
  <2>2. QED
    BY <1>1, <1>2, <1>3, <1>4, <2>1, LogArrives
<1>6. Sent' = Sent
  BY <1>2, <1>4, <1>5 DEF Sent
<1>7. LogTypes'
  <2>1. Log!TypeOK'
    BY <1>1, <1>3, <1>5 DEF LogTypes, Log!TypeOK
  <2>2. QED
    BY <1>1, <1>2, <1>3, <1>5, <2>1 DEF LogTypes
<1>8. QueueInOrder'
  BY <1>1, <1>3, <1>4, <1>5, <1>6 DEF QueueInOrder
<1>9. GhostsInOrder'
  BY <1>1, <1>2, <1>3, <1>5, <1>6 DEF GhostsInOrder
<1>10. AnswersTrue' /\ Kept'
  BY <1>1, <1>3, <1>4, <1>5 DEF AnswersTrue, Kept
<1>11. QED
  BY <1>5, <1>7, <1>8, <1>9, <1>10 DEF LogInv

LEMMA LogStep == LogInv /\ [AllNext]_allVars => LogInv'
<1> SUFFICES ASSUME LogInv, [AllNext]_allVars PROVE LogInv'
  OBVIOUS
<1>1. CASE UNCHANGED logVars
  BY <1>1 DEF logVars, LogInv, LogTypes, Log!TypeOK, QueueInOrder, GhostsInOrder, AnswersTrue,
     FirstsInOrder, Log!FirstCopy, Kept, Accepted, Queued, Spooled, Sent
<1>2. CASE Log!Next
  BY <1>2, LogEnqueue, LogClose, LogTake, LogIngest, LogSendFails, LogLateIngest, LogAnswer,
     LogRetry, LogGiveUp DEF Log!Next, Log!Sender
<1>3. QED
  BY <1>1, <1>2 DEF AllNext, allVars

\* The invariant of the log path holds in every reachable state.
THEOREM LogInvariant == AllSpec => []LogInv
<1>1. AllInit => LogInv
  BY LogInit DEF AllInit
<1>2. QED
  BY <1>1, LogStep, PTL DEF AllSpec

\* Records first reach the spool in the order they were logged, none arrives that was
\* not accepted, and an accepted record is on the spool, refused for good or still held
\* until the deadline of the shutdown, whatever requests, answers and late handlers do
\* (internal/runtimekit/logship, monitor/internal/logs).
THEOREM LogStaysSafe == AllSpec => []LogSafe
<1>1. LogInv => LogSafe
  <2> SUFFICES ASSUME LogInv PROVE LogSafe
    OBVIOUS
  <2>1. LogTypes /\ FirstsInOrder /\ Kept
    BY DEF LogInv
  <2>2. accepted \in Seq(1..MaxLogged) /\ spool \in Seq(1..MaxLogged)
    BY <2>1 DEF LogTypes, Log!TypeOK
  <2>3. \A x : Log!Contains(accepted, x) <=> x \in Accepted
    BY <2>2 DEF Log!Contains, Accepted, Elements
  <2>4. \A x : Log!Contains(spool, x) <=> x \in Spooled
    BY <2>2 DEF Log!Contains, Spooled, Elements
  <2>5. Log!ArriveInOrder
    BY <2>1, <2>3 DEF FirstsInOrder, Log!ArriveInOrder, Spooled, Elements
  <2>6. Log!NoneLost
    BY <2>1, <2>4 DEF Kept, Log!NoneLost, Accepted, Queued, Elements
  <2>7. QED
    BY <2>1, <2>5, <2>6 DEF LogSafe, LogTypes
<1>2. QED
  BY <1>1, LogInvariant, PTL

-----------------------------------------------------------------------------
(* The spool: bytes and positions.                                          *)

\* The bytes of the records of q at the positions S, as Disk!BytesOf counts them.
Units(q, S) == UNION {{i} \X (1..Disk!Bytes(q[i])) : i \in S}

Sized(q, S) == \A i \in S : Disk!Bytes(q[i]) \in Nat

LEMMA IntervalFinite == \A k \in Nat : IsFiniteSet(1..k)
<1> TAKE k \in Nat
<1>1. 1 \in Int /\ k \in Int
  OBVIOUS
<1>2. QED
  BY <1>1, FS_Interval

\* The spool counts with the operator of FiniteSets.
LEMMA SpoolCount == \A S : Disk!Cardinality(S) = Cardinality(S)
  BY DEF Disk!Cardinality, Cardinality

LEMMA SpoolBytes ==
  \A r \in Disk!Records : Disk!Bytes(r) \in Nat /\ r.size \in Nat
<1>1. \A s \in SpoolSizes : s \in Nat /\ s + 1 \in Nat
  BY SpoolAssumption
<1>2. \A r \in Disk!Records : r.size \in SpoolSizes
  BY DEF Disk!Records
<1>3. QED
  BY <1>1, <1>2 DEF Disk!Bytes

LEMMA UnitsOne ==
  ASSUME NEW q, NEW i, Disk!Bytes(q[i]) \in Nat
  PROVE  IsFiniteSet(Units(q, {i})) /\ Cardinality(Units(q, {i})) = Disk!Bytes(q[i])
<1> DEFINE n == Disk!Bytes(q[i])
           U == Units(q, {i})
           f == [b \in 1..n |-> <<i, b>>]
<1>1. U = {i} \X (1..n)
  BY DEF Units
<1>2. IsFiniteSet(1..n) /\ Cardinality(1..n) = n
  <2>1. n \in Int /\ 1 \in Int /\ n >= 0
    OBVIOUS
  <2> HIDE DEF n
  <2>2. IsFiniteSet(1..n) /\ Cardinality(1..n) = IF 1 > n THEN 0 ELSE n - 1 + 1
    BY <2>1, FS_Interval
  <2>3. QED
    BY <2>1, <2>2
<1> HIDE DEF n, U
<1>3. f \in [1..n -> U]
  BY <1>1
<1>4. \A x, y \in 1..n : f[x] = f[y] => x = y
  OBVIOUS
<1>5. \A t \in U : \E x \in 1..n : f[x] = t
  BY <1>1
<1> HIDE DEF f
<1>6. IsFiniteSet(U) /\ Cardinality(U) = Cardinality(1..n)
  BY <1>2, <1>3, <1>4, <1>5, SameCount
<1>7. QED
  BY <1>2, <1>6 DEF n, U

LEMMA UnitsFinite ==
  ASSUME NEW q, NEW S, IsFiniteSet(S), Sized(q, S)
  PROVE  IsFiniteSet(Units(q, S)) /\ Cardinality(Units(q, S)) \in Nat
<1> DEFINE T == {{i} \X (1..Disk!Bytes(q[i])) : i \in S}
           f == [i \in S |-> {i} \X (1..Disk!Bytes(q[i]))]
<1>1. f \in Surjection(S, T)
  BY DEF Surjection
<1>2. IsFiniteSet(T)
  <2> HIDE DEF T, f
  <2>1. QED
    BY <1>1, FS_Surjection
<1>3. \A t \in T : IsFiniteSet(t)
  <2>1. TAKE t \in T
  <2>2. PICK i \in S : t = {i} \X (1..Disk!Bytes(q[i]))
    OBVIOUS
  <2>3. t = Units(q, {i})
    BY <2>2 DEF Units
  <2>4. QED
    BY <2>3, UnitsOne DEF Sized
<1>4. IsFiniteSet(UNION T)
  <2> HIDE DEF T
  <2>1. QED
    BY <1>2, <1>3, FS_UNION
<1>5. QED
  BY <1>4, FS_CardinalityType DEF Units

\* The bytes of two parts of a set of positions add up.
LEMMA UnitsSplit ==
  ASSUME NEW q, NEW S, IsFiniteSet(S), Sized(q, S), NEW T \in SUBSET S
  PROVE  Cardinality(Units(q, S)) = Cardinality(Units(q, T)) + Cardinality(Units(q, S \ T))
<1>1. IsFiniteSet(T) /\ IsFiniteSet(S \ T)
  BY FS_Subset
<1>2. Sized(q, T) /\ Sized(q, S \ T)
  BY DEF Sized
<1> DEFINE A == Units(q, T)
           B == Units(q, S \ T)
<1>3. Units(q, S) = A \cup B /\ A \cap B = {}
  BY DEF Units
<1>4. IsFiniteSet(A) /\ IsFiniteSet(B) /\ Cardinality(A) \in Nat /\ Cardinality(B) \in Nat
  BY <1>1, <1>2, UnitsFinite
<1> HIDE DEF A, B
<1>5. Cardinality(A \cup B) = Cardinality(A) + Cardinality(B) - Cardinality(A \cap B)
  BY <1>4, FS_Union
<1>6. Cardinality(A \cap B) = 0
  BY <1>3, FS_EmptySet
<1>7. QED
  BY <1>3, <1>4, <1>5, <1>6 DEF A, B

LEMMA UnitsGrow ==
  ASSUME NEW p, NEW q, NEW S, IsFiniteSet(S), Sized(p, S), Sized(q, S),
         \A i \in S : Disk!Bytes(q[i]) <= Disk!Bytes(p[i])
  PROVE  Cardinality(Units(q, S)) <= Cardinality(Units(p, S))
<1>1. Units(q, S) \in SUBSET Units(p, S)
  BY DEF Units, Sized
<1>2. QED
  BY <1>1, UnitsFinite, FS_Subset

\* Records moved to other positions keep their bytes.
LEMMA UnitsMoved ==
  ASSUME NEW p, NEW T, NEW q, NEW S, IsFiniteSet(T), NEW f \in [T -> S],
         \A x, y \in T : f[x] = f[y] => x = y, \A i \in S : \E n \in T : f[n] = i,
         Sized(p, T), \A n \in T : Disk!Bytes(p[n]) = Disk!Bytes(q[f[n]])
  PROVE  Cardinality(Units(p, T)) = Cardinality(Units(q, S))
<1> DEFINE A == Units(p, T)
           B == Units(q, S)
           g == [x \in A |-> <<f[x[1]], x[2]>>]
<1>1. \A x : x \in A <=> \E n \in T : \E b \in 1..Disk!Bytes(p[n]) : x = <<n, b>>
  BY DEF Units
<1>2. \A x : x \in B <=> \E i \in S : \E b \in 1..Disk!Bytes(q[i]) : x = <<i, b>>
  BY DEF Units
<1>3. IsFiniteSet(A)
  BY UnitsFinite
<1> HIDE DEF A, B
<1>4. g \in [A -> B]
  <2>1. ASSUME NEW x \in A PROVE <<f[x[1]], x[2]>> \in B
    <3>1. PICK n \in T : \E b \in 1..Disk!Bytes(p[n]) : x = <<n, b>>
      BY <1>1
    <3>2. PICK b \in 1..Disk!Bytes(p[n]) : x = <<n, b>>
      BY <3>1
    <3>3. x[1] = n /\ x[2] = b /\ f[n] \in S /\ b \in 1..Disk!Bytes(q[f[n]])
      BY <3>2
    <3>4. QED
      BY <1>2, <3>3
  <2>2. QED
    BY <2>1
<1>5. \A x, y \in A : g[x] = g[y] => x = y
  <2> TAKE x, y \in A
  <2> HAVE g[x] = g[y]
  <2>1. f[x[1]] = f[y[1]] /\ x[2] = y[2]
    OBVIOUS
  <2>2. x = <<x[1], x[2]>> /\ y = <<y[1], y[2]>> /\ x[1] \in T /\ y[1] \in T
    BY <1>1
  <2>3. QED
    BY <2>1, <2>2
<1>6. \A t \in B : \E x \in A : g[x] = t
  <2> TAKE t \in B
  <2>1. PICK i \in S : \E b \in 1..Disk!Bytes(q[i]) : t = <<i, b>>
    BY <1>2
  <2>2. PICK b \in 1..Disk!Bytes(q[i]) : t = <<i, b>>
    BY <2>1
  <2>3. PICK n \in T : f[n] = i
    OBVIOUS
  <2>4. <<n, b>> \in A
    BY <1>1, <2>2, <2>3
  <2>5. g[<<n, b>>] = t
    BY <2>2, <2>3, <2>4
  <2>6. QED
    BY <2>4, <2>5
<1> HIDE DEF g
<1>7. QED
  BY <1>3, <1>4, <1>5, <1>6, SameCount DEF A, B

\* The elements of a finite set of positions in their order: the n-th one, for every n up
\* to their number, each once.
LEMMA Positions ==
  ASSUME NEW S \in SUBSET Nat, IsFiniteSet(S)
  PROVE  /\ Cardinality(S) \in Nat
         /\ \A n \in 1..Cardinality(S) : Disk!Nth(S, n) \in S
         /\ \A m, n \in 1..Cardinality(S) : Disk!Nth(S, m) = Disk!Nth(S, n) => m = n
         /\ \A i \in S : \E n \in 1..Cardinality(S) : Disk!Nth(S, n) = i
<1> DEFINE c == Cardinality(S)
           Up(i) == {j \in S : j <= i}
           rank == [i \in S |-> Cardinality(Up(i))]
<1>1. c \in Nat
  BY FS_CardinalityType
<1>2. \A i \in S : IsFiniteSet(Up(i)) /\ Cardinality(Up(i)) <= c
  <2> TAKE i \in S
  <2>1. Up(i) \in SUBSET S
    OBVIOUS
  <2> HIDE DEF Up
  <2>2. QED
    BY <2>1, FS_Subset
<1>3. \A i \in S : Cardinality(Up(i)) \in 1..c
  <2> TAKE i \in S
  <2>1. i \in Up(i)
    OBVIOUS
  <2> HIDE DEF Up
  <2>2. Cardinality(Up(i)) \in Nat /\ Cardinality(Up(i)) # 0
    BY <1>2, <2>1, FS_CardinalityType, FS_EmptySet
  <2> HIDE DEF c
  <2>3. QED
    BY <1>1, <1>2, <2>2
<1>4. \A i, k \in S : i < k => Cardinality(Up(i)) # Cardinality(Up(k))
  <2> TAKE i, k \in S
  <2> HAVE i < k
  <2>1. Up(i) \in SUBSET Up(k) /\ Up(i) # Up(k)
    <3>1. i \in Nat /\ k \in Nat /\ k \in Up(k) /\ k \notin Up(i)
      OBVIOUS
    <3>2. \A j \in S : j \in Nat /\ (j <= i => j <= k)
      BY <3>1
    <3>3. QED
      BY <3>1, <3>2
  <2> HIDE DEF Up
  <2>2. QED
    BY <1>2, <2>1, FS_Subset
<1>5. \A i, k \in S : Cardinality(Up(i)) = Cardinality(Up(k)) => i = k
  <2> HIDE DEF Up
  <2>1. \A i, k \in S : i \in Nat /\ k \in Nat /\ (i = k \/ i < k \/ k < i)
    OBVIOUS
  <2>2. QED
    BY <1>4, <2>1
<1> HIDE DEF c, Up
<1>6. rank \in Injection(S, 1..c)
  BY <1>3, <1>5 DEF Injection, IsInjective
<1>7. IsFiniteSet(1..c) /\ Cardinality(1..c) = c
  <2>1. IsFiniteSet(1..c) /\ Cardinality(1..c) = IF 1 > c THEN 0 ELSE c - 1 + 1
    BY <1>1, FS_Interval
  <2>2. QED
    BY <1>1, <2>1
<1>8. rank \in Surjection(S, 1..c)
  <2> HIDE DEF rank
  <2>1. Cardinality(S) = Cardinality(1..c)
    BY <1>7 DEF c
  <2>2. QED
    BY <1>6, <1>7, <2>1, FS_Injection
<1>9. \A n \in 1..c : \E i \in S : rank[i] = n
  BY <1>8 DEF Surjection
<1>10. \A n \in 1..c : Disk!Nth(S, n) \in S /\ Cardinality(Up(Disk!Nth(S, n))) = n
  <2>1. \A n \in 1..c : \E i \in S : Cardinality(Up(i)) = n
    BY <1>9
  <2> TAKE n \in 1..c
  <2>2. \E i \in S : Cardinality({j \in S : j <= i}) = n
    BY <2>1 DEF Up
  <2>3. Disk!Nth(S, n) \in S /\ Cardinality({j \in S : j <= Disk!Nth(S, n)}) = n
    BY <2>2, SpoolCount DEF Disk!Nth
  <2>4. QED
    BY <2>3 DEF Up
<1>11. \A i \in S : Cardinality(Up(i)) \in 1..c /\ Disk!Nth(S, Cardinality(Up(i))) = i
  BY <1>3, <1>5, <1>10
<1>12. QED
  BY <1>1, <1>10, <1>11 DEF c

-----------------------------------------------------------------------------
(* The spool: its invariant.                                                *)

SpoolTypes ==
  /\ backlog \in Seq(Disk!Records)
  /\ used \in 0..SpoolCapacity /\ newSent \in 0..3
  /\ sender \in [at : {"idle", "claim", "send", "delete"}, preferNew : BOOLEAN]
  /\ restarts \in 0..MaxSpoolRestarts /\ faults \in 0..MaxSpoolFaults

\* While a record is sent or deleted, it is in the queue, alone in flight.
OneInFlight ==
  IF sender.at \in {"send", "delete"} THEN \E i : Disk!InFlight = {i} ELSE Disk!InFlight = {}

\* The inductive invariant of the spool.
SpoolInv == SpoolTypes /\ OneInFlight /\ Disk!NeverOverstated

LEMMA SpoolPlaces ==
  ASSUME SpoolTypes
  PROVE  /\ Len(backlog) \in Nat /\ DOMAIN backlog = 1..Len(backlog)
         /\ IsFiniteSet(DOMAIN backlog) /\ DOMAIN backlog \in SUBSET Nat
         /\ \A i \in DOMAIN backlog : backlog[i] \in Disk!Records
         /\ Sized(backlog, DOMAIN backlog)
         /\ Disk!InFlight \subseteq DOMAIN backlog
<1>1. backlog \in Seq(Disk!Records)
  BY DEF SpoolTypes
<1>2. /\ Len(backlog) \in Nat /\ DOMAIN backlog = 1..Len(backlog)
      /\ \A i \in DOMAIN backlog : backlog[i] \in Disk!Records
  BY <1>1
<1>3. IsFiniteSet(1..Len(backlog))
  BY <1>2, IntervalFinite
<1>4. \A r \in Disk!Records : Disk!Bytes(r) \in Nat
  BY SpoolBytes
<1>5. QED
  BY <1>2, <1>3, <1>4 DEF Sized, Disk!InFlight

\* What stays of the queue when the records at other positions are gone.
LEMMA SpoolKeep ==
  ASSUME SpoolTypes, NEW S \in SUBSET DOMAIN backlog
  PROVE  LET p == Disk!Keep(S)  c == Cardinality(S) IN
         /\ c \in Nat /\ p \in Seq(Disk!Records) /\ Len(p) = c /\ DOMAIN p = 1..c
         /\ \A n \in 1..c : Disk!Nth(S, n) \in S /\ p[n] = backlog[Disk!Nth(S, n)]
         /\ \A m, n \in 1..c : Disk!Nth(S, m) = Disk!Nth(S, n) => m = n
         /\ \A i \in S : \E n \in 1..c : Disk!Nth(S, n) = i
         /\ Sized(p, 1..c)
         /\ Cardinality(Units(p, 1..c)) = Cardinality(Units(backlog, S))
<1> DEFINE p == Disk!Keep(S)
           c == Cardinality(S)
           f == [n \in 1..c |-> Disk!Nth(S, n)]
<1>1. IsFiniteSet(S) /\ S \in SUBSET Nat /\ \A i \in S : backlog[i] \in Disk!Records
  BY SpoolPlaces, FS_Subset
<1>2. /\ c \in Nat
      /\ \A n \in 1..c : Disk!Nth(S, n) \in S
      /\ \A m, n \in 1..c : Disk!Nth(S, m) = Disk!Nth(S, n) => m = n
      /\ \A i \in S : \E n \in 1..c : Disk!Nth(S, n) = i
  BY <1>1, Positions
<1>3. p = [n \in 1..c |-> backlog[Disk!Nth(S, n)]]
  BY SpoolCount DEF Disk!Keep
<1> HIDE DEF p, c
<1>4. /\ p \in Seq(Disk!Records) /\ Len(p) = c /\ DOMAIN p = 1..c
      /\ \A n \in 1..c : p[n] = backlog[Disk!Nth(S, n)]
  <2>1. \A n \in 1..c : backlog[Disk!Nth(S, n)] \in Disk!Records
    BY <1>1, <1>2
  <2>2. p \in [1..c -> Disk!Records]
    BY <1>3, <2>1
  <2>3. p \in Seq(Disk!Records)
    BY <1>2, <2>2
  <2>4. Len(p) = c
    BY <1>2, <2>2, <2>3
  <2>5. QED
    BY <1>3, <2>3, <2>4
<1>5. Sized(p, 1..c) /\ Sized(backlog, S)
  BY <1>2, <1>4, SpoolPlaces DEF Sized
<1>6. Cardinality(Units(p, 1..c)) = Cardinality(Units(backlog, S))
  <2>1. IsFiniteSet(1..c)
    BY <1>2, IntervalFinite
  <2>2. f \in [1..c -> S] /\ \A n \in 1..c : f[n] = Disk!Nth(S, n)
    BY <1>2
  <2> HIDE DEF f
  <2>3. /\ \A x, y \in 1..c : f[x] = f[y] => x = y
        /\ \A i \in S : \E n \in 1..c : f[n] = i
        /\ \A n \in 1..c : Disk!Bytes(p[n]) = Disk!Bytes(backlog[f[n]])
    BY <1>2, <1>4, <2>2
  <2> DEFINE T == 1..c
  <2>4. Sized(p, T) /\ \A n \in T : Disk!Bytes(p[n]) = Disk!Bytes(backlog[f[n]])
    BY <1>5, <2>3
  <2>5. /\ IsFiniteSet(T) /\ f \in [T -> S]
        /\ \A x, y \in T : f[x] = f[y] => x = y
        /\ \A i \in S : \E n \in T : f[n] = i
    BY <2>1, <2>2, <2>3
  <2> HIDE DEF T
  <2>6. Cardinality(Units(p, T)) = Cardinality(Units(backlog, S))
    BY <2>4, <2>5, UnitsMoved
  <2>7. QED
    BY <2>6 DEF T
<1>7. QED
  BY <1>2, <1>4, <1>5, <1>6 DEF p, c

\* A record more at the end.
Longer(q, p, r) ==
  /\ q \in Seq(Disk!Records) /\ DOMAIN q = 1..(Len(p) + 1)
  /\ \A n \in 1..Len(p) : q[n] = p[n]
  /\ q[Len(p) + 1] = r
  /\ Cardinality(Units(q, DOMAIN q)) = Cardinality(Units(p, 1..Len(p))) + Disk!Bytes(r)

LEMMA SpoolAppend ==
  ASSUME NEW p \in Seq(Disk!Records), NEW r \in Disk!Records, NEW q, q = Append(p, r)
  PROVE  Longer(q, p, r)
<1> DEFINE n == Len(p)
           T == 1..n
           D == 1..(n + 1)
<1>1. /\ q \in Seq(Disk!Records) /\ Len(q) = n + 1 /\ n \in Nat
      /\ DOMAIN q = D /\ q[n + 1] = r /\ \A i \in T : q[i] = p[i]
      /\ \A i \in T : p[i] \in Disk!Records
  OBVIOUS
<1>2. IsFiniteSet(T) /\ IsFiniteSet(D)
  <2>1. n \in Nat /\ n + 1 \in Nat
    BY <1>1
  <2> HIDE DEF n
  <2>2. QED
    BY <2>1, IntervalFinite
<1>3. \A x \in Disk!Records : Disk!Bytes(x) \in Nat
  BY SpoolBytes
<1>4. Sized(p, T) /\ Sized(q, D)
  BY <1>1, <1>3 DEF Sized
<1>5. T \in SUBSET D /\ D \ T = {n + 1}
  BY <1>1
<1> HIDE DEF T, D
<1>6. Cardinality(Units(q, D)) = Cardinality(Units(q, T)) + Cardinality(Units(q, {n + 1}))
  BY <1>2, <1>4, <1>5, UnitsSplit
<1>7. Cardinality(Units(q, {n + 1})) = Disk!Bytes(r)
  BY <1>1, <1>3, UnitsOne
<1>8. Units(q, T) = Units(p, T)
  BY <1>1 DEF Units
<1>9. Cardinality(Units(p, T)) \in Nat
  BY <1>2, <1>4, UnitsFinite
<1>10. QED
  BY <1>1, <1>6, <1>7, <1>8, <1>9 DEF T, D, Longer

\* Records leave the queue and their bytes the count, which stops at zero.
LEMMA SpoolRemove ==
  ASSUME SpoolTypes, Disk!NeverOverstated, NEW E \in SUBSET DOMAIN backlog,
         NEW S, S = DOMAIN backlog \ E
  PROVE  /\ Disk!Take(used, Disk!BytesOf(E)) \in 0..SpoolCapacity
         /\ Disk!Take(used, Disk!BytesOf(E)) <= Cardinality(Units(backlog, S))
         /\ Cardinality(Units(backlog, S)) \in Nat
<1> DEFINE all == Cardinality(Units(backlog, DOMAIN backlog))
           gone == Cardinality(Units(backlog, E))
           rest == Cardinality(Units(backlog, S))
<1>1. all = gone + rest
  BY SpoolPlaces, UnitsSplit
<1>2. Disk!Occupied = all /\ Disk!BytesOf(E) = gone
  BY SpoolCount DEF Disk!Occupied, Disk!BytesOf, Units
<1>3. gone \in Nat /\ rest \in Nat
  <2>1. IsFiniteSet(E) /\ IsFiniteSet(S) /\ Sized(backlog, E) /\ Sized(backlog, S)
    BY SpoolPlaces, FS_Subset DEF Sized
  <2>2. QED
    BY <2>1, UnitsFinite
<1>4. used \in 0..SpoolCapacity /\ used <= all
  BY <1>2 DEF SpoolTypes, Disk!NeverOverstated
<1> HIDE DEF all, gone, rest
<1>5. Disk!Take(used, gone) \in 0..SpoolCapacity /\ Disk!Take(used, gone) <= rest
  BY <1>1, <1>3, <1>4, SpoolAssumption DEF Disk!Take
<1>6. QED
  BY <1>2, <1>3, <1>5 DEF rest

LEMMA SpoolInit == Disk!Init => SpoolInv
<1> SUFFICES ASSUME Disk!Init PROVE SpoolInv
  OBVIOUS
<1>1. backlog = <<>> /\ used = 0 /\ newSent = 0 /\ restarts = 0 /\ faults = 0
      /\ sender = [at |-> "idle", preferNew |-> FALSE]
  BY DEF Disk!Init, Disk!Idle
<1>2. backlog \in Seq(Disk!Records) /\ DOMAIN backlog = {}
  BY <1>1
<1>3. SpoolTypes
  BY <1>1, <1>2, SpoolAssumption DEF SpoolTypes
<1>4. OneInFlight
  BY <1>1, <1>2 DEF OneInFlight, Disk!InFlight
<1>5. Disk!NeverOverstated
  <2>1. Units(backlog, DOMAIN backlog) = {}
    BY <1>2 DEF Units
  <2>2. Disk!Occupied = 0
    BY <2>1, FS_EmptySet, SpoolCount DEF Disk!Occupied, Disk!BytesOf, Units
  <2>3. QED
    BY <1>1, <2>2 DEF Disk!NeverOverstated
<1>6. QED
  BY <1>3, <1>4, <1>5 DEF SpoolInv

\* Making room takes the oldest records that are not in flight, and their bytes.
LEMMA SpoolEnqueue ==
  ASSUME SpoolInv, NEW size \in SpoolSizes, Disk!Enqueue(size) PROVE SpoolInv'
<1>1. SpoolTypes /\ OneInFlight /\ Disk!NeverOverstated
  BY DEF SpoolInv
<1> DEFINE r == [size |-> size, new |-> TRUE, flight |-> FALSE]
<1>2. PICK k \in 0..Cardinality(Disk!Evictable) :
        /\ Disk!UsedWithout(k) + size <= SpoolCapacity
        /\ backlog' = Append(Disk!Keep(DOMAIN backlog \ Disk!Oldest(k)), r)
        /\ used' = Disk!UsedWithout(k) + size
        /\ UNCHANGED <<newSent, sender, restarts, faults>>
  BY SpoolCount DEF Disk!Enqueue, Disk!Fits
<1> DEFINE E == Disk!Oldest(k)
           S == DOMAIN backlog \ E
           p == Disk!Keep(S)
           c == Cardinality(S)
<1>3. E \in SUBSET DOMAIN backlog /\ Disk!InFlight \subseteq S
  BY <1>1, SpoolPlaces DEF Disk!Oldest, Disk!Evictable
<1>4. /\ c \in Nat /\ p \in Seq(Disk!Records) /\ Len(p) = c
      /\ \A n \in 1..c : Disk!Nth(S, n) \in S /\ p[n] = backlog[Disk!Nth(S, n)]
      /\ \A m, n \in 1..c : Disk!Nth(S, m) = Disk!Nth(S, n) => m = n
      /\ \A i \in S : \E n \in 1..c : Disk!Nth(S, n) = i
      /\ Cardinality(Units(p, 1..c)) = Cardinality(Units(backlog, S))
  BY <1>1, SpoolKeep
<1>5. r \in Disk!Records /\ ~r.flight /\ Disk!Bytes(r) = size /\ size \in Nat
  BY SpoolAssumption DEF Disk!Records, Disk!Bytes
<1>6. backlog' = Append(p, r)
  BY <1>2
<1>7. /\ Disk!UsedWithout(k) \in 0..SpoolCapacity
      /\ Disk!UsedWithout(k) <= Cardinality(Units(backlog, S))
      /\ Cardinality(Units(backlog, S)) \in Nat
  BY <1>1, <1>3, SpoolRemove DEF Disk!UsedWithout
<1> HIDE DEF r, E, S, p, c
<1>8. /\ backlog' \in Seq(Disk!Records) /\ DOMAIN backlog' = 1..(c + 1)
      /\ \A n \in 1..c : backlog'[n] = p[n]
      /\ backlog'[c + 1] = r
      /\ Cardinality(Units(backlog', DOMAIN backlog'))
           = Cardinality(Units(p, 1..c)) + Disk!Bytes(r)
  <2>1. p \in Seq(Disk!Records) /\ r \in Disk!Records
    BY <1>4, <1>5
  <2>2. Longer(backlog', p, r)
    BY <1>6, <2>1, SpoolAppend
  <2>3. QED
    BY <1>4, <2>2 DEF Longer
<1>9. SpoolTypes'
  BY <1>1, <1>2, <1>5, <1>7, <1>8, SpoolAssumption DEF SpoolTypes
<1>10. OneInFlight'
  <2>1. \A n \in DOMAIN backlog' : backlog'[n].flight <=> n \in 1..c /\ Disk!Nth(S, n) \in Disk!InFlight
    <3> TAKE n \in DOMAIN backlog'
    <3>1. CASE n = c + 1
      BY <1>4, <1>5, <1>8, <3>1
    <3>2. CASE n # c + 1
      <4>1. n \in 1..c
        BY <1>4, <1>8, <3>2
      <4>2. backlog'[n] = backlog[Disk!Nth(S, n)] /\ Disk!Nth(S, n) \in DOMAIN backlog
        BY <1>4, <1>8, <4>1 DEF S
      <4>3. QED
        BY <4>1, <4>2 DEF Disk!InFlight
    <3>3. QED
      BY <3>1, <3>2
  <2>2. Disk!InFlight' = {n \in 1..c : Disk!Nth(S, n) \in Disk!InFlight}
    BY <1>4, <1>8, <2>1 DEF Disk!InFlight
  <2>3. CASE sender.at \in {"send", "delete"}
    <3>1. PICK i : Disk!InFlight = {i}
      BY <1>1, <2>3 DEF OneInFlight
    <3>2. PICK n \in 1..c : Disk!Nth(S, n) = i
      BY <1>3, <1>4, <3>1
    <3>3. Disk!InFlight' = {n}
      BY <1>4, <2>2, <3>1, <3>2
    <3>4. QED
      BY <1>2, <2>3, <3>3 DEF OneInFlight
  <2>4. CASE sender.at \notin {"send", "delete"}
    BY <1>1, <1>2, <2>2, <2>4 DEF OneInFlight
  <2>5. QED
    BY <2>3, <2>4
<1>11. Disk!NeverOverstated'
  <2>1. Disk!Occupied' = Cardinality(Units(backlog', DOMAIN backlog'))
    BY SpoolCount DEF Disk!Occupied, Disk!BytesOf, Units
  <2>2. QED
    BY <1>2, <1>4, <1>5, <1>7, <1>8, <2>1 DEF Disk!NeverOverstated
<1>12. QED
  BY <1>9, <1>10, <1>11 DEF SpoolInv

\* Steps that leave the queue and its count alone.
LEMMA SpoolSender ==
  ASSUME SpoolInv, Disk!Choose \/ Disk!Sent PROVE SpoolInv'
<1>1. SpoolTypes /\ OneInFlight /\ Disk!NeverOverstated
  BY DEF SpoolInv
<1>2. /\ UNCHANGED <<backlog, used, restarts, faults>> /\ newSent' \in 0..3
      /\ sender' \in [at : {"idle", "claim", "send", "delete"}, preferNew : BOOLEAN]
      /\ sender.at \in {"send", "delete"} <=> sender'.at \in {"send", "delete"}
  <2>1. CASE Disk!Choose
    <3>1. /\ sender' \in {[at |-> "claim", preferNew |-> TRUE], [at |-> "claim", preferNew |-> FALSE]}
          /\ newSent' \in 0..3 /\ sender.at = "idle"
      <4>1. CASE Disk!New = {} \/ Disk!Old = {}
        BY <1>1, <2>1, <4>1 DEF Disk!Choose, SpoolTypes
      <4>2. CASE ~(Disk!New = {} \/ Disk!Old = {})
        BY <1>1, <2>1, <4>2 DEF Disk!Choose, SpoolTypes
      <4>3. QED
        BY <4>1, <4>2
    <3>2. UNCHANGED <<backlog, used, restarts, faults>>
      BY <2>1 DEF Disk!Choose
    <3>3. /\ sender' \in [at : {"idle", "claim", "send", "delete"}, preferNew : BOOLEAN]
          /\ sender'.at = "claim"
      <4>1. CASE sender' = [at |-> "claim", preferNew |-> TRUE]
        BY <4>1
      <4>2. CASE sender' = [at |-> "claim", preferNew |-> FALSE]
        BY <4>2
      <4>3. QED
        BY <3>1, <4>1, <4>2
    <3>4. QED
      BY <3>1, <3>2, <3>3
  <2>2. CASE Disk!Sent
    BY <1>1, <2>2 DEF Disk!Sent, SpoolTypes
  <2>3. QED
    BY <2>1, <2>2
<1>3. SpoolTypes'
  BY <1>1, <1>2 DEF SpoolTypes
<1>4. OneInFlight' /\ Disk!NeverOverstated'
  BY <1>1, <1>2 DEF OneInFlight, Disk!InFlight, Disk!NeverOverstated, Disk!Occupied, Disk!BytesOf
<1>5. QED
  BY <1>3, <1>4 DEF SpoolInv

\* Steps that rewrite the records where they are, none of them shorter.
LEMMA SpoolRewrite ==
  ASSUME SpoolInv, backlog' \in Seq(Disk!Records), DOMAIN backlog' = DOMAIN backlog,
         \A i \in DOMAIN backlog : Disk!Bytes(backlog[i]) <= Disk!Bytes(backlog'[i]),
         used' = used
  PROVE  Disk!NeverOverstated'
<1>1. SpoolTypes /\ Disk!NeverOverstated
  BY DEF SpoolInv
<1> DEFINE D == DOMAIN backlog
<1>2. IsFiniteSet(D) /\ Sized(backlog, D)
  BY <1>1, SpoolPlaces
<1>3. Sized(backlog', D)
  <2>1. \A r \in Disk!Records : Disk!Bytes(r) \in Nat
    BY SpoolBytes
  <2>2. \A i \in DOMAIN backlog' : backlog'[i] \in Disk!Records
    OBVIOUS
  <2>3. QED
    BY <2>1, <2>2 DEF Sized
<1> HIDE DEF D
<1>4. /\ Cardinality(Units(backlog, D)) <= Cardinality(Units(backlog', D))
      /\ Cardinality(Units(backlog, D)) \in Nat /\ Cardinality(Units(backlog', D)) \in Nat
  <2>1. \A i \in D : Disk!Bytes(backlog[i]) <= Disk!Bytes(backlog'[i])
    BY DEF D
  <2>2. QED
    BY <1>2, <1>3, <2>1, UnitsGrow, UnitsFinite
<1>5. /\ Disk!Occupied = Cardinality(Units(backlog, D))
      /\ Disk!Occupied' = Cardinality(Units(backlog', D))
  BY SpoolCount DEF D, Disk!Occupied, Disk!BytesOf, Units
<1>6. used \in Nat
  BY <1>1, SpoolAssumption DEF SpoolTypes
<1>7. QED
  BY <1>1, <1>4, <1>5, <1>6 DEF Disk!NeverOverstated

\* What releasing and reopening do to a record.
Rewritten(a, r) ==
  a \in Disk!Records /\ a.flight = FALSE /\ Disk!Bytes(r) <= Disk!Bytes(a)

LEMMA SpoolEdits ==
  \A r \in Disk!Records : Rewritten(Disk!Released(r), r) /\ Rewritten(Disk!Reopened(r), r)
<1> TAKE r \in Disk!Records
<1> DEFINE a == Disk!Released(r)
           b == Disk!Reopened(r)
<1>1. r.size \in Nat
  BY SpoolBytes
<1>2. a \in Disk!Records /\ a.flight = FALSE /\ a.size = r.size /\ a.new = r.new
  BY DEF Disk!Records, Disk!Released
<1>3. b \in Disk!Records /\ b.flight = FALSE /\ b.size = r.size /\ b.new = FALSE
  BY DEF Disk!Records, Disk!Reopened
<1> HIDE DEF a, b
<1>4. Disk!Bytes(a) = Disk!Bytes(r) /\ Disk!Bytes(r) \in Nat
  BY <1>2, SpoolBytes DEF Disk!Bytes
<1>5. Disk!Bytes(b) = r.size + 1 /\ Disk!Bytes(r) \in {r.size, r.size + 1}
  BY <1>3 DEF Disk!Bytes
<1>6. Disk!Bytes(r) <= Disk!Bytes(a) /\ Disk!Bytes(r) <= Disk!Bytes(b)
  BY <1>1, <1>4, <1>5
<1>7. QED
  BY <1>2, <1>3, <1>6 DEF a, b, Rewritten

\* No record is in flight before the sender claims one: then it is the only one.
LEMMA SpoolClaim == SpoolInv /\ Disk!Claim => SpoolInv'
<1> SUFFICES ASSUME SpoolInv, Disk!Claim PROVE SpoolInv'
  OBVIOUS
<1>1. SpoolTypes /\ OneInFlight /\ sender.at = "claim"
  BY DEF SpoolInv, Disk!Claim
<1>2. UNCHANGED <<used, newSent, restarts, faults>>
  BY DEF Disk!Claim
<1>3. Disk!InFlight = {}
  BY <1>1 DEF OneInFlight
<1>4. CASE Disk!Claimable = {}
  <2>1. UNCHANGED backlog /\ sender' = Disk!Idle
    BY <1>4 DEF Disk!Claim
  <2>2. SpoolTypes'
    BY <1>1, <1>2, <2>1 DEF SpoolTypes, Disk!Idle
  <2>3. OneInFlight' /\ Disk!NeverOverstated'
    BY <1>2, <1>3, <2>1 DEF OneInFlight, Disk!Idle, Disk!InFlight, Disk!NeverOverstated,
       Disk!Occupied, Disk!BytesOf, SpoolInv
  <2>4. QED
    BY <2>2, <2>3 DEF SpoolInv
<1>5. CASE Disk!Claimable # {}
  <2> DEFINE k == Disk!Least(Disk!Claimable)
             r == backlog[k]
             n == [r EXCEPT !.flight = TRUE]
  <2>1. k \in DOMAIN backlog
    <3>1. Disk!Claimable \in SUBSET DOMAIN backlog
      BY DEF Disk!Claimable, Disk!New
    <3>2. Disk!Claimable \in SUBSET Nat
      BY <1>1, <3>1, SpoolPlaces
    <3>3. \E i \in Disk!Claimable : \A j \in Disk!Claimable : i <= j
      BY <1>5, <3>2, LeastNatural
    <3>4. k \in Disk!Claimable
      BY <3>3 DEF Disk!Least
    <3>5. QED
      BY <3>1, <3>4
  <2>2. /\ \A i \in DOMAIN backlog : backlog[i] \in Disk!Records
        /\ DOMAIN backlog = 1..Len(backlog) /\ Len(backlog) \in Nat
    BY <1>1, SpoolPlaces
  <2>3. n \in Disk!Records /\ n.flight = TRUE /\ Disk!Bytes(n) = Disk!Bytes(r)
    <3>1. r \in Disk!Records /\ TRUE \in BOOLEAN
      BY <2>1, <2>2
    <3> HIDE DEF r
    <3>2. n \in Disk!Records /\ n.flight = TRUE /\ n.size = r.size /\ n.new = r.new
      BY <3>1 DEF Disk!Records
    <3> HIDE DEF n
    <3>3. QED
      BY <3>2 DEF Disk!Bytes
  <2>4. backlog' = [backlog EXCEPT ![k] = n] /\ sender' = [sender EXCEPT !.at = "send"]
    BY <1>5 DEF Disk!Claim
  <2> HIDE DEF n, k
  <2>5. /\ backlog' \in Seq(Disk!Records) /\ DOMAIN backlog' = DOMAIN backlog
        /\ backlog'[k] = n /\ \A i \in DOMAIN backlog : i # k => backlog'[i] = backlog[i]
    BY <1>1, <2>1, <2>3, <2>4 DEF SpoolTypes
  <2>6. /\ sender' \in [at : {"idle", "claim", "send", "delete"}, preferNew : BOOLEAN]
        /\ sender'.at = "send"
    BY <1>1, <2>4 DEF SpoolTypes
  <2>7. SpoolTypes'
    BY <1>1, <1>2, <2>5, <2>6 DEF SpoolTypes
  <2>8. Disk!InFlight' = {k}
    BY <1>3, <2>1, <2>3, <2>5 DEF Disk!InFlight
  <2>9. \A i \in DOMAIN backlog : Disk!Bytes(backlog[i]) <= Disk!Bytes(backlog'[i])
    <3> TAKE i \in DOMAIN backlog
    <3>1. Disk!Bytes(backlog[i]) \in Nat
      BY <1>1, SpoolPlaces DEF Sized
    <3>2. Disk!Bytes(backlog'[i]) = Disk!Bytes(backlog[i])
      BY <2>3, <2>5
    <3>3. QED
      BY <3>1, <3>2
  <2>10. Disk!NeverOverstated'
    BY <1>2, <2>5, <2>9, SpoolRewrite
  <2>11. QED
    BY <2>6, <2>7, <2>8, <2>10 DEF SpoolInv, OneInFlight
<1>6. QED
  BY <1>4, <1>5

\* Releasing the records in flight, or reopening the file: none is in flight any more.
LEMMA SpoolRelease ==
  ASSUME SpoolInv, Disk!SendFails \/ Disk!DeleteFails \/ Disk!Restart PROVE SpoolInv'
<1>1. SpoolTypes
  BY DEF SpoolInv
<1>2. /\ \A i \in DOMAIN backlog : backlog[i] \in Disk!Records
      /\ DOMAIN backlog = 1..Len(backlog) /\ Len(backlog) \in Nat
  BY <1>1, SpoolPlaces
<1> DEFINE released == [i \in DOMAIN backlog |-> Disk!Released(backlog[i])]
           reopened == [i \in DOMAIN backlog |-> Disk!Reopened(backlog[i])]
<1>3. /\ backlog' = released \/ backlog' = reopened
      /\ used' = used /\ sender' = Disk!Idle /\ newSent' \in 0..3
      /\ restarts' \in 0..MaxSpoolRestarts /\ faults' \in 0..MaxSpoolFaults
  <2>1. CASE Disk!SendFails
    BY <1>1, <2>1 DEF Disk!SendFails, Disk!Release, SpoolTypes
  <2>2. CASE Disk!DeleteFails
    <3>1. faults' \in 0..MaxSpoolFaults
      BY <1>1, <2>2, SpoolAssumption DEF Disk!DeleteFails, SpoolTypes
    <3>2. QED
      BY <1>1, <2>2, <3>1 DEF Disk!DeleteFails, Disk!Release, SpoolTypes
  <2>3. CASE Disk!Restart
    <3>1. restarts' \in 0..MaxSpoolRestarts /\ newSent' \in 0..3
      BY <1>1, <2>3, SpoolAssumption DEF Disk!Restart, SpoolTypes
    <3>2. QED
      BY <1>1, <2>3, <3>1 DEF Disk!Restart, SpoolTypes
  <2>4. QED
    BY <2>1, <2>2, <2>3
<1>4. /\ DOMAIN backlog' = DOMAIN backlog
      /\ backlog' = [i \in DOMAIN backlog |-> backlog'[i]]
      /\ \A i \in DOMAIN backlog : backlog'[i] \in {Disk!Released(backlog[i]), Disk!Reopened(backlog[i])}
  <2>1. CASE backlog' = released
    BY <2>1
  <2>2. CASE backlog' = reopened
    BY <2>2
  <2>3. QED
    BY <1>3, <2>1, <2>2
<1>5. \A i \in DOMAIN backlog : /\ backlog'[i] \in Disk!Records /\ backlog'[i].flight = FALSE
                                /\ Disk!Bytes(backlog[i]) <= Disk!Bytes(backlog'[i])
  <2>1. \A i \in DOMAIN backlog : Rewritten(backlog'[i], backlog[i])
    BY <1>2, <1>4, SpoolEdits
  <2>2. QED
    BY <2>1 DEF Rewritten
<1> HIDE DEF released, reopened
<1>6. backlog' \in Seq(Disk!Records)
  <2>1. \A i \in 1..Len(backlog) : backlog'[i] \in Disk!Records
    BY <1>2, <1>4, <1>5
  <2>2. backlog' = [i \in 1..Len(backlog) |-> backlog'[i]]
    BY <1>2, <1>4, <1>5
  <2>3. backlog' \in [1..Len(backlog) -> Disk!Records]
    BY <2>1, <2>2
  <2>4. QED
    BY <1>2, <2>3
<1>7. SpoolTypes'
  BY <1>1, <1>3, <1>6 DEF SpoolTypes, Disk!Idle
<1>8. OneInFlight'
  BY <1>3, <1>4, <1>5 DEF OneInFlight, Disk!Idle, Disk!InFlight
<1>9. Disk!NeverOverstated'
  BY <1>3, <1>4, <1>6, <1>5, SpoolRewrite
<1>10. QED
  BY <1>7, <1>8, <1>9 DEF SpoolInv

\* Deleting what was sent takes its bytes from the count.
LEMMA SpoolDelete == SpoolInv /\ Disk!DeleteRecord => SpoolInv'
<1> SUFFICES ASSUME SpoolInv, Disk!DeleteRecord PROVE SpoolInv'
  OBVIOUS
<1>1. SpoolTypes /\ Disk!NeverOverstated
  BY DEF SpoolInv
<1> DEFINE S == DOMAIN backlog \ Disk!InFlight
           c == Cardinality(S)
<1>2. /\ backlog' = Disk!Keep(S) /\ used' = Disk!Take(used, Disk!BytesOf(Disk!InFlight))
      /\ sender' = Disk!Idle /\ UNCHANGED <<newSent, restarts, faults>>
  BY DEF Disk!DeleteRecord
<1>3. /\ c \in Nat /\ backlog' \in Seq(Disk!Records) /\ DOMAIN backlog' = 1..c
      /\ \A n \in 1..c : Disk!Nth(S, n) \in S /\ backlog'[n] = backlog[Disk!Nth(S, n)]
      /\ Cardinality(Units(backlog', 1..c)) = Cardinality(Units(backlog, S))
  BY <1>1, <1>2, SpoolKeep
<1>4. /\ used' \in 0..SpoolCapacity /\ used' <= Cardinality(Units(backlog, S))
  <2>1. Disk!InFlight \in SUBSET DOMAIN backlog
    BY <1>1, SpoolPlaces
  <2>2. QED
    BY <1>1, <1>2, <2>1, SpoolRemove
<1>5. SpoolTypes'
  BY <1>1, <1>2, <1>3, <1>4 DEF SpoolTypes, Disk!Idle
<1>6. OneInFlight'
  <2>1. \A n \in DOMAIN backlog' : ~backlog'[n].flight
    BY <1>3 DEF Disk!InFlight
  <2>2. QED
    BY <1>2, <2>1 DEF OneInFlight, Disk!Idle, Disk!InFlight
<1>7. Disk!NeverOverstated'
  <2>1. Disk!Occupied' = Cardinality(Units(backlog', DOMAIN backlog'))
    BY SpoolCount DEF Disk!Occupied, Disk!BytesOf, Units
  <2>2. QED
    BY <1>3, <1>4, <2>1 DEF Disk!NeverOverstated
<1>8. QED
  BY <1>5, <1>6, <1>7 DEF SpoolInv

LEMMA SpoolStep == SpoolInv /\ [AllNext]_allVars => SpoolInv'
<1> SUFFICES ASSUME SpoolInv, [AllNext]_allVars PROVE SpoolInv'
  OBVIOUS
<1>1. CASE UNCHANGED spoolVars
  BY <1>1 DEF spoolVars, SpoolInv, SpoolTypes, OneInFlight, Disk!InFlight, Disk!NeverOverstated,
     Disk!Occupied, Disk!BytesOf
<1>2. CASE Disk!Next
  <2>1. CASE \E size \in SpoolSizes : Disk!Enqueue(size)
    BY <2>1, SpoolEnqueue
  <2>2. CASE Disk!Choose \/ Disk!Sent
    BY <2>2, SpoolSender
  <2>3. CASE Disk!SendFails \/ Disk!DeleteFails \/ Disk!Restart
    BY <2>3, SpoolRelease
  <2>4. QED
    BY <1>2, <2>1, <2>2, <2>3, SpoolClaim, SpoolDelete DEF Disk!Next
<1>3. QED
  BY <1>1, <1>2 DEF AllNext, allVars

\* The invariant of the spool holds in every reachable state.
THEOREM SpoolInvariant == AllSpec => []SpoolInv
<1>1. AllInit => SpoolInv
  BY SpoolInit DEF AllInit
<1>2. QED
  BY <1>1, SpoolStep, PTL DEF AllSpec

\* What the spool says it uses is never more than its files hold, whatever evictions,
\* failures and restarts do, and a record is in its queue for as long as it is being sent
\* (monitor/internal/spool).
THEOREM SpoolStaysSafe == AllSpec => []SpoolSafe
<1>1. SpoolInv => SpoolSafe
  <2> SUFFICES ASSUME SpoolInv PROVE SpoolSafe
    OBVIOUS
  <2>1. SpoolTypes /\ OneInFlight /\ Disk!NeverOverstated
    BY DEF SpoolInv
  <2>2. Cardinality(Disk!InFlight) = IF sender.at \in {"send", "delete"} THEN 1 ELSE 0
    <3>1. CASE sender.at \in {"send", "delete"}
      <4>1. PICK i : Disk!InFlight = {i}
        BY <2>1, <3>1 DEF OneInFlight
      <4>2. QED
        BY <3>1, <4>1, FS_Singleton
    <3>2. CASE sender.at \notin {"send", "delete"}
      <4>1. Disk!InFlight = {}
        BY <2>1, <3>2 DEF OneInFlight
      <4>2. QED
        BY <3>2, <4>1, FS_EmptySet
    <3>3. QED
      BY <3>1, <3>2
  <2>3. QED
    BY <2>1, <2>2, SpoolCount DEF SpoolSafe, SpoolTypes, Disk!TypeOK
<1>2. QED
  BY <1>1, SpoolInvariant, PTL

-----------------------------------------------------------------------------
(* The collector.                                                           *)

CollectKinds == {"collection_failed", "collection_recovered",
                 "target_unavailable", "target_recovered"}

\* What the events say of the episodes under way, and what the collector remembers.
Episodes(s, failing, unavailable) ==
  /\ s \in Seq(CollectKinds)
  /\ Collect!InTurn(s, "collection_failed", "collection_recovered")
  /\ Collect!InTurn(s, "target_unavailable", "target_recovered")
  /\ failing <=> Collect!UnderWay(s, Len(s), "collection_failed", "collection_recovered")
  /\ unavailable <=> Collect!UnderWay(s, Len(s), "target_unavailable", "target_recovered")

\* The status shows nothing of an earlier run: a stopped process has no run, and the
\* runtime that waits to enable has none either, unless a Disable has given up.
StatusIsOwn ==
  /\ caller # "idle" => process = "running"
  /\ process = "stopped" => ~on /\ lastError = "none"
  /\ caller = "enabling" /\ ~late => ~on /\ lastError = "none"
  /\ (on /\ ~cancelled /\ ~late /\ lastError # "none") => stamp = counted.enables

\* The inductive invariant of the collector.
CollectInv ==
  Collect!TypeOK /\ Episodes(events, failureActive, targetUnavailable) /\ StatusIsOwn

\* What is under way after the first n events does not depend on the later ones.
LEMMA UnderWayBefore ==
  ASSUME NEW S, NEW s \in Seq(S), NEW e \in S, NEW n \in 0..Len(s), NEW b, NEW x
  PROVE  Collect!UnderWay(Append(s, e), n, b, x) <=> Collect!UnderWay(s, n, b, x)
<1>1. \A i \in 1..n : Append(s, e)[i] = s[i]
  OBVIOUS
<1>2. \A i \in 1..n : \A k \in (i + 1)..n : k \in 1..n
  OBVIOUS
<1>3. QED
  BY <1>1, <1>2 DEF Collect!UnderWay

\* An event that begins an episode when none is under way, ends the one that is, or is
\* of another kind, leaves the episodes in turn.
LEMMA InTurnAppend ==
  ASSUME NEW S, NEW s \in Seq(S), NEW e \in S, NEW b, NEW x, b # x,
         Collect!InTurn(s, b, x),
         e = b => ~Collect!UnderWay(s, Len(s), b, x),
         e = x => Collect!UnderWay(s, Len(s), b, x)
  PROVE  /\ Collect!InTurn(Append(s, e), b, x)
         /\ Collect!UnderWay(Append(s, e), Len(Append(s, e)), b, x)
              <=> (e = b \/ (e # x /\ Collect!UnderWay(s, Len(s), b, x)))
<1> DEFINE t == Append(s, e)
<1>1. /\ t \in Seq(S) /\ Len(t) = Len(s) + 1 /\ DOMAIN t = 1..(Len(s) + 1)
      /\ DOMAIN s = 1..Len(s) /\ Len(s) \in Nat
      /\ t[Len(s) + 1] = e /\ \A i \in 1..Len(s) : t[i] = s[i]
  OBVIOUS
<1>2. \A n \in 0..Len(s) : Collect!UnderWay(t, n, b, x) <=> Collect!UnderWay(s, n, b, x)
  BY UnderWayBefore
<1> HIDE DEF t
<1>3. Collect!InTurn(t, b, x)
  <2> SUFFICES ASSUME NEW i \in 1..(Len(s) + 1)
               PROVE  /\ t[i] = b => ~Collect!UnderWay(t, i - 1, b, x)
                      /\ t[i] = x => Collect!UnderWay(t, i - 1, b, x)
    BY <1>1 DEF Collect!InTurn
  <2>1. i - 1 \in 0..Len(s) /\ (Collect!UnderWay(t, i - 1, b, x) <=> Collect!UnderWay(s, i - 1, b, x))
    BY <1>1, <1>2
  <2>2. CASE i \in 1..Len(s)
    BY <1>1, <2>1, <2>2 DEF Collect!InTurn
  <2>3. CASE i = Len(s) + 1
    <3>1. i - 1 = Len(s) /\ t[i] = e
      BY <1>1, <2>3
    <3>2. QED
      BY <2>1, <3>1
  <2>4. QED
    BY <1>1, <2>2, <2>3
<1>4. ASSUME e = b PROVE Collect!UnderWay(t, Len(t), b, x)
  <2>1. t[Len(t)] = b /\ Len(t) \in 1..Len(t) /\ \A k \in (Len(t) + 1)..Len(t) : t[k] \notin {b, x}
    BY <1>1, <1>4
  <2>2. QED
    BY <2>1 DEF Collect!UnderWay
<1>5. ASSUME e # b, e # x PROVE Collect!UnderWay(t, Len(t), b, x) <=> Collect!UnderWay(s, Len(s), b, x)
  <2>1. ASSUME Collect!UnderWay(t, Len(t), b, x) PROVE Collect!UnderWay(s, Len(s), b, x)
    <3>1. PICK i \in 1..Len(t) : t[i] = b /\ \A k \in (i + 1)..Len(t) : t[k] \notin {b, x}
      BY <2>1 DEF Collect!UnderWay
    <3>2. i \in 1..Len(s) /\ s[i] = b /\ \A k \in (i + 1)..Len(s) : s[k] \notin {b, x}
      BY <1>1, <1>5, <3>1
    <3>3. QED
      BY <3>2 DEF Collect!UnderWay
  <2>2. ASSUME Collect!UnderWay(s, Len(s), b, x) PROVE Collect!UnderWay(t, Len(t), b, x)
    <3>1. PICK i \in 1..Len(s) : s[i] = b /\ \A k \in (i + 1)..Len(s) : s[k] \notin {b, x}
      BY <2>2 DEF Collect!UnderWay
    <3>2. i \in 1..Len(t) /\ t[i] = b /\ \A k \in (i + 1)..Len(t) : t[k] \notin {b, x}
      BY <1>1, <1>5, <3>1
    <3>3. QED
      BY <3>2 DEF Collect!UnderWay
  <2>3. QED
    BY <2>1, <2>2
<1>6. ASSUME e = x PROVE ~Collect!UnderWay(t, Len(t), b, x)
  <2> SUFFICES ASSUME NEW i \in 1..Len(t), t[i] = b, \A k \in (i + 1)..Len(t) : t[k] \notin {b, x}
               PROVE  FALSE
    BY DEF Collect!UnderWay
  <2>1. t[Len(t)] = x
    BY <1>1, <1>6
  <2>2. Len(t) \in (i + 1)..Len(t)
    BY <1>1, <2>1
  <2>3. QED
    BY <2>1, <2>2
<1>7. QED
  BY <1>3, <1>4, <1>5, <1>6 DEF t

\* The four events, each recorded when its episode begins or ends.
LEMMA EpisodeNoted ==
  ASSUME NEW s, NEW f \in BOOLEAN, NEW u \in BOOLEAN, Episodes(s, f, u)
  PROVE  /\ ~f => Episodes(Append(s, "collection_failed"), TRUE, u)
         /\ f => Episodes(Append(s, "collection_recovered"), FALSE, u)
         /\ ~u => Episodes(Append(s, "target_unavailable"), f, TRUE)
         /\ u => Episodes(Append(s, "target_recovered"), f, FALSE)
<1> DEFINE Fails(t) == Collect!UnderWay(t, Len(t), "collection_failed", "collection_recovered")
           Lacks(t) == Collect!UnderWay(t, Len(t), "target_unavailable", "target_recovered")
<1>1. /\ s \in Seq(CollectKinds) /\ (f <=> Fails(s)) /\ (u <=> Lacks(s))
      /\ Collect!InTurn(s, "collection_failed", "collection_recovered")
      /\ Collect!InTurn(s, "target_unavailable", "target_recovered")
  BY DEF Episodes
<1>2. \A e \in CollectKinds : Append(s, e) \in Seq(CollectKinds)
  BY <1>1
<1>3. \A e \in CollectKinds :
        (e = "collection_failed" => ~Fails(s)) /\ (e = "collection_recovered" => Fails(s)) =>
          /\ Collect!InTurn(Append(s, e), "collection_failed", "collection_recovered")
          /\ Fails(Append(s, e)) <=> (e = "collection_failed"
                                       \/ (e # "collection_recovered" /\ Fails(s)))
  BY <1>1, InTurnAppend, "collection_failed" # "collection_recovered"
<1>4. \A e \in CollectKinds :
        (e = "target_unavailable" => ~Lacks(s)) /\ (e = "target_recovered" => Lacks(s)) =>
          /\ Collect!InTurn(Append(s, e), "target_unavailable", "target_recovered")
          /\ Lacks(Append(s, e)) <=> (e = "target_unavailable"
                                       \/ (e # "target_recovered" /\ Lacks(s)))
  BY <1>1, InTurnAppend, "target_unavailable" # "target_recovered"
<1> HIDE DEF Fails, Lacks
<1>5. \A t, g, v : Episodes(t, g, v) <=>
        /\ t \in Seq(CollectKinds) /\ (g <=> Fails(t)) /\ (v <=> Lacks(t))
        /\ Collect!InTurn(t, "collection_failed", "collection_recovered")
        /\ Collect!InTurn(t, "target_unavailable", "target_recovered")
  BY DEF Episodes, Fails, Lacks
<1>6. ASSUME ~f PROVE Episodes(Append(s, "collection_failed"), TRUE, u)
  BY <1>1, <1>2, <1>3, <1>4, <1>5, <1>6 DEF CollectKinds
<1>7. ASSUME f PROVE Episodes(Append(s, "collection_recovered"), FALSE, u)
  BY <1>1, <1>2, <1>3, <1>4, <1>5, <1>7 DEF CollectKinds
<1>8. ASSUME ~u PROVE Episodes(Append(s, "target_unavailable"), f, TRUE)
  BY <1>1, <1>2, <1>3, <1>4, <1>5, <1>8 DEF CollectKinds
<1>9. ASSUME u PROVE Episodes(Append(s, "target_recovered"), f, FALSE)
  BY <1>1, <1>2, <1>3, <1>4, <1>5, <1>9 DEF CollectKinds
<1>10. QED
  BY <1>6, <1>7, <1>8, <1>9

LEMMA NoEpisodes == Episodes(<<>>, FALSE, FALSE)
BY DEF Episodes, Collect!InTurn, Collect!UnderWay

LEMMA CollectInit == Collect!Init => CollectInv
<1> SUFFICES ASSUME Collect!Init PROVE CollectInv
  OBVIOUS
<1>1. Episodes(events, failureActive, targetUnavailable)
  BY NoEpisodes DEF Collect!Init
<1>2. events \in Seq(CollectKinds)
  BY <1>1 DEF Episodes
<1>3. Collect!TypeOK
  BY <1>2 DEF Collect!Init, Collect!TypeOK, Collect!NoRound, CollectKinds
<1>4. StatusIsOwn
  BY DEF Collect!Init, StatusIsOwn
<1>5. QED
  BY <1>1, <1>3, <1>4 DEF CollectInv

\* The steps of the runtime and of the goroutine between the rounds.
LEMMA CollectCalls ==
  CollectInv /\ (\/ Collect!Observe \/ Collect!Disable \/ Collect!Disabled
                 \/ Collect!DisableTimesOut \/ Collect!Tick \/ Collect!RunEnds) => CollectInv'
<1> SUFFICES ASSUME CollectInv,
                    \/ Collect!Observe \/ Collect!Disable \/ Collect!Disabled
                    \/ Collect!DisableTimesOut \/ Collect!Tick \/ Collect!RunEnds
             PROVE  CollectInv'
  OBVIOUS
<1>1. Collect!TypeOK /\ Episodes(events, failureActive, targetUnavailable) /\ StatusIsOwn
  BY DEF CollectInv
<1>2. UNCHANGED <<events, failureActive, targetUnavailable>>
  BY DEF Collect!Observe, Collect!Disable, Collect!Disabled, Collect!DisableTimesOut,
     Collect!Tick, Collect!RunEnds
<1>3. Episodes(events, failureActive, targetUnavailable)'
  BY <1>1, <1>2 DEF Episodes
<1>4. Collect!TypeOK' /\ StatusIsOwn'
  <2> USE <1>1, <1>2 DEF Collect!TypeOK, StatusIsOwn
  <2>1. CASE Collect!Observe
    BY <2>1 DEF Collect!Observe
  <2>2. CASE Collect!Disable
    BY <2>2 DEF Collect!Disable
  <2>3. CASE Collect!DisableTimesOut
    BY <2>3 DEF Collect!DisableTimesOut
  <2>7. CASE Collect!Disabled
    BY <2>7 DEF Collect!Disabled
  <2>4. CASE Collect!Tick
    BY <2>4 DEF Collect!Tick, Collect!NoRound
  <2>5. CASE Collect!RunEnds
    BY <2>5 DEF Collect!RunEnds
  <2>6. QED
    BY <2>1, <2>2, <2>3, <2>4, <2>5, <2>7
<1>5. QED
  BY <1>1, <1>3, <1>4 DEF CollectInv

\* A new run starts with nothing reported.
LEMMA CollectEnable == CollectInv /\ Collect!Enable => CollectInv'
<1> SUFFICES ASSUME CollectInv, Collect!Enable PROVE CollectInv'
  OBVIOUS
<1>1. Collect!TypeOK /\ StatusIsOwn
  BY DEF CollectInv
<1>2. Episodes(events, failureActive, targetUnavailable)'
  BY NoEpisodes DEF Collect!Enable
<1>3. events' \in Seq(CollectKinds)
  BY <1>2 DEF Episodes
<1>4. Collect!TypeOK'
  <2>1. counted' \in [rounds : Nat, enables : Nat]
    BY <1>1 DEF Collect!Enable, Collect!TypeOK
  <2>2. /\ round'.at = "fetch"
        /\ round' \in [at : {"none", "fetch", "publish", "report"},
                      result : {"none", "success", "target_unavailable"}]
    BY DEF Collect!Enable, Collect!NoRound
  <2>3. /\ on' = TRUE /\ cancelled' = FALSE /\ caller' = "idle"
        /\ failureActive' = FALSE /\ targetUnavailable' = FALSE
        /\ UNCHANGED <<process, late, stamp>>
    BY DEF Collect!Enable
  <2>4. QED
    BY <1>1, <1>3, <2>1, <2>2, <2>3 DEF Collect!TypeOK, CollectKinds
<1>5. StatusIsOwn'
  BY <1>1 DEF Collect!Enable, StatusIsOwn
<1>6. QED
  BY <1>2, <1>4, <1>5 DEF CollectInv

\* A failing round begins an episode unless one is under way.
LEMMA CollectFailure ==
  ASSUME CollectInv, Collect!RecordCollectionFailure
  PROVE  Episodes(events', failureActive', targetUnavailable')
<1>1. /\ Episodes(events, failureActive, targetUnavailable)
      /\ failureActive \in BOOLEAN /\ targetUnavailable \in BOOLEAN
  BY DEF CollectInv, Collect!TypeOK
<1>2. QED
  BY <1>1, EpisodeNoted DEF Collect!RecordCollectionFailure

\* A published round ends the failing episode, and begins or ends that of the target.
LEMMA CollectPublished ==
  ASSUME NEW status \in {"success", "target_unavailable"},
         CollectInv, Collect!RecordPublished(status)
  PROVE  Episodes(events', failureActive', targetUnavailable')
<1> DEFINE ended == IF failureActive THEN Append(events, "collection_recovered") ELSE events
<1>1. /\ Episodes(events, failureActive, targetUnavailable)
      /\ failureActive \in BOOLEAN /\ targetUnavailable \in BOOLEAN
  BY DEF CollectInv, Collect!TypeOK
<1>2. Episodes(ended, FALSE, targetUnavailable)
  BY <1>1, EpisodeNoted
<1>3. /\ failureActive' = FALSE /\ targetUnavailable' = (status = "target_unavailable")
      /\ events' = CASE status = "target_unavailable" /\ ~targetUnavailable ->
                          Append(ended, "target_unavailable")
                     [] status = "success" /\ targetUnavailable ->
                          Append(ended, "target_recovered")
                     [] OTHER -> ended
  BY DEF Collect!RecordPublished, Collect!Told
<1> HIDE DEF ended
<1>4. CASE status = "target_unavailable" /\ ~targetUnavailable
  <2>1. Episodes(Append(ended, "target_unavailable"), FALSE, TRUE)
    BY <1>1, <1>2, <1>4, EpisodeNoted
  <2>2. QED
    BY <1>3, <1>4, <2>1
<1>5. CASE status = "success" /\ targetUnavailable
  <2>1. Episodes(Append(ended, "target_recovered"), FALSE, FALSE)
    BY <1>1, <1>2, <1>5, EpisodeNoted
  <2>2. QED
    BY <1>3, <1>5, <2>1
<1>6. CASE targetUnavailable = (status = "target_unavailable")
  BY <1>2, <1>3, <1>6
<1>7. QED
  BY <1>1, <1>4, <1>5, <1>6

LEMMA CollectRound == CollectInv /\ Collect!Round => CollectInv'
<1> SUFFICES ASSUME CollectInv, Collect!Round PROVE CollectInv'
  OBVIOUS
<1>1. Collect!TypeOK /\ Episodes(events, failureActive, targetUnavailable) /\ StatusIsOwn
  BY DEF CollectInv
<1>2. on /\ UNCHANGED <<on, cancelled, caller, process, late, counted>>
  BY <1>1 DEF Collect!TypeOK, Collect!Round, Collect!Fetch, Collect!Publish, Collect!Report
<1>3. /\ round' \in [at : {"none", "fetch", "publish", "report"},
                     result : {"none", "success", "target_unavailable"}]
      /\ round'.at \in {"publish", "report"} => round'.result # "none"
  BY <1>1 DEF Collect!TypeOK, Collect!Round, Collect!Fetch, Collect!Publish, Collect!Report,
     Collect!NoRound, Collect!Drop
<1>4. \/ UNCHANGED <<lastError, stamp>>
      \/ stamp' = counted.enables
  BY DEF Collect!Round, Collect!Fetch, Collect!Publish, Collect!Report, Collect!Drop,
     Collect!Unrecorded, Collect!Update
<1>5. Episodes(events', failureActive', targetUnavailable')
  <2>1. CASE Collect!Unrecorded
    BY <1>1, <2>1 DEF Collect!Unrecorded
  <2>2. CASE Collect!RecordCollectionFailure
    BY <2>2, CollectFailure
  <2>3. CASE Collect!Report
    <3>1. round.result \in {"success", "target_unavailable"}
      BY <1>1, <2>3 DEF Collect!Report, Collect!TypeOK
    <3>2. QED
      BY <2>3, <3>1, CollectPublished DEF Collect!Report
  <2>4. QED
    BY <2>1, <2>2, <2>3 DEF Collect!Round, Collect!Fetch, Collect!Publish, Collect!Drop
<1>6. StatusIsOwn'
  BY <1>1, <1>2, <1>4 DEF StatusIsOwn, Collect!TypeOK
<1>7. Collect!TypeOK'
  <2>1. /\ events' \in Seq(CollectKinds) /\ failureActive' \in BOOLEAN
        /\ targetUnavailable' \in BOOLEAN
    BY <1>1, <1>5 DEF Episodes, Collect!TypeOK, Collect!Round, Collect!Fetch, Collect!Publish,
       Collect!Report, Collect!Drop, Collect!Unrecorded, Collect!RecordCollectionFailure,
       Collect!RecordPublished
  <2>2. stamp' \in Nat
    BY <1>1, <1>4 DEF Collect!TypeOK
  <2>3. QED
    BY <1>1, <1>2, <1>3, <2>1, <2>2 DEF Collect!TypeOK, CollectKinds
<1>8. QED
  BY <1>5, <1>6, <1>7 DEF CollectInv

LEMMA CollectStep == CollectInv /\ [AllNext]_allVars => CollectInv'
<1> SUFFICES ASSUME CollectInv, [AllNext]_allVars PROVE CollectInv'
  OBVIOUS
<1>1. CASE UNCHANGED collectVars
  BY <1>1 DEF collectVars, CollectInv, Collect!TypeOK, Episodes, StatusIsOwn
<1>2. CASE Collect!Next
  BY <1>2, CollectCalls, CollectEnable, CollectRound DEF Collect!Next
<1>3. QED
  BY <1>1, <1>2 DEF AllNext, allVars

\* The invariant of the collector holds in every reachable state.
THEOREM CollectInvariant == AllSpec => []CollectInv
<1>1. AllInit => CollectInv
  BY CollectInit DEF AllInit
<1>2. QED
  BY <1>1, CollectStep, PTL DEF AllSpec

\* Episodes of failing collections and of unavailable targets are reported in turn, once
\* when they begin and once when they end; a stopped process shows no result, and a
\* running one none of an earlier run, unless a Disable has given up waiting
\* (collector.go, runtime.go).
THEOREM CollectStaysSafe == AllSpec => []CollectSafe
<1>1. CollectInv => CollectSafe
  BY DEF CollectInv, CollectSafe, Episodes, StatusIsOwn, Collect!EpisodesAlternate,
     Collect!StoppedIsQuiet
<1>2. QED
  BY <1>1, CollectInvariant, PTL

-----------------------------------------------------------------------------
(* The plugin runtime.                                                      *)

Exporters == 1..MaxExporters
Alive(p) == procs[p].st = "alive"
NoneAlive == \A p \in Exporters : ~Alive(p)

PluginOps == [kind : {"none", "install", "configure", "update", "start", "stop", "restop",
                      "restart", "boot", "migrate", "clean"},
              pc : {"idle", "prepare", "validate", "stop", "clean", "launch", "starting",
                    "commit", "restore", "observe"},
              old : Plugin!Revs, next : Plugin!Revs, rev : Plugin!Revs,
              mode : {"plain", "trial", "restore"},
              onfail : {"none", "block", "return", "ignore", "status"},
              rp : 0..MaxExporters]
Tallies == [revs : 0..MaxRevisions, procs : 0..MaxExporters, starts : Nat, faults : Nat]
ExporterTable == [Exporters -> [st : {"none", "alive", "term", "dead"},
                            rev : 0..(MaxRevisions + 2), intent : BOOLEAN, watched : BOOLEAN]]

PluginTypes == Plugin!TypeOK /\ op \in PluginOps /\ tally \in Tallies

\* What is on the volume: the committed revision can be restored, its number has been given
\* out, and an import under way has written nothing but its own revision.
PluginDurable ==
  /\ Plugin!CommittedRecoverable
  /\ active.id \in (0..tally.revs) \cup {MaxRevisions + 1, MaxRevisions + 2}
  /\ legacy \in {Plugin!NoRev, Plugin!LegacyRev}
  /\ import = "partial" <=> pending
  /\ holder = "transfer" => /\ pending /\ disk \subseteq {Plugin!ImportRev}
                            /\ active \in {Plugin!NoRev, Plugin!ImportRev}

\* The record names every process that nobody has told to end, and without Monitor there is
\* none.
PluginProcesses ==
  /\ \A p \in Exporters : Alive(p) => p = record
  /\ ~Plugin!Up => NoneAlive /\ op = Plugin!Idle
  /\ Plugin!Up => ~pending

\* The slot holds what active.json names, and says that the plugin is stopped only if it
\* should be.
Agreed ==
  /\ slot.active = active
  /\ slot.status = "stopped" => active # Plugin!NoRev /\ active.desired = "stopped"

\* A running process is the slot's, it should run, and it runs the committed revision.
OwnProcess ==
  \A p \in Exporters : Alive(p) =>
     p = slot.proc /\ active.desired = "running" /\ procs[p].rev = active.id

\* The process that the operation has launched.
Launched(r) == op.rp # 0 /\ op.rp = record /\ procs[op.rp].rev = r.id

\* The revision that an operation is to commit.
NextRevision ==
  /\ op.old = active /\ op.next # active /\ op.next # Plugin!NoRev
  /\ IF op.kind = "migrate" THEN op.next = Plugin!LegacyRev /\ active = Plugin!NoRev
                            ELSE op.next.id = tally.revs
  /\ op.kind \in Plugin!Transactions =>
       op.next.desired = (IF active = Plugin!NoRev THEN "running" ELSE active.desired)
  /\ op.kind = "start" =>
       active # Plugin!NoRev /\ active.desired = "stopped" /\ op.next.desired = "running"
  /\ op.kind = "stop" => /\ active # Plugin!NoRev /\ op.next.desired = "stopped"
                         /\ Plugin!Payload(op.next) = Plugin!Payload(active)

\* The steps of each kind of operation up to the commit.
Forwards ==
  /\ op.mode # "restore"
  /\ \/ /\ op.pc = "prepare" /\ op.mode = "plain"
        /\ op.kind \in Plugin!Transactions \cup {"start", "stop", "migrate"}
     \/ op.pc = "validate" /\ op.kind \in Plugin!Transactions /\ op.mode = "trial"
     \/ op.pc = "stop" /\ op.kind \in Plugin!Transactions \cup {"stop"} /\ op.mode = "trial"
     \/ op.pc = "clean" /\ op.kind = "migrate" /\ op.mode = "trial"
     \/ /\ op.pc \in {"launch", "starting"} /\ op.mode = "trial"
        /\ op.kind \in Plugin!Transactions \cup {"migrate"}
     \/ op.pc \in {"launch", "starting"} /\ op.kind = "start" /\ op.mode = "plain"
     \/ op.pc = "commit" /\ op.kind \in Plugin!Transactions \cup {"migrate", "stop", "start"}

\* Numbers are left for the processes that the operation may yet start.
Room ==
  /\ op.kind \in {"stop", "migrate"} /\ op.pc \notin {"starting", "commit"} =>
       tally.procs + 1 <= MaxExporters
  /\ op.kind = "stop" => tally.procs + 1 <= MaxExporters
  /\ op.kind \notin {"stop", "migrate"} =>
       tally.procs + (IF op.pc \in {"starting", "commit"} THEN 1 ELSE 2) <= MaxExporters

\* An operation before its commit.
Advancing ==
  /\ Forwards /\ NextRevision /\ Room /\ Agreed
  /\ op.pc # "prepare" => op.rev = op.next /\ op.next \in disk
  /\ op.pc \notin {"starting", "commit"} => op.rp = 0
  /\ op.pc \in {"prepare", "validate", "stop"} => OwnProcess
  /\ op.pc = "launch" => NoneAlive
  /\ op.kind \in {"start", "migrate"} /\ op.pc \in {"prepare", "clean"} => NoneAlive
  /\ op.pc = "starting" => op.rp # 0
  /\ op.pc \in {"starting", "commit"} /\ op.rp # 0 => Launched(op.next)
  /\ op.pc = "commit" =>
       /\ Plugin!Payload(op.next) \in tested
       /\ IF op.rp = 0 THEN NoneAlive /\ op.next.desired = "stopped"
                       ELSE op.next.desired = "running"

\* The committed revision is brought back: at a start, at a repeated request, or after a
\* failure.
Restoring ==
  /\ op.pc \in {"restore", "launch", "starting"}
  /\ op.mode = (IF op.kind = "clean" THEN "plain" ELSE "restore")
  /\ \/ op.onfail = "block" /\ op.kind \in {"boot", "clean"}
     \/ op.onfail = "return" /\ op.kind = "restart"
     \/ op.onfail = "ignore" /\ op.kind \in Plugin!Transactions
     \/ op.onfail = "status" /\ op.kind \in Plugin!Transactions \cup {"start", "stop"}
  /\ slot.active = active /\ op.rev = active
  /\ IF op.kind = "clean"
     THEN op.pc = "restore" /\ active = Plugin!NoRev /\ slot.status # "stopped"
     ELSE active # Plugin!NoRev
  /\ op.pc # "restore" => active.desired = "running"
  /\ op.onfail \in {"ignore", "return"} => Agreed
  /\ op.onfail = "status" /\ op.kind \in Plugin!Transactions => op.next # active
  /\ op.pc = "launch" => NoneAlive
  /\ op.pc = "starting" => Launched(active)
  /\ op.pc # "starting" => tally.procs + 1 <= MaxExporters

\* The committed revision runs, and the slot is about to be told.
Observing ==
  /\ op.pc = "observe"
  /\ slot.active = active /\ active # Plugin!NoRev /\ active.desired = "running"
  /\ Launched(active)
  /\ op.mode = "restore" /\ op.onfail = "status" /\ op.kind \in Plugin!Transactions =>
       op.next # active

\* A stopped plugin is stopped again.
Restopping ==
  /\ op.pc = "stop" /\ op.kind = "restop"
  /\ Agreed /\ active # Plugin!NoRev /\ active.desired = "stopped" /\ OwnProcess

\* No operation holds the slot.
Resting ==
  /\ op = Plugin!Idle
  /\ slot.blocked => NoneAlive
  /\ shut => NoneAlive
  /\ Plugin!Up /\ ~slot.blocked => Agreed /\ OwnProcess

PluginPhases ==
  \/ Resting
  \/ /\ Plugin!Up /\ ~shut /\ ~slot.blocked
     /\ Advancing \/ Restoring \/ Observing \/ Restopping

\* The plugin runtime's inductive invariant: what each step of each operation can rely on,
\* whatever failed or died before.
PluginInv == PluginTypes /\ PluginDurable /\ PluginProcesses /\ PluginPhases

\* The table after a step in which no process starts and those of `ps` end.
Ended(ps) ==
  /\ procs' \in ExporterTable
  /\ \A p \in Exporters : /\ procs'[p].st = "alive" => Alive(p) /\ p \notin ps
                          /\ procs'[p].rev = procs[p].rev

\* Killing ends the processes that are named.
LEMMA KilledAreEnded ==
  ASSUME NEW ps, PluginTypes, procs' = Plugin!Kill(ps)
  PROVE  Ended(ps)
<1>1. procs \in ExporterTable
  BY DEF PluginTypes, Plugin!TypeOK, ExporterTable, Exporters
<1>2. DOMAIN procs = Exporters
  BY <1>1 DEF ExporterTable
<1>3. ASSUME NEW p \in Exporters
      PROVE  /\ procs'[p] = IF p \in ps /\ procs[p].st # "none"
                            THEN [procs[p] EXCEPT !.st = "dead", !.intent = TRUE] ELSE procs[p]
             /\ procs[p] \in [st : {"none", "alive", "term", "dead"},
                              rev : 0..(MaxRevisions + 2), intent : BOOLEAN, watched : BOOLEAN]
  BY <1>1, <1>2 DEF Plugin!Kill, ExporterTable
<1>4. ASSUME NEW p \in Exporters
      PROVE  /\ procs'[p] \in [st : {"none", "alive", "term", "dead"},
                               rev : 0..(MaxRevisions + 2), intent : BOOLEAN, watched : BOOLEAN]
             /\ procs'[p].st = "alive" => Alive(p) /\ p \notin ps
             /\ procs'[p].rev = procs[p].rev
  BY <1>3 DEF Alive
<1>5. procs' = [p \in Exporters |-> procs'[p]]
  BY <1>2 DEF Plugin!Kill
<1>6. QED
  BY <1>4, <1>5 DEF Ended, ExporterTable

\* Cleaning the record ends the process it names.
LEMMA CleanedAreEnded ==
  ASSUME PluginTypes, procs' = Plugin!Clean
  PROVE  Ended({record})
<1>1. procs \in ExporterTable
  BY DEF PluginTypes, Plugin!TypeOK, ExporterTable, Exporters
<1>2. DOMAIN procs = Exporters
  BY <1>1 DEF ExporterTable
<1>3. ASSUME NEW p \in Exporters
      PROVE  /\ procs'[p] = IF p = record THEN [procs[p] EXCEPT !.st = "dead"] ELSE procs[p]
             /\ procs[p] \in [st : {"none", "alive", "term", "dead"},
                              rev : 0..(MaxRevisions + 2), intent : BOOLEAN, watched : BOOLEAN]
  BY <1>1, <1>2 DEF Plugin!Clean, ExporterTable
<1>4. ASSUME NEW p \in Exporters
      PROVE  /\ procs'[p] \in [st : {"none", "alive", "term", "dead"},
                               rev : 0..(MaxRevisions + 2), intent : BOOLEAN, watched : BOOLEAN]
             /\ procs'[p].st = "alive" => Alive(p) /\ p \notin {record}
             /\ procs'[p].rev = procs[p].rev
  BY <1>3 DEF Alive
<1>5. procs' = [p \in Exporters |-> procs'[p]]
  BY <1>2 DEF Plugin!Clean
<1>6. QED
  BY <1>4, <1>5 DEF Ended, ExporterTable

\* Changes to the entry of one process that leave its revision alone and do not revive it.
LEMMA ChangedIsEnded ==
  ASSUME PluginTypes, NEW p \in Exporters, NEW e, procs' = [procs EXCEPT ![p] = e],
         e \in [st : {"none", "alive", "term", "dead"}, rev : 0..(MaxRevisions + 2),
                intent : BOOLEAN, watched : BOOLEAN],
         e.rev = procs[p].rev, e.st = "alive" => Alive(p)
  PROVE  Ended({})
<1>1. procs \in ExporterTable
  BY DEF PluginTypes, Plugin!TypeOK, ExporterTable, Exporters
<1>2. procs' \in ExporterTable
  BY <1>1 DEF ExporterTable
<1>3. \A q \in Exporters : procs'[q] = IF q = p THEN e ELSE procs[q]
  BY <1>1 DEF ExporterTable
<1>4. QED
  BY <1>2, <1>3 DEF Ended, Alive

\* No change to the table ends none.
LEMMA SameIsEnded ==
  ASSUME PluginTypes, UNCHANGED procs
  PROVE  Ended({})
BY DEF PluginTypes, Plugin!TypeOK, Ended, ExporterTable, Exporters, Alive

\* A launch finds no process alive, and its number is left.
LEMMA PluginLaunch == PluginInv /\ Plugin!Launch => PluginInv'
<1> SUFFICES ASSUME PluginInv, Plugin!Launch PROVE PluginInv'
  OBVIOUS
<1> DEFINE p == tally.procs + 1
<1>1. /\ PluginTypes /\ PluginDurable /\ PluginProcesses
      /\ Plugin!Up /\ ~shut /\ ~slot.blocked /\ (Advancing \/ Restoring)
      /\ op.pc = "launch"
  BY DEF PluginInv, PluginPhases, Plugin!Launch, Resting, Plugin!Idle, Observing, Restopping
<1>2. /\ UNCHANGED <<active, disk, legacy, import, pending, holder, slot, scraping, shut, tested>>
      /\ record' = p /\ op' = [op EXCEPT !.rp = p, !.pc = "starting"]
      /\ tally' = [tally EXCEPT !.procs = p]
      /\ procs' = [procs EXCEPT ![p] = [Plugin!NoProc EXCEPT !.st = "alive", !.rev = op.rev.id]]
  BY DEF Plugin!Launch
<1>3. p \in Exporters /\ NoneAlive
  BY <1>1, PluginAssumption DEF Advancing, Restoring, Room, Exporters, PluginTypes, Tallies
<1>5. /\ tally' \in Tallies /\ tally'.procs = p /\ tally'.revs = tally.revs
  BY <1>1, <1>2, <1>3 DEF PluginTypes, Tallies, Exporters
<1> HIDE DEF p
<1>4. /\ op' \in PluginOps /\ op'.pc = "starting" /\ op'.rp = p /\ op'.kind = op.kind
      /\ op'.old = op.old /\ op'.next = op.next /\ op'.rev = op.rev /\ op'.mode = op.mode
      /\ op'.onfail = op.onfail
  <2>1. op \in PluginOps /\ p \in 0..MaxExporters
    BY <1>1, <1>3, PluginAssumption DEF PluginTypes, Exporters
  <2>2. QED
    BY <1>2, <2>1 DEF PluginOps
<1>6. /\ procs' \in ExporterTable /\ procs'[p].rev = op.rev.id
      /\ \A q \in Exporters : procs'[q].st = "alive" => q = p
  <2>1. op.rev.id \in 0..(MaxRevisions + 2)
    BY <1>1 DEF PluginTypes, PluginOps, Plugin!Revs
  <2>2. procs \in ExporterTable
    BY <1>1 DEF PluginTypes, Plugin!TypeOK, ExporterTable, Exporters
  <2>3. QED
    BY <1>2, <1>3, <2>1, <2>2 DEF ExporterTable, Plugin!NoProc, NoneAlive, Alive
<1>7. PluginTypes'
  BY <1>1, <1>2, <1>3, <1>4, <1>5, <1>6 DEF PluginTypes, Plugin!TypeOK, Exporters, ExporterTable, PluginOps
<1>8. PluginDurable'
  BY <1>1, <1>2, <1>5 DEF PluginDurable, Plugin!CommittedRecoverable
<1>9. PluginProcesses'
  BY <1>1, <1>2, <1>6 DEF PluginProcesses, Plugin!Up, Alive
<1>10. ASSUME Advancing PROVE Advancing'
  <2>1. Forwards'
    BY <1>1, <1>4, <1>10 DEF Advancing, Forwards
  <2>2. NextRevision'
    BY <1>2, <1>4, <1>5, <1>10 DEF Advancing, NextRevision
  <2>3. Room'
    <3>1. tally.procs \in Nat /\ MaxExporters \in Nat /\ p = tally.procs + 1
      BY <1>1, PluginAssumption DEF PluginTypes, Tallies, p
    <3>2. op.kind # "stop"
      BY <1>1, <1>10 DEF Advancing, Forwards, Plugin!Transactions
    <3>3. op.kind # "migrate" => tally.procs + 2 <= MaxExporters
      BY <1>1, <1>10, <3>2 DEF Advancing, Room
    <3>4. QED
      BY <1>4, <1>5, <3>1, <3>2, <3>3 DEF Room
  <2>4. Launched(op.next)' /\ p # 0
    BY <1>2, <1>3, <1>4, <1>6, <1>1, <1>10 DEF Launched, Exporters, Advancing
  <2>5. QED
    BY <1>1, <1>2, <1>4, <1>10, <2>1, <2>2, <2>3, <2>4 DEF Advancing, Agreed
<1>11. Restoring => Restoring'
  BY <1>1, <1>2, <1>3, <1>4, <1>5, <1>6, PluginAssumption DEF Restoring, Agreed, Launched, Exporters
<1>12. QED
  BY <1>1, <1>2, <1>7, <1>8, <1>9, <1>10, <1>11 DEF PluginInv, PluginPhases, Plugin!Up

\* Without an operation the slot, when it is open, agrees with the commit file.
LEMMA PluginAtRest ==
  ASSUME PluginInv, Plugin!CanBegin
  PROVE  /\ PluginTypes /\ PluginDurable /\ PluginProcesses /\ Agreed /\ OwnProcess
         /\ Plugin!Up /\ ~shut /\ ~slot.blocked /\ op = Plugin!Idle
         /\ tally.procs \in Nat /\ MaxExporters \in Nat /\ tally.procs + 2 <= MaxExporters
<1>1. PluginTypes /\ PluginDurable /\ PluginProcesses /\ PluginPhases
  BY DEF PluginInv
<1>2. Plugin!Up /\ ~shut /\ ~slot.blocked /\ op = Plugin!Idle /\ tally.procs + 2 <= MaxExporters
  BY DEF Plugin!CanBegin
<1>3. op.pc = "idle"
  BY <1>2 DEF Plugin!Idle
<1>4. Agreed /\ OwnProcess
  BY <1>1, <1>2, <1>3 DEF PluginPhases, Resting, Advancing, Forwards, Restoring, Observing,
     Restopping
<1>5. tally.procs \in Nat /\ MaxExporters \in Nat
  BY <1>1, PluginAssumption DEF PluginTypes, Tallies
<1>6. QED
  BY <1>1, <1>2, <1>4, <1>5

\* A request that is to commit the revision n.
LEMMA PluginBegins ==
  ASSUME PluginInv, Plugin!CanBegin, NEW n \in Plugin!Revs,
         NEW kind \in Plugin!Transactions \cup {"start", "stop"},
         Plugin!NewRev(n), Plugin!Begin(kind, n, "prepare"),
         UNCHANGED <<active, disk, record, legacy, import, pending, holder, slot, scraping, shut,
                     procs, tested>>,
         kind \in Plugin!Transactions =>
           n.desired = (IF active = Plugin!NoRev THEN "running" ELSE active.desired),
         kind = "start" =>
           active # Plugin!NoRev /\ active.desired = "stopped" /\ n.desired = "running",
         kind = "stop" => /\ active # Plugin!NoRev /\ n.desired = "stopped"
                          /\ Plugin!Payload(n) = Plugin!Payload(active)
  PROVE  PluginInv'
<1>1. /\ PluginTypes /\ PluginDurable /\ PluginProcesses /\ Agreed /\ OwnProcess
      /\ Plugin!Up /\ ~shut /\ ~slot.blocked
      /\ tally.procs \in Nat /\ MaxExporters \in Nat /\ tally.procs + 2 <= MaxExporters
  BY PluginAtRest
<1>2. /\ op'.kind = kind /\ op'.pc = "prepare" /\ op'.old = active /\ op'.next = n
      /\ op'.rev = Plugin!NoRev /\ op'.mode = "plain" /\ op'.onfail = "none" /\ op'.rp = 0
      /\ op' = [kind |-> kind, pc |-> "prepare", old |-> active, next |-> n,
                rev |-> Plugin!NoRev, mode |-> "plain", onfail |-> "none", rp |-> 0]
  BY <1>1 DEF Plugin!Begin, Plugin!Idle, Agreed
<1>3. Plugin!NoRev \in Plugin!Revs /\ active \in Plugin!Revs
  BY <1>1, PluginAssumption DEF Plugin!NoRev, Plugin!Revs, PluginTypes, Plugin!TypeOK
<1>4. op' \in PluginOps
  BY <1>2, <1>3, PluginAssumption DEF PluginOps, Plugin!Transactions
<1>5. /\ tally' \in Tallies /\ tally'.procs = tally.procs /\ tally'.revs = tally.revs + 1
      /\ n.id = tally.revs + 1 /\ tally.revs \in Nat /\ tally.revs < MaxRevisions
      /\ MaxRevisions \in Nat
  BY <1>1, PluginAssumption DEF Plugin!NewRev, PluginTypes, Tallies
<1>6. n # active /\ n # Plugin!NoRev
  BY <1>1, <1>5 DEF PluginDurable, Plugin!NoRev
<1>7. PluginTypes'
  BY <1>1, <1>2, <1>3, <1>4, <1>5, PluginAssumption DEF PluginTypes, Plugin!TypeOK
<1>8. PluginDurable'
  BY <1>1, <1>5 DEF PluginDurable, Plugin!CommittedRecoverable
<1>9. PluginProcesses'
  BY <1>1 DEF PluginProcesses, Plugin!Up, Alive
<1>10. Agreed' /\ OwnProcess'
  BY <1>1 DEF Agreed, OwnProcess, Alive
<1>11. kind = "start" => NoneAlive'
  BY <1>1 DEF OwnProcess, NoneAlive, Alive
<1>12. Forwards'
  BY <1>2 DEF Forwards, Plugin!Transactions
<1>13. NextRevision'
  BY <1>2, <1>5, <1>6 DEF NextRevision, Plugin!Transactions
<1>14. Room'
  BY <1>1, <1>2, <1>5 DEF Room
<1>15. Advancing'
  BY <1>2, <1>10, <1>11, <1>12, <1>13, <1>14 DEF Advancing, Plugin!Transactions
<1>16. QED
  BY <1>1, <1>7, <1>8, <1>9, <1>15 DEF PluginInv, PluginPhases, Plugin!Up

\* The requests that write a revision.
LEMMA PluginRequests ==
  /\ PluginInv
  /\ Plugin!Install \/ Plugin!Configure \/ Plugin!Update
     \/ \E d \in {"running", "stopped"} : Plugin!SetDesired(d)
  => PluginInv'
<1> SUFFICES ASSUME PluginInv,
                    \/ Plugin!Install \/ Plugin!Configure \/ Plugin!Update
                    \/ \E d \in {"running", "stopped"} : Plugin!SetDesired(d)
             PROVE  PluginInv'
  OBVIOUS
<1>1. /\ Plugin!CanBegin
      /\ UNCHANGED <<active, disk, record, legacy, import, pending, holder, slot, scraping,
                     shut, procs, tested>>
  BY DEF Plugin!Install, Plugin!Configure, Plugin!Update, Plugin!SetDesired
<1>2. slot.active = active /\ active \in Plugin!Revs
  BY <1>1, PluginAtRest DEF Agreed, PluginTypes, Plugin!TypeOK
<1>3. tally.revs \in Nat /\ MaxRevisions \in Nat /\ ReleaseVersions \subseteq Nat
      /\ 1 \in ReleaseVersions
  BY <1>1, PluginAtRest, PluginAssumption DEF PluginTypes, Tallies
<1>10. ASSUME NEW n, Plugin!NewRev(n), n.id = tally.revs + 1
       PROVE  tally.revs + 1 \in 0..(MaxRevisions + 2)
  <2>1. tally.revs < MaxRevisions
    BY <1>10 DEF Plugin!NewRev
  <2>2. QED
    BY <1>3, <2>1
<1>4. CASE Plugin!Install
  <2> DEFINE n == [id |-> tally.revs + 1, v |-> 1, c |-> tally.revs + 1, desired |-> "running"]
  <2>1. /\ active = Plugin!NoRev /\ Plugin!NewRev(n) /\ Plugin!Begin("install", n, "prepare")
    BY <1>2, <1>4 DEF Plugin!Install
  <2>5. tally.revs + 1 \in 0..(MaxRevisions + 2)
    BY <1>10, <2>1
  <2>2. n \in Plugin!Revs
    BY <1>3, <2>5 DEF Plugin!Revs
  <2>3. n.desired = "running"
    OBVIOUS
  <2> HIDE DEF n
  <2>4. QED
    BY <1>1, <2>1, <2>2, <2>3, PluginBegins DEF Plugin!Transactions
<1>5. CASE Plugin!Configure
  <2> DEFINE n == [active EXCEPT !.id = tally.revs + 1, !.c = tally.revs + 1]
  <2>1. active # Plugin!NoRev /\ Plugin!NewRev(n) /\ Plugin!Begin("configure", n, "prepare")
    BY <1>2, <1>5 DEF Plugin!Configure
  <2>6. tally.revs + 1 \in 0..(MaxRevisions + 2)
    <3>1. n.id = tally.revs + 1
      BY <1>2 DEF Plugin!Revs
    <3>2. QED
      BY <1>10, <2>1, <3>1
  <2>2. n \in Plugin!Revs /\ n.desired = active.desired
    BY <1>2, <1>3, <2>6 DEF Plugin!Revs
  <2> HIDE DEF n
  <2>4. QED
    BY <1>1, <2>1, <2>2, PluginBegins DEF Plugin!Transactions
<1>6. CASE Plugin!Update
  <2>1. PICK v \in ReleaseVersions :
          /\ Plugin!NewRev([active EXCEPT !.id = tally.revs + 1, !.v = v])
          /\ Plugin!Begin("update", [active EXCEPT !.id = tally.revs + 1, !.v = v], "prepare")
    BY <1>2, <1>6 DEF Plugin!Update
  <2> DEFINE n == [active EXCEPT !.id = tally.revs + 1, !.v = v]
  <2>2. active # Plugin!NoRev /\ Plugin!NewRev(n) /\ Plugin!Begin("update", n, "prepare")
    BY <1>2, <1>6, <2>1 DEF Plugin!Update
  <2>6. tally.revs + 1 \in 0..(MaxRevisions + 2)
    <3>1. n.id = tally.revs + 1
      BY <1>2 DEF Plugin!Revs
    <3>2. QED
      BY <1>10, <2>2, <3>1
  <2>3. n \in Plugin!Revs /\ n.desired = active.desired
    BY <1>2, <1>3, <2>6 DEF Plugin!Revs
  <2> HIDE DEF n
  <2>4. QED
    BY <1>1, <2>2, <2>3, PluginBegins DEF Plugin!Transactions
<1>7. ASSUME NEW d \in {"running", "stopped"}, Plugin!SetDesired(d) PROVE PluginInv'
  <2> DEFINE n == [active EXCEPT !.id = tally.revs + 1, !.desired = d]
             kind == IF d = "running" THEN "start" ELSE "stop"
  <2>1. /\ active # Plugin!NoRev /\ active.desired # d
        /\ Plugin!NewRev(n) /\ Plugin!Begin(kind, n, "prepare")
    BY <1>2, <1>7 DEF Plugin!SetDesired
  <2>6. tally.revs + 1 \in 0..(MaxRevisions + 2)
    <3>1. n.id = tally.revs + 1
      BY <1>2 DEF Plugin!Revs
    <3>2. QED
      BY <1>10, <2>1, <3>1
  <2>2. /\ n \in Plugin!Revs /\ n.desired = d
        /\ Plugin!Payload(n) = Plugin!Payload(active)
        /\ active.desired \in {"running", "stopped"}
    BY <1>2, <1>3, <2>6 DEF Plugin!Revs, Plugin!Payload
  <2>3. /\ kind \in {"start", "stop"}
        /\ kind = "start" => d = "running"
        /\ kind = "stop" => d = "stopped"
        /\ kind \notin Plugin!Transactions
    BY DEF Plugin!Transactions
  <2> HIDE DEF n, kind
  <2>4. QED
    BY <1>1, <2>1, <2>2, <2>3, PluginBegins
<1>8. QED
  BY <1>4, <1>5, <1>6, <1>7

\* A start of Monitor, whatever an earlier one left.
LEMMA PluginStart == PluginInv /\ Plugin!StartMonitor => PluginInv'
<1> SUFFICES ASSUME PluginInv, Plugin!StartMonitor PROVE PluginInv'
  OBVIOUS
<1>1. /\ PluginTypes /\ PluginDurable /\ PluginProcesses
      /\ NoneAlive /\ op = Plugin!Idle /\ ~pending
      /\ tally.procs < MaxExporters
      /\ UNCHANGED <<active, disk, record, legacy, import, pending, procs, tested>>
      /\ tally' = [tally EXCEPT !.starts = @ + 1]
      /\ holder' = "monitor" /\ slot' = [Plugin!EmptySlot EXCEPT !.active = active]
      /\ scraping' = "off" /\ shut' = FALSE
  BY DEF PluginInv, Plugin!StartMonitor, PluginProcesses, Plugin!Up
<1>2. /\ tally' \in Tallies /\ tally'.procs = tally.procs /\ tally'.revs = tally.revs
      /\ tally.procs \in Nat /\ MaxExporters \in Nat /\ tally.procs + 1 <= MaxExporters
  BY <1>1, PluginAssumption DEF PluginTypes, Tallies
<1>3. /\ slot'.active = active /\ slot'.status = "none" /\ slot'.blocked = FALSE
      /\ slot' \in [active : Plugin!Revs, proc : 0..MaxExporters,
                    status : {"none", "running", "stopped", "failed"}, blocked : BOOLEAN]
  <2>1. active \in Plugin!Revs /\ 0 \in 0..MaxExporters
    BY <1>1, PluginAssumption DEF PluginTypes, Plugin!TypeOK
  <2>2. slot' = [active |-> active, proc |-> 0, status |-> "none", blocked |-> FALSE]
    BY <1>1 DEF Plugin!EmptySlot
  <2>3. QED
    BY <2>1, <2>2
<1>4. /\ Plugin!NoRev \in Plugin!Revs /\ active \in Plugin!Revs /\ legacy \in Plugin!Revs
      /\ 0 \in 0..MaxExporters
  BY <1>1, PluginAssumption DEF Plugin!NoRev, Plugin!Revs, PluginTypes, Plugin!TypeOK
<1>5. PluginDurable'
  BY <1>1, <1>2 DEF PluginDurable, Plugin!CommittedRecoverable
<1>6. PluginProcesses'
  BY <1>1 DEF PluginProcesses, Plugin!Up, Alive
<1>7. ASSUME op' \in PluginOps PROVE PluginTypes'
  BY <1>1, <1>2, <1>3, <1>7 DEF PluginTypes, Plugin!TypeOK, PluginOps
<1>8. Agreed'
  BY <1>1, <1>3 DEF Agreed
<1>9. CASE active # Plugin!NoRev
  <2>1. op' = [kind |-> "boot", pc |-> "restore", old |-> Plugin!NoRev, next |-> Plugin!NoRev,
               rev |-> active, mode |-> "restore", onfail |-> "block", rp |-> 0]
    BY <1>9 DEF Plugin!StartMonitor, Plugin!Idle
  <2>2. op' \in PluginOps
    BY <1>4, <2>1 DEF PluginOps
  <2>3. Restoring'
    BY <1>1, <1>2, <1>3, <1>9, <2>1 DEF Restoring, Plugin!Transactions
  <2>4. QED
    BY <1>1, <1>3, <1>5, <1>6, <1>7, <2>2, <2>3 DEF PluginInv, PluginPhases, Plugin!Up
<1>10. CASE active = Plugin!NoRev /\ legacy # Plugin!NoRev
  <2>1. op' = [kind |-> "migrate", pc |-> "prepare", old |-> Plugin!NoRev, next |-> legacy,
               rev |-> Plugin!NoRev, mode |-> "plain", onfail |-> "block", rp |-> 0]
    BY <1>10 DEF Plugin!StartMonitor, Plugin!Idle
  <2>2. op' \in PluginOps
    BY <1>4, <2>1 DEF PluginOps
  <2>3. legacy = Plugin!LegacyRev
    BY <1>1, <1>10 DEF PluginDurable
  <2>4. Forwards' /\ NextRevision' /\ Room'
    BY <1>1, <1>2, <1>10, <2>1, <2>3 DEF Forwards, NextRevision, Room, Plugin!Transactions
  <2>5. NoneAlive' /\ OwnProcess'
    BY <1>1 DEF NoneAlive, OwnProcess, Alive
  <2>6. Advancing'
    BY <1>8, <2>1, <2>4, <2>5 DEF Advancing
  <2>7. QED
    BY <1>1, <1>3, <1>5, <1>6, <1>7, <2>2, <2>6 DEF PluginInv, PluginPhases, Plugin!Up
<1>11. CASE active = Plugin!NoRev /\ legacy = Plugin!NoRev
  <2>1. op' = [kind |-> "clean", pc |-> "restore", old |-> Plugin!NoRev, next |-> Plugin!NoRev,
               rev |-> Plugin!NoRev, mode |-> "plain", onfail |-> "block", rp |-> 0]
    BY <1>11 DEF Plugin!StartMonitor, Plugin!Idle
  <2>2. op' \in PluginOps
    BY <1>4, <2>1 DEF PluginOps
  <2>3. Restoring'
    BY <1>1, <1>2, <1>3, <1>11, <2>1 DEF Restoring, Plugin!Transactions
  <2>4. QED
    BY <1>1, <1>3, <1>5, <1>6, <1>7, <2>2, <2>3 DEF PluginInv, PluginPhases, Plugin!Up
<1>12. QED
  BY <1>9, <1>10, <1>11

\* A request that repeats the desired state.
LEMMA PluginRepeat == PluginInv /\ Plugin!Repeat => PluginInv'
<1> SUFFICES ASSUME PluginInv, Plugin!Repeat PROVE PluginInv'
  OBVIOUS
<1>1. /\ PluginTypes /\ PluginDurable /\ PluginProcesses /\ Agreed /\ OwnProcess
      /\ Plugin!Up /\ ~shut /\ ~slot.blocked /\ slot.active = active
      /\ tally.procs \in Nat /\ MaxExporters \in Nat /\ tally.procs + 1 <= MaxExporters
      /\ active # Plugin!NoRev
      /\ UNCHANGED <<active, disk, record, legacy, import, pending, holder, slot, scraping, shut,
                     procs, tested, tally>>
  BY PluginAtRest DEF Plugin!Repeat, Agreed
<1>2. /\ Plugin!NoRev \in Plugin!Revs /\ active \in Plugin!Revs /\ 0 \in 0..MaxExporters
      /\ active.desired \in {"running", "stopped"}
  BY <1>1, PluginAssumption DEF Plugin!NoRev, Plugin!Revs, PluginTypes, Plugin!TypeOK
<1>3. PluginDurable'
  BY <1>1 DEF PluginDurable, Plugin!CommittedRecoverable
<1>4. PluginProcesses'
  BY <1>1 DEF PluginProcesses, Plugin!Up, Alive
<1>5. ASSUME op' \in PluginOps PROVE PluginTypes'
  BY <1>1, <1>5 DEF PluginTypes, Plugin!TypeOK, PluginOps
<1>6. Agreed' /\ OwnProcess'
  BY <1>1 DEF Agreed, OwnProcess, Alive
<1>7. CASE active.desired = "stopped"
  <2>1. op' = [kind |-> "restop", pc |-> "stop", old |-> active, next |-> Plugin!NoRev,
               rev |-> Plugin!NoRev, mode |-> "plain", onfail |-> "none", rp |-> 0]
    BY <1>1, <1>7 DEF Plugin!Repeat, Plugin!Idle
  <2>2. op' \in PluginOps
    BY <1>2, <2>1 DEF PluginOps
  <2>3. Restopping'
    BY <1>1, <1>6, <1>7, <2>1 DEF Restopping
  <2>4. QED
    BY <1>1, <1>3, <1>4, <1>5, <2>2, <2>3 DEF PluginInv, PluginPhases, Plugin!Up
<1>8. CASE active.desired = "running"
  <2>1. op' = [kind |-> "restart", pc |-> "restore", old |-> Plugin!NoRev, next |-> Plugin!NoRev,
               rev |-> active, mode |-> "restore", onfail |-> "return", rp |-> 0]
    BY <1>1, <1>8 DEF Plugin!Repeat, Plugin!Idle
  <2>2. op' \in PluginOps
    BY <1>2, <2>1 DEF PluginOps
  <2>3. Restoring'
    BY <1>1, <1>6, <2>1 DEF Restoring, Plugin!Transactions
  <2>4. QED
    BY <1>1, <1>3, <1>4, <1>5, <2>2, <2>3 DEF PluginInv, PluginPhases, Plugin!Up
<1>9. QED
  BY <1>2, <1>7, <1>8

\* Steps that only end processes, or that change the collector, the tallies or what a process
\* is watched for, leave every phase as it is.
LEMMA PhasesOutlastExits ==
  ASSUME PluginPhases, Ended({}), tally'.procs = tally.procs, tally'.revs = tally.revs,
         UNCHANGED <<active, disk, record, holder, slot, op, shut, tested>>,
         procs' \in ExporterTable, PluginTypes
  PROVE  PluginPhases'
<1>1. \A p \in Exporters : Alive(p)' => Alive(p)
  BY DEF Ended, Alive
<1>2. \A p \in Exporters : procs'[p].rev = procs[p].rev
  BY DEF Ended
<1>3. (NoneAlive => NoneAlive') /\ (OwnProcess => OwnProcess')
  BY <1>1, <1>2 DEF NoneAlive, OwnProcess, Alive
<1>4. Agreed => Agreed'
  BY DEF Agreed
<1>5. op.rp \in 0..MaxExporters
  BY DEF PluginTypes, PluginOps
<1>6. \A r : Launched(r) => op.rp # 0 /\ op.rp = record /\ procs'[op.rp].rev = r.id
  BY <1>2, <1>5, PluginAssumption DEF Launched, Exporters
<1>7. (Launched(op.next) => Launched(op.next)') /\ (Launched(active) => Launched(active)')
  BY <1>6 DEF Launched
<1>8. Resting => Resting'
  BY <1>3, <1>4 DEF Resting, Plugin!Up
<1>9. Advancing => Advancing'
  BY <1>3, <1>4, <1>7 DEF Advancing, Forwards, NextRevision, Room
<1>10. Restoring => Restoring'
  BY <1>3, <1>4, <1>7 DEF Restoring
<1>11. Observing => Observing'
  BY <1>7 DEF Observing
<1>12. Restopping => Restopping'
  BY <1>3, <1>4 DEF Restopping
<1>13. QED
  BY <1>8, <1>9, <1>10, <1>11, <1>12 DEF PluginPhases, Plugin!Up

SlotType == [active : Plugin!Revs, proc : 0..MaxExporters,
             status : {"none", "running", "stopped", "failed"}, blocked : BOOLEAN]

\* What a step of an operation that neither launches nor commits has to show besides its
\* phase: it ends the processes it forgets, and keeps the files of the committed revision.
LEMMA PluginSteps ==
  ASSUME PluginInv, Plugin!Up, NEW ps, Ended(ps),
         UNCHANGED <<active, legacy, import, pending, holder>>,
         disk' \subseteq Plugin!Revs, active \in disk => active \in disk', tested \subseteq tested',
         tally' \in Tallies, tally'.revs = tally.revs, op' \in PluginOps, shut' \in BOOLEAN,
         slot' \in SlotType, scraping' \in {"off", "on", "stopping"},
         record' \in 0..MaxExporters, record' = record \/ NoneAlive'
  PROVE  PluginTypes' /\ PluginDurable' /\ PluginProcesses'
<1>1. PluginTypes /\ PluginDurable /\ PluginProcesses /\ holder = "monitor"
  BY DEF PluginInv, Plugin!Up
<1>2. procs' \in ExporterTable /\ \A p \in Exporters : Alive(p)' => Alive(p)
  BY DEF Ended, Alive
<1>3. PluginTypes'
  BY <1>1, <1>2 DEF PluginTypes, Plugin!TypeOK, PluginOps, ExporterTable, Exporters, SlotType
<1>4. PluginDurable'
  BY <1>1 DEF PluginDurable, Plugin!CommittedRecoverable
<1>5. PluginProcesses'
  BY <1>1, <1>2 DEF PluginProcesses, Plugin!Up, NoneAlive
<1>6. QED
  BY <1>3, <1>4, <1>5

\* An exit leaves what the operation under way relies on.
LEMMA PluginExit == ASSUME NEW p \in Exporters, PluginInv, Plugin!Exit(p) PROVE PluginInv'
<1>1. /\ PluginTypes /\ PluginDurable /\ PluginProcesses /\ PluginPhases
      /\ UNCHANGED <<active, disk, record, legacy, import, pending, holder, slot, scraping, op,
                     shut, tested>>
      /\ procs' = [procs EXCEPT ![p].st = "dead"]
      /\ UNCHANGED tally \/ tally' = [tally EXCEPT !.faults = @ + 1]
  BY DEF PluginInv, Plugin!Exit, Plugin!Fault
<1>2. tally' \in Tallies /\ tally'.procs = tally.procs /\ tally'.revs = tally.revs
  BY <1>1 DEF PluginTypes, Tallies
<1>3. Ended({})
  <2>1. procs[p] \in [st : {"none", "alive", "term", "dead"}, rev : 0..(MaxRevisions + 2),
                      intent : BOOLEAN, watched : BOOLEAN]
    BY <1>1 DEF PluginTypes, Plugin!TypeOK, Exporters
  <2>2. PICK e : e = [procs[p] EXCEPT !.st = "dead"]
    OBVIOUS
  <2>3. procs' = [procs EXCEPT ![p] = e]
    BY <1>1, <2>2
  <2>4. /\ e.rev = procs[p].rev /\ e.st = "dead"
        /\ e \in [st : {"none", "alive", "term", "dead"}, rev : 0..(MaxRevisions + 2),
                  intent : BOOLEAN, watched : BOOLEAN]
    BY <2>1, <2>2
  <2>5. QED
    BY <1>1, <2>3, <2>4, ChangedIsEnded
<1>4. procs' \in ExporterTable /\ \A q \in Exporters : Alive(q)' => Alive(q)
  BY <1>3 DEF Ended, Alive
<1>5. PluginPhases'
  BY <1>1, <1>2, <1>3, <1>4, PhasesOutlastExits
<1>6. PluginTypes'
  BY <1>1, <1>2, <1>4 DEF PluginTypes, Plugin!TypeOK, ExporterTable, Exporters
<1>7. PluginDurable'
  BY <1>1, <1>2 DEF PluginDurable, Plugin!CommittedRecoverable
<1>8. PluginProcesses'
  BY <1>1, <1>4 DEF PluginProcesses, Plugin!Up, NoneAlive
<1>9. QED
  BY <1>5, <1>6, <1>7, <1>8 DEF PluginInv

\* The collector's last round ends.
LEMMA PluginScrapeEnds == PluginInv /\ Plugin!ScrapeEnds => PluginInv'
<1> SUFFICES ASSUME PluginInv, Plugin!ScrapeEnds PROVE PluginInv'
  OBVIOUS
<1>1. /\ PluginTypes /\ PluginDurable /\ PluginProcesses /\ PluginPhases
      /\ UNCHANGED <<active, disk, record, legacy, import, pending, holder, slot, op, shut,
                     procs, tested, tally>>
      /\ scraping' = "off"
  BY DEF PluginInv, Plugin!ScrapeEnds
<1>2. Ended({}) /\ procs' \in ExporterTable
  BY <1>1, SameIsEnded DEF Ended
<1>3. PluginPhases'
  BY <1>1, <1>2, PhasesOutlastExits
<1>4. PluginTypes'
  BY <1>1 DEF PluginTypes, Plugin!TypeOK
<1>5. PluginDurable' /\ PluginProcesses'
  BY <1>1 DEF PluginDurable, Plugin!CommittedRecoverable, PluginProcesses, Plugin!Up, NoneAlive, Alive
<1>6. QED
  BY <1>3, <1>4, <1>5 DEF PluginInv

\* The watcher forgets a process that is dead, and no other.
LEMMA PluginWatch == ASSUME NEW p \in Exporters, PluginInv, Plugin!Watch(p) PROVE PluginInv'
<1>1. /\ PluginTypes /\ PluginDurable /\ PluginProcesses /\ PluginPhases
      /\ Plugin!Up /\ op = Plugin!Idle /\ op.pc = "idle" /\ procs[p].st = "dead"
      /\ UNCHANGED <<active, disk, record, legacy, import, pending, holder, op, shut, tested, tally>>
      /\ procs' = [procs EXCEPT ![p].watched = FALSE]
  BY DEF PluginInv, Plugin!Watch, Plugin!Idle
<1>2. /\ scraping' \in {"off", "on", "stopping"}
      /\ \/ UNCHANGED slot
         \/ slot.proc = p /\ slot' = [slot EXCEPT !.proc = 0, !.status = "failed"]
  BY <1>1 DEF Plugin!Watch, PluginTypes, Plugin!TypeOK
<1>3. /\ slot' \in SlotType /\ slot'.active = slot.active /\ slot'.blocked = slot.blocked
      /\ slot'.status \in {slot.status, "failed"}
      /\ slot'.proc = slot.proc \/ slot.proc = p
  <2>1. slot \in SlotType /\ 0 \in 0..MaxExporters
    BY <1>1, PluginAssumption DEF PluginTypes, Plugin!TypeOK, SlotType
  <2>2. CASE UNCHANGED slot
    BY <2>1, <2>2
  <2>3. CASE slot.proc = p /\ slot' = [slot EXCEPT !.proc = 0, !.status = "failed"]
    BY <2>1, <2>3 DEF SlotType
  <2>4. QED
    BY <1>2, <2>2, <2>3
<1>4. Ended({})
  <2>1. procs[p] \in [st : {"none", "alive", "term", "dead"}, rev : 0..(MaxRevisions + 2),
                      intent : BOOLEAN, watched : BOOLEAN]
    BY <1>1 DEF PluginTypes, Plugin!TypeOK, Exporters
  <2>2. PICK e : e = [procs[p] EXCEPT !.watched = FALSE]
    OBVIOUS
  <2>3. procs' = [procs EXCEPT ![p] = e]
    BY <1>1, <2>2
  <2>4. /\ e.rev = procs[p].rev /\ e.st = procs[p].st
        /\ e \in [st : {"none", "alive", "term", "dead"}, rev : 0..(MaxRevisions + 2),
                  intent : BOOLEAN, watched : BOOLEAN]
    BY <2>1, <2>2
  <2>5. QED
    BY <1>1, <2>3, <2>4, ChangedIsEnded DEF Alive
<1>5. Resting
  BY <1>1 DEF PluginPhases, Advancing, Forwards, Restoring, Observing, Restopping
<1>6. /\ \A q \in Exporters : Alive(q)' => Alive(q)
      /\ \A q \in Exporters : procs'[q].rev = procs[q].rev
  BY <1>4 DEF Ended, Alive
<1>7. NoneAlive => NoneAlive'
  BY <1>6 DEF NoneAlive
<1>8. Agreed => Agreed'
  BY <1>1, <1>3 DEF Agreed
<1>9. OwnProcess => OwnProcess'
  <2> SUFFICES ASSUME OwnProcess, NEW q \in Exporters, Alive(q)'
               PROVE  q = slot'.proc /\ active.desired = "running" /\ procs'[q].rev = active.id
    BY <1>1 DEF OwnProcess
  <2>1. q = slot.proc /\ active.desired = "running" /\ procs[q].rev = active.id /\ Alive(q)
    BY <1>6 DEF OwnProcess
  <2>2. q # p
    BY <1>1, <2>1 DEF Alive
  <2>3. QED
    BY <1>3, <1>6, <2>1, <2>2
<1>10. PluginPhases'
  BY <1>1, <1>3, <1>5, <1>7, <1>8, <1>9 DEF PluginPhases, Resting, Plugin!Up
<1>11. PluginTypes' /\ PluginDurable' /\ PluginProcesses'
  <2>1. /\ disk' \subseteq Plugin!Revs /\ tally' \in Tallies /\ op' \in PluginOps
        /\ shut' \in BOOLEAN /\ record' \in 0..MaxExporters
    BY <1>1 DEF PluginTypes, Plugin!TypeOK
  <2>2. QED
    BY <1>1, <1>2, <1>3, <1>4, <2>1, PluginSteps
<1>12. QED
  BY <1>10, <1>11 DEF PluginInv

\* The shutdown ends the slot's process and the recorded one.
LEMMA PluginShutdown == PluginInv /\ Plugin!Shutdown => PluginInv'
<1> SUFFICES ASSUME PluginInv, Plugin!Shutdown PROVE PluginInv'
  OBVIOUS
<1>1. /\ PluginTypes /\ PluginDurable /\ PluginProcesses /\ PluginPhases
      /\ Plugin!Up /\ op = Plugin!Idle /\ op.pc = "idle" /\ ~slot.blocked
      /\ shut' = TRUE /\ scraping' = "off" /\ record' = 0
      /\ procs' = Plugin!Kill({slot.proc, record}) /\ slot' = [slot EXCEPT !.proc = 0]
      /\ UNCHANGED <<active, disk, legacy, import, pending, holder, op, tested, tally>>
  BY DEF PluginInv, Plugin!Shutdown, Plugin!Idle
<1>2. Ended({slot.proc, record})
  BY <1>1, KilledAreEnded
<1>3. NoneAlive'
  BY <1>1, <1>2 DEF Ended, NoneAlive, Alive, PluginProcesses
<1>4. slot' \in SlotType /\ slot'.active = slot.active /\ slot'.status = slot.status
  BY <1>1, PluginAssumption DEF PluginTypes, Plugin!TypeOK, SlotType
<1>5. PluginTypes' /\ PluginDurable' /\ PluginProcesses'
  <2>1. /\ disk' \subseteq Plugin!Revs /\ tally' \in Tallies /\ op' \in PluginOps
        /\ record' \in 0..MaxExporters
    BY <1>1, PluginAssumption DEF PluginTypes, Plugin!TypeOK
  <2>2. QED
    BY <1>1, <1>2, <1>3, <1>4, <2>1, PluginSteps
<1>6. Resting
  BY <1>1 DEF PluginPhases, Advancing, Forwards, Restoring, Observing, Restopping
<1>7. Agreed' /\ OwnProcess'
  BY <1>1, <1>3, <1>4, <1>6 DEF Resting, Agreed, OwnProcess, NoneAlive
<1>8. QED
  BY <1>1, <1>3, <1>5, <1>7 DEF PluginInv, PluginPhases, Resting

\* The end of Monitor sends SIGTERM to every process.
LEMMA PluginMonitorEnds == PluginInv /\ Plugin!MonitorEnds => PluginInv'
<1> SUFFICES ASSUME PluginInv, Plugin!MonitorEnds PROVE PluginInv'
  OBVIOUS
<1>1. /\ PluginTypes /\ PluginDurable /\ PluginProcesses /\ Plugin!Up
      /\ holder' = "free" /\ slot' = Plugin!EmptySlot /\ op' = Plugin!Idle
      /\ scraping' = "off" /\ shut' = FALSE
      /\ UNCHANGED <<active, disk, record, legacy, import, pending, tested, tally>>
  BY DEF PluginInv, Plugin!MonitorEnds
<1>2. procs' \in ExporterTable /\ NoneAlive'
  <2>1. procs \in ExporterTable /\ DOMAIN procs = Exporters
    BY <1>1 DEF PluginTypes, Plugin!TypeOK, ExporterTable, Exporters
  <2>2. procs' = [p \in Exporters |-> [procs[p] EXCEPT !.st = IF @ = "alive" THEN "term" ELSE @,
                                      !.watched = FALSE, !.intent = FALSE]]
    BY <2>1 DEF Plugin!MonitorEnds
  <2>3. ASSUME NEW p \in Exporters
        PROVE  /\ procs'[p] \in [st : {"none", "alive", "term", "dead"},
                                 rev : 0..(MaxRevisions + 2), intent : BOOLEAN, watched : BOOLEAN]
               /\ procs'[p].st # "alive"
    BY <2>1, <2>2 DEF ExporterTable
  <2>4. procs' = [p \in Exporters |-> procs'[p]]
    BY <2>2
  <2>5. QED
    BY <2>3, <2>4 DEF ExporterTable, NoneAlive, Alive
<1>3. /\ Plugin!NoRev \in Plugin!Revs /\ 0 \in 0..MaxExporters
  BY PluginAssumption DEF Plugin!NoRev, Plugin!Revs
<1>4. op' \in PluginOps /\ slot' \in SlotType /\ slot'.blocked = FALSE
  BY <1>1, <1>3 DEF PluginOps, Plugin!Idle, SlotType, Plugin!EmptySlot
<1>5. PluginTypes'
  BY <1>1, <1>2, <1>4 DEF PluginTypes, Plugin!TypeOK, PluginOps, SlotType, ExporterTable, Exporters
<1>6. PluginDurable' /\ PluginProcesses'
  BY <1>1, <1>2 DEF PluginDurable, Plugin!CommittedRecoverable, PluginProcesses, Plugin!Up,
     NoneAlive
<1>7. PluginPhases'
  BY <1>1, <1>2 DEF PluginPhases, Resting, Plugin!Up
<1>8. QED
  BY <1>5, <1>6, <1>7 DEF PluginInv

\* An import begins, goes on and ends only while no Monitor holds the lease.
LEMMA PluginImports ==
  /\ PluginInv
  /\ Plugin!ImportBegin \/ Plugin!ImportWrite \/ Plugin!ImportEnd \/ Plugin!ImportFails
  => PluginInv'
<1> SUFFICES ASSUME PluginInv,
                    \/ Plugin!ImportBegin \/ Plugin!ImportWrite \/ Plugin!ImportEnd
                    \/ Plugin!ImportFails
             PROVE  PluginInv'
  OBVIOUS
<1>1. /\ PluginTypes /\ PluginDurable /\ PluginProcesses
      /\ ~Plugin!Up /\ NoneAlive /\ op = Plugin!Idle
      /\ UNCHANGED <<record, legacy, slot, scraping, op, shut, procs>>
      /\ holder' \in {"free", "transfer"}
  BY DEF PluginInv, PluginProcesses, Plugin!ImportBegin, Plugin!ImportWrite, Plugin!ImportEnd,
     Plugin!ImportFails, Plugin!Up
<1>2. tally' \in Tallies /\ tally'.revs = tally.revs
  BY <1>1 DEF PluginTypes, Tallies, Plugin!ImportBegin, Plugin!ImportWrite, Plugin!ImportEnd,
     Plugin!ImportFails, Plugin!Fault
<1>3. Plugin!ImportRev \in Plugin!Revs /\ Plugin!NoRev \in Plugin!Revs
  BY PluginAssumption DEF Plugin!ImportRev, Plugin!NoRev, Plugin!Revs
<1>4. /\ active' \in {active, Plugin!NoRev, Plugin!ImportRev}
      /\ disk' = disk \/ disk' \subseteq {Plugin!ImportRev}
      /\ import' \in {"none", "partial", "whole"} /\ pending' \in BOOLEAN
  BY <1>1 DEF PluginTypes, Plugin!TypeOK, Plugin!ImportBegin, Plugin!ImportWrite,
     Plugin!ImportEnd, Plugin!ImportFails
<1>5. PluginTypes'
  BY <1>1, <1>2, <1>3, <1>4 DEF PluginTypes, Plugin!TypeOK
<1>6. PluginProcesses' /\ PluginPhases'
  <2>1. Resting
    BY <1>1 DEF PluginInv, PluginPhases
  <2>2. QED
    BY <1>1, <2>1 DEF PluginProcesses, PluginPhases, Resting, Plugin!Up, NoneAlive, Alive
<1>7. PluginDurable'
  <2>1. /\ Plugin!CommittedRecoverable
        /\ active.id \in (0..tally.revs) \cup {MaxRevisions + 1, MaxRevisions + 2}
        /\ legacy \in {Plugin!NoRev, Plugin!LegacyRev}
        /\ import = "partial" <=> pending
        /\ holder = "transfer" => /\ pending /\ disk \subseteq {Plugin!ImportRev}
                                  /\ active \in {Plugin!NoRev, Plugin!ImportRev}
        /\ Plugin!NoRev.id = 0 /\ Plugin!ImportRev.id = MaxRevisions + 2
        /\ tally.revs \in Nat
    BY <1>1 DEF PluginDurable, Plugin!NoRev, Plugin!ImportRev, PluginTypes, Tallies
  <2>2. CASE Plugin!ImportBegin
    BY <1>1, <1>2, <2>1, <2>2 DEF PluginDurable, Plugin!CommittedRecoverable, Plugin!ImportBegin
  <2>3. CASE Plugin!ImportWrite
    <3>1. CASE disk = {}
      BY <1>1, <1>2, <2>1, <2>3, <3>1 DEF PluginDurable, Plugin!CommittedRecoverable,
         Plugin!ImportWrite
    <3>2. CASE disk # {}
      <4>1. disk = {Plugin!ImportRev}
        BY <2>1, <2>3, <3>2 DEF Plugin!ImportWrite
      <4>2. QED
        BY <1>1, <1>2, <2>1, <2>3, <3>2, <4>1 DEF PluginDurable, Plugin!CommittedRecoverable,
           Plugin!ImportWrite
    <3>3. QED
      BY <3>1, <3>2
  <2>4. CASE Plugin!ImportEnd
    BY <1>1, <1>2, <2>1, <2>4 DEF PluginDurable, Plugin!CommittedRecoverable, Plugin!ImportEnd
  <2>5. CASE Plugin!ImportFails
    <3>1. /\ holder' = "free" /\ pending /\ UNCHANGED <<legacy, tested>>
          /\ \/ active' = Plugin!NoRev /\ pending' = FALSE /\ import' = "none"
             \/ UNCHANGED <<active, disk, pending, import>>
      BY <2>5 DEF Plugin!ImportFails
    <3>2. active'.id \in (0..tally'.revs) \cup {MaxRevisions + 1, MaxRevisions + 2}
      <4>1. active' = Plugin!NoRev \/ active' = active
        BY <3>1
      <4>2. Plugin!NoRev.id \in 0..tally.revs
        BY <2>1
      <4>3. QED
        BY <1>2, <2>1, <4>1, <4>2
    <3>3. Plugin!CommittedRecoverable'
      BY <2>1, <3>1 DEF Plugin!CommittedRecoverable
    <3>4. import' = "partial" <=> pending'
      BY <2>1, <3>1
    <3>5. QED
      BY <2>1, <3>1, <3>2, <3>3, <3>4 DEF PluginDurable
  <2>6. QED
    BY <2>2, <2>3, <2>4, <2>5
<1>8. QED
  BY <1>5, <1>6, <1>7 DEF PluginInv

\* While an operation holds the slot.
LEMMA PluginBusy ==
  ASSUME PluginInv, op.pc # "idle"
  PROVE  /\ PluginTypes /\ PluginDurable /\ PluginProcesses
         /\ Plugin!Up /\ ~shut /\ slot.blocked = FALSE
         /\ Advancing \/ Restoring \/ Observing \/ Restopping
         /\ op \in PluginOps /\ slot \in SlotType /\ tally \in Tallies /\ disk \subseteq Plugin!Revs
         /\ active \in Plugin!Revs /\ record \in 0..MaxExporters /\ shut \in BOOLEAN
         /\ scraping \in {"off", "on", "stopping"}
         /\ tally.procs \in Nat /\ MaxExporters \in Nat /\ 0 \in 0..MaxExporters
<1>1. PluginTypes /\ PluginDurable /\ PluginProcesses /\ PluginPhases
  BY DEF PluginInv
<1>2. /\ op \in PluginOps /\ slot \in SlotType /\ tally \in Tallies /\ disk \subseteq Plugin!Revs
      /\ active \in Plugin!Revs /\ record \in 0..MaxExporters /\ shut \in BOOLEAN
      /\ scraping \in {"off", "on", "stopping"}
  BY <1>1 DEF PluginTypes, Plugin!TypeOK, SlotType
<1>3. tally.procs \in Nat /\ MaxExporters \in Nat /\ 0 \in 0..MaxExporters
  BY <1>2, PluginAssumption DEF Tallies
<1>4. /\ Plugin!Up /\ ~shut /\ ~slot.blocked
      /\ Advancing \/ Restoring \/ Observing \/ Restopping
  BY <1>1 DEF PluginPhases, Resting, Plugin!Idle
<1>5. slot.blocked = FALSE
  BY <1>2, <1>4 DEF SlotType
<1>6. QED
  BY <1>1, <1>2, <1>3, <1>4, <1>5

\* No operation is an operation.
LEMMA IdleIsTyped ==
  ASSUME PluginTypes
  PROVE  Plugin!Idle \in PluginOps
<1>1. Plugin!NoRev \in Plugin!Revs /\ 0 \in 0..MaxExporters
  BY PluginAssumption DEF Plugin!NoRev, Plugin!Revs
<1>2. QED
  BY <1>1 DEF PluginOps, Plugin!Idle

\* Fault is counted, and nothing else.
LEMMA FaultCounted ==
  ASSUME tally \in Tallies, Plugin!Fault \/ UNCHANGED tally
  PROVE  tally' \in Tallies /\ tally'.procs = tally.procs /\ tally'.revs = tally.revs
BY DEF Tallies, Plugin!Fault

\* An operation that failed before its commit goes back to what active.json names.
LEMMA PluginRecovers ==
  ASSUME PluginInv, Advancing, op.kind \in Plugin!Transactions \cup {"start", "stop"},
         op' = [op EXCEPT !.pc = "restore", !.rev = active, !.mode = "restore",
                          !.onfail = "status", !.rp = 0],
         UNCHANGED active, slot'.active = active, active # Plugin!NoRev,
         op \in PluginOps, active \in Plugin!Revs,
         tally'.procs + 1 <= MaxExporters
  PROVE  op' \in PluginOps /\ Restoring'
<1>1. /\ op' \in PluginOps /\ op'.kind = op.kind /\ op'.next = op.next /\ op'.pc = "restore"
      /\ op'.rev = active /\ op'.mode = "restore" /\ op'.onfail = "status" /\ op'.rp = 0
  <2>1. 0 \in 0..MaxExporters
    BY PluginAssumption
  <2>2. QED
    BY <2>1 DEF PluginOps
<1>2. op.next # active /\ op.kind # "clean"
  BY DEF Advancing, NextRevision, Plugin!Transactions
<1>3. Restoring'
  BY <1>1, <1>2 DEF Restoring, Plugin!Transactions
<1>4. QED
  BY <1>1, <1>3

\* A launch that failed, for whatever reason, after its process has been ended.
LEMMA PluginLaunchFailed ==
  ASSUME PluginInv, op.pc \in {"launch", "starting"}, Plugin!FailedLaunch,
         NEW ps, Ended(ps), NoneAlive', tally' \in Tallies, tally'.procs = tally.procs,
         tally'.revs = tally.revs, record' \in 0..MaxExporters,
         UNCHANGED <<active, legacy, import, pending, holder, scraping, shut, tested>>
  PROVE  PluginInv'
<1>1. /\ PluginTypes /\ PluginDurable /\ PluginProcesses
      /\ Plugin!Up /\ ~shut /\ slot.blocked = FALSE /\ (Advancing \/ Restoring)
      /\ op \in PluginOps /\ slot \in SlotType /\ tally \in Tallies /\ disk \subseteq Plugin!Revs
      /\ active \in Plugin!Revs /\ shut \in BOOLEAN /\ scraping \in {"off", "on", "stopping"}
      /\ tally.procs \in Nat /\ MaxExporters \in Nat
  BY PluginBusy DEF Observing, Restopping
<1>2. Plugin!Idle \in PluginOps
  BY <1>1, IdleIsTyped
<1>3. SUFFICES /\ op' \in PluginOps /\ slot' \in SlotType /\ disk' \subseteq Plugin!Revs
               /\ active \in disk => active \in disk'
               /\ \/ op' = Plugin!Idle /\ (slot'.blocked \/ Agreed')
                  \/ ~slot'.blocked /\ Restoring'
  <2>1. shut' \in BOOLEAN /\ scraping' \in {"off", "on", "stopping"}
    BY <1>1
  <2>2. PluginTypes' /\ PluginDurable' /\ PluginProcesses'
    BY <1>1, <1>3, <2>1, PluginSteps
  <2>3. OwnProcess'
    BY DEF OwnProcess, NoneAlive
  <2>4. PluginPhases'
    BY <1>1, <1>3, <2>3 DEF PluginPhases, Resting, Plugin!Up
  <2>5. QED
    BY <2>2, <2>4 DEF PluginInv
<1>4. CASE Restoring
  <2>1. /\ op.mode = "restore" /\ slot.active = active /\ active = op.rev
        /\ op.kind # "migrate"
        /\ \/ op.onfail = "block"
           \/ op.onfail \in {"return", "ignore"} /\ Agreed
           \/ op.onfail = "status" /\ (op.kind \in Plugin!Transactions => op.next # active)
    BY <1>1, <1>4 DEF Restoring, Plugin!Transactions
  <2>2. CASE op.onfail = "block"
    <3>1. /\ slot' = [slot EXCEPT !.blocked = TRUE, !.status = "failed"]
          /\ op' = Plugin!Idle /\ disk' = disk
      BY <2>1, <2>2 DEF Plugin!FailedLaunch
    <3>2. slot' \in SlotType /\ slot'.blocked
      BY <1>1, <3>1 DEF SlotType
    <3>3. QED
      BY <1>1, <1>2, <3>1, <3>2
  <2>3. CASE op.onfail \in {"return", "ignore"} /\ Agreed
    <3>1. op' = Plugin!Idle /\ slot' = slot /\ disk' = disk
      BY <2>1, <2>3 DEF Plugin!FailedLaunch
    <3>2. QED
      BY <1>1, <1>2, <2>3, <3>1 DEF Agreed
  <2>4. CASE op.onfail = "status" /\ (op.kind \in Plugin!Transactions => op.next # active)
    <3>1. /\ slot' = [slot EXCEPT !.status = "failed"]
          /\ op' = Plugin!Idle
          /\ disk' = IF op.kind \in Plugin!Transactions THEN disk \ {op.next} ELSE disk
      BY <2>1, <2>4 DEF Plugin!FailedLaunch
    <3>2. slot' \in SlotType /\ slot'.active = slot.active /\ slot'.status = "failed"
      BY <1>1, <3>1 DEF SlotType
    <3>3. Agreed'
      BY <2>1, <3>2 DEF Agreed
    <3>4. QED
      BY <1>1, <1>2, <2>4, <3>1, <3>2, <3>3
  <2>5. QED
    BY <2>1, <2>2, <2>3, <2>4
<1>5. CASE Advancing
  <2>1. /\ op.mode # "restore" /\ op.old = active /\ op.next # active /\ Agreed
        /\ op.kind \in Plugin!Transactions \cup {"start", "migrate"}
        /\ op.kind = "start" => active # Plugin!NoRev
        /\ slot.active = active
    BY <1>1, <1>5 DEF Advancing, Forwards, NextRevision, Agreed
  <2>2. op.kind # "migrate" => tally'.procs + 1 <= MaxExporters
    BY <1>1, <1>5, <2>1 DEF Advancing, Room, Plugin!Transactions
  <2>3. CASE op.kind = "migrate"
    <3>1. /\ slot' = [slot EXCEPT !.active = op.next, !.blocked = TRUE, !.status = "failed"]
          /\ op' = Plugin!Idle /\ disk' = disk
      BY <2>1, <2>3 DEF Plugin!FailedLaunch, Plugin!Transactions
    <3>2. slot' \in SlotType /\ slot'.blocked
      BY <1>1, <3>1 DEF SlotType, PluginOps
    <3>3. QED
      BY <1>1, <1>2, <3>1, <3>2
  <2>4. CASE op.kind \in Plugin!Transactions /\ active = Plugin!NoRev
    <3>1. op' = Plugin!Idle /\ disk' = disk \ {op.next} /\ slot' = slot
      BY <2>1, <2>4 DEF Plugin!FailedLaunch, Plugin!Transactions
    <3>2. QED
      BY <1>1, <1>2, <2>1, <3>1 DEF Agreed
  <2>5. CASE op.kind \in Plugin!Transactions /\ active # Plugin!NoRev
    <3>1. op' = [Plugin!Recover EXCEPT !.rev = active] /\ slot' = slot /\ disk' = disk
      BY <2>1, <2>5 DEF Plugin!FailedLaunch, Plugin!Transactions
    <3>2. op' = [op EXCEPT !.pc = "restore", !.rev = active, !.mode = "restore",
                           !.onfail = "status", !.rp = 0]
      BY <1>1, <3>1 DEF Plugin!Recover, PluginOps
    <3>3. op' \in PluginOps /\ Restoring'
      BY <1>1, <1>5, <2>1, <2>2, <2>5, <3>1, <3>2, PluginRecovers DEF Plugin!Transactions
    <3>4. QED
      BY <1>1, <3>1, <3>3
  <2>6. CASE op.kind = "start"
    <3>1. op' = Plugin!Recover /\ slot' = [slot EXCEPT !.active = active] /\ disk' = disk
      BY <2>1, <2>6 DEF Plugin!FailedLaunch, Plugin!Transactions
    <3>2. slot' \in SlotType /\ slot'.active = active /\ slot'.blocked = FALSE
      BY <1>1, <3>1 DEF SlotType
    <3>3. op' \in PluginOps /\ Restoring'
      BY <1>1, <1>5, <2>1, <2>2, <2>6, <3>1, <3>2, PluginRecovers
      DEF Plugin!Transactions, Plugin!Recover
    <3>4. QED
      BY <1>1, <3>1, <3>2, <3>3
  <2>7. QED
    BY <2>1, <2>3, <2>4, <2>5, <2>6
<1>6. QED
  BY <1>1, <1>4, <1>5

\* The process that has been launched is the only one.
LEMMA PluginLaunchFails == PluginInv /\ Plugin!LaunchFails => PluginInv'
<1> SUFFICES ASSUME PluginInv, Plugin!LaunchFails PROVE PluginInv'
  OBVIOUS
<1>1. /\ op.pc = "starting" /\ procs' = Plugin!Kill({op.rp}) /\ record' = 0
      /\ Plugin!FailedLaunch
      /\ UNCHANGED <<active, legacy, import, pending, holder, scraping, shut, tested, tally>>
  BY DEF Plugin!LaunchFails
<1>2. /\ PluginTypes /\ PluginProcesses /\ (Advancing \/ Restoring) /\ tally \in Tallies
      /\ 0 \in 0..MaxExporters
  BY <1>1, PluginBusy DEF Observing, Restopping
<1>3. op.rp = record
  BY <1>1, <1>2 DEF Advancing, Restoring, Launched
<1>4. Ended({op.rp})
  BY <1>1, <1>2, KilledAreEnded
<1>5. NoneAlive'
  BY <1>2, <1>3, <1>4 DEF Ended, NoneAlive, Alive, PluginProcesses
<1>6. QED
  BY <1>1, <1>2, <1>4, <1>5, PluginLaunchFailed

\* A launch that is refused has started nothing.
LEMMA PluginLaunchRefused == PluginInv /\ Plugin!LaunchRefused => PluginInv'
<1> SUFFICES ASSUME PluginInv, Plugin!LaunchRefused PROVE PluginInv'
  OBVIOUS
<1>1. /\ op.pc = "launch" /\ Plugin!Fault /\ Plugin!FailedLaunch
      /\ UNCHANGED <<active, record, legacy, import, pending, holder, scraping, shut, procs, tested>>
  BY DEF Plugin!LaunchRefused
<1>2. /\ PluginTypes /\ (Advancing \/ Restoring) /\ tally \in Tallies
      /\ record \in 0..MaxExporters
  BY <1>1, PluginBusy DEF Observing, Restopping
<1>3. NoneAlive'
  BY <1>1, <1>2 DEF Advancing, Restoring, NoneAlive, Alive
<1>4. tally' \in Tallies /\ tally'.procs = tally.procs /\ tally'.revs = tally.revs
  BY <1>1, <1>2, FaultCounted
<1>5. Ended({})
  BY <1>1, <1>2, SameIsEnded
<1>6. QED
  BY <1>1, <1>2, <1>3, <1>4, <1>5, PluginLaunchFailed

\* The files of a revision are written before anything else.
LEMMA PluginPrepare == PluginInv /\ Plugin!Prepare => PluginInv'
<1> SUFFICES ASSUME PluginInv, Plugin!Prepare PROVE PluginInv'
  OBVIOUS
<1>1. /\ op.pc = "prepare"
      /\ UNCHANGED <<active, record, legacy, import, pending, holder, scraping, shut, procs, tested>>
  BY DEF Plugin!Prepare
<1>2. /\ PluginTypes /\ PluginProcesses /\ Plugin!Up /\ ~shut /\ slot.blocked = FALSE
      /\ op \in PluginOps /\ slot \in SlotType /\ tally \in Tallies /\ disk \subseteq Plugin!Revs
      /\ record \in 0..MaxExporters /\ shut \in BOOLEAN
      /\ scraping \in {"off", "on", "stopping"}
  BY <1>1, PluginBusy
<1>3. Advancing
  BY <1>1, PluginBusy DEF Restoring, Observing, Restopping
<1>4. Ended({})
  BY <1>1, <1>2, SameIsEnded
<1>5. (NoneAlive => NoneAlive') /\ (OwnProcess /\ slot' = slot => OwnProcess')
  BY <1>1 DEF NoneAlive, OwnProcess, Alive
<1>6. /\ op.kind \in Plugin!Transactions \cup {"start", "stop", "migrate"} /\ op.mode = "plain"
      /\ NextRevision /\ Room /\ Agreed /\ op.rp = 0 /\ OwnProcess
      /\ op.kind \in {"start", "migrate"} => NoneAlive
  BY <1>1, <1>3 DEF Advancing, Forwards
<1>7. CASE /\ disk' = disk \cup {op.next}
           /\ op' = [op EXCEPT !.pc = IF op.kind \in Plugin!Transactions THEN "validate"
                                      ELSE IF op.kind = "stop" THEN "stop"
                                      ELSE IF op.kind = "migrate" /\ Plugin!Running(record)
                                      THEN "clean" ELSE "launch",
                               !.rev = op.next,
                               !.mode = IF op.kind = "start" THEN "plain" ELSE "trial"]
           /\ UNCHANGED <<slot, tally>>
  <2>1. PICK pc, mode :
          /\ pc = IF op.kind \in Plugin!Transactions THEN "validate"
                  ELSE IF op.kind = "stop" THEN "stop"
                  ELSE IF op.kind = "migrate" /\ Plugin!Running(record) THEN "clean" ELSE "launch"
          /\ mode = IF op.kind = "start" THEN "plain" ELSE "trial"
    OBVIOUS
  <2>2. op' = [op EXCEPT !.pc = pc, !.rev = op.next, !.mode = mode]
    BY <1>7, <2>1
  <2>3. /\ op.kind \in Plugin!Transactions => pc = "validate" /\ mode = "trial"
        /\ op.kind = "stop" => pc = "stop" /\ mode = "trial"
        /\ op.kind = "migrate" => pc \in {"clean", "launch"} /\ mode = "trial"
        /\ op.kind = "start" => pc = "launch" /\ mode = "plain"
    BY <2>1 DEF Plugin!Transactions
  <2>4. mode \in {"plain", "trial"} /\ pc \in {"validate", "stop", "clean", "launch"}
    BY <2>1
  <2>5. /\ op' \in PluginOps /\ op'.kind = op.kind /\ op'.old = op.old /\ op'.next = op.next
        /\ op'.rp = op.rp /\ op'.pc = pc /\ op'.mode = mode /\ op'.rev = op.next
    BY <1>2, <2>2, <2>4 DEF PluginOps
  <2>6. Forwards'
    BY <1>6, <2>3, <2>5 DEF Forwards
  <2>7. NextRevision' /\ Room' /\ Agreed'
    BY <1>1, <1>6, <1>7, <2>4, <2>5 DEF NextRevision, Room, Agreed
  <2>8. Advancing'
    BY <1>5, <1>6, <1>7, <2>3, <2>4, <2>5, <2>6, <2>7 DEF Advancing
  <2>9. op.next \in Plugin!Revs
    BY <1>2 DEF PluginOps
  <2>10. PluginTypes' /\ PluginDurable' /\ PluginProcesses'
    BY <1>1, <1>2, <1>4, <1>7, <2>5, <2>9, PluginSteps
  <2>11. QED
    BY <1>1, <1>2, <1>7, <2>8, <2>10 DEF PluginInv, PluginPhases, Plugin!Up
<1>8. CASE /\ Plugin!Fault /\ op' = Plugin!Idle /\ disk' = disk
           /\ slot' = IF op.kind = "migrate"
                      THEN [slot EXCEPT !.active = op.next, !.blocked = TRUE, !.status = "failed"]
                      ELSE slot
  <2>1. tally' \in Tallies /\ tally'.procs = tally.procs /\ tally'.revs = tally.revs
    BY <1>2, <1>8, FaultCounted
  <2>2. /\ slot' \in SlotType
        /\ op.kind = "migrate" => slot'.blocked
        /\ op.kind # "migrate" => slot' = slot
    BY <1>2, <1>8 DEF SlotType, PluginOps
  <2>3. op' \in PluginOps
    BY <1>2, <1>8, IdleIsTyped
  <2>4. PluginTypes' /\ PluginDurable' /\ PluginProcesses'
    BY <1>1, <1>2, <1>4, <1>8, <2>1, <2>2, <2>3, PluginSteps
  <2>5. Resting'
    BY <1>1, <1>2, <1>5, <1>6, <1>8, <2>2 DEF Resting, Agreed
  <2>6. QED
    BY <2>4, <2>5 DEF PluginInv, PluginPhases
<1>9. QED
  BY <1>7, <1>8 DEF Plugin!Prepare

\* A migration first ends what an earlier Monitor left.
LEMMA PluginCleanForMigration == PluginInv /\ Plugin!CleanForMigration => PluginInv'
<1> SUFFICES ASSUME PluginInv, Plugin!CleanForMigration PROVE PluginInv'
  OBVIOUS
<1>1. /\ op.pc = "clean" /\ procs' = Plugin!Clean /\ record' = 0
      /\ op' = [op EXCEPT !.pc = "launch"]
      /\ UNCHANGED <<active, disk, legacy, import, pending, holder, slot, scraping, shut, tested,
                     tally>>
  BY DEF Plugin!CleanForMigration
<1>2. /\ PluginTypes /\ PluginProcesses /\ Plugin!Up /\ ~shut /\ slot.blocked = FALSE
      /\ op \in PluginOps /\ slot \in SlotType /\ tally \in Tallies /\ disk \subseteq Plugin!Revs
      /\ shut \in BOOLEAN /\ scraping \in {"off", "on", "stopping"} /\ 0 \in 0..MaxExporters
  BY <1>1, PluginBusy
<1>3. Advancing
  BY <1>1, PluginBusy DEF Restoring, Observing, Restopping
<1>4. Ended({record})
  BY <1>1, <1>2, CleanedAreEnded
<1>5. NoneAlive'
  BY <1>2, <1>4 DEF Ended, NoneAlive, Alive, PluginProcesses
<1>6. /\ op' \in PluginOps /\ op'.kind = op.kind /\ op'.old = op.old /\ op'.next = op.next
      /\ op'.rp = op.rp /\ op'.pc = "launch" /\ op'.mode = op.mode /\ op'.rev = op.rev
  BY <1>1, <1>2 DEF PluginOps
<1>7. /\ op.kind = "migrate" /\ op.mode = "trial" /\ NextRevision /\ Room /\ Agreed
      /\ op.rev = op.next /\ op.next \in disk /\ op.rp = 0
  BY <1>1, <1>3 DEF Advancing, Forwards
<1>8. Forwards' /\ NextRevision' /\ Room' /\ Agreed'
  BY <1>1, <1>6, <1>7 DEF Forwards, NextRevision, Room, Agreed
<1>9. Advancing'
  BY <1>1, <1>5, <1>6, <1>7, <1>8 DEF Advancing
<1>10. PluginTypes' /\ PluginDurable' /\ PluginProcesses'
  BY <1>1, <1>2, <1>4, <1>5, <1>6, PluginSteps
<1>11. QED
  BY <1>1, <1>2, <1>9, <1>10 DEF PluginInv, PluginPhases, Plugin!Up

\* A rejected candidate is not the committed revision.
LEMMA PluginValidate == PluginInv /\ Plugin!Validate => PluginInv'
<1> SUFFICES ASSUME PluginInv, Plugin!Validate PROVE PluginInv'
  OBVIOUS
<1>1. /\ op.pc = "validate"
      /\ UNCHANGED <<active, record, legacy, import, pending, holder, slot, scraping, shut, procs,
                     tested, tally>>
      /\ \/ op' = [op EXCEPT !.pc = "stop"] /\ disk' = disk
         \/ op' = Plugin!Idle /\ disk' = disk \ {op.next}
  BY DEF Plugin!Validate
<1>2. /\ PluginTypes /\ PluginProcesses /\ Plugin!Up /\ ~shut /\ slot.blocked = FALSE
      /\ op \in PluginOps /\ slot \in SlotType /\ tally \in Tallies /\ disk \subseteq Plugin!Revs
      /\ record \in 0..MaxExporters /\ shut \in BOOLEAN
      /\ scraping \in {"off", "on", "stopping"}
  BY <1>1, PluginBusy
<1>3. Advancing
  BY <1>1, PluginBusy DEF Restoring, Observing, Restopping
<1>4. Ended({})
  BY <1>1, <1>2, SameIsEnded
<1>5. /\ op.kind \in Plugin!Transactions /\ op.mode = "trial" /\ NextRevision /\ Room /\ Agreed
      /\ op.rev = op.next /\ op.next \in disk /\ op.rp = 0 /\ OwnProcess /\ op.next # active
  BY <1>1, <1>3 DEF Advancing, Forwards, NextRevision
<1>6. Agreed' /\ OwnProcess'
  BY <1>1, <1>5 DEF Agreed, OwnProcess, Alive
<1>7. CASE op' = [op EXCEPT !.pc = "stop"] /\ disk' = disk
  <2>1. /\ op' \in PluginOps /\ op'.kind = op.kind /\ op'.old = op.old /\ op'.next = op.next
        /\ op'.rp = op.rp /\ op'.pc = "stop" /\ op'.mode = op.mode /\ op'.rev = op.rev
    BY <1>2, <1>7 DEF PluginOps
  <2>2. Forwards' /\ NextRevision' /\ Room'
    BY <1>1, <1>5, <2>1 DEF Forwards, NextRevision, Room
  <2>3. Advancing'
    BY <1>1, <1>5, <1>6, <1>7, <2>1, <2>2 DEF Advancing, Plugin!Transactions
  <2>4. PluginTypes' /\ PluginDurable' /\ PluginProcesses'
    BY <1>1, <1>2, <1>4, <1>7, <2>1, PluginSteps
  <2>5. QED
    BY <1>1, <1>2, <2>3, <2>4 DEF PluginInv, PluginPhases, Plugin!Up
<1>8. CASE op' = Plugin!Idle /\ disk' = disk \ {op.next}
  <2>1. op' \in PluginOps
    BY <1>2, <1>8, IdleIsTyped
  <2>2. PluginTypes' /\ PluginDurable' /\ PluginProcesses'
    BY <1>1, <1>2, <1>4, <1>5, <1>8, <2>1, PluginSteps
  <2>3. Resting'
    BY <1>1, <1>2, <1>6, <1>8 DEF Resting
  <2>4. QED
    BY <2>2, <2>3 DEF PluginInv, PluginPhases
<1>9. QED
  BY <1>1, <1>7, <1>8

\* Ending the slot's process and the recorded one ends all.
LEMMA PluginStop == PluginInv /\ Plugin!Stop => PluginInv'
<1> SUFFICES ASSUME PluginInv, Plugin!Stop PROVE PluginInv'
  OBVIOUS
<1>1. /\ op.pc = "stop" /\ scraping' = "off" /\ record' = 0
      /\ procs' = Plugin!Kill({slot.proc, record})
      /\ slot' = [slot EXCEPT !.proc = 0,
                              !.status = IF op.kind = "restop" THEN "stopped" ELSE @]
      /\ op' = Plugin!AfterStop
      /\ UNCHANGED <<active, disk, legacy, import, pending, holder, shut, tested, tally>>
  BY DEF Plugin!Stop
<1>2. /\ PluginTypes /\ PluginProcesses /\ Plugin!Up /\ ~shut /\ slot.blocked = FALSE
      /\ Advancing \/ Restopping
      /\ op \in PluginOps /\ slot \in SlotType /\ tally \in Tallies /\ disk \subseteq Plugin!Revs
      /\ shut \in BOOLEAN /\ 0 \in 0..MaxExporters
  BY <1>1, PluginBusy DEF Restoring, Observing
<1>3. Ended({slot.proc, record})
  BY <1>1, <1>2, KilledAreEnded
<1>4. NoneAlive' /\ OwnProcess'
  BY <1>2, <1>3 DEF Ended, NoneAlive, Alive, PluginProcesses, OwnProcess
<1>5. PICK st : st = IF op.kind = "restop" THEN "stopped" ELSE slot.status
  OBVIOUS
<1>6. slot' = [slot EXCEPT !.proc = 0, !.status = st]
  BY <1>1, <1>5
<1>7. st \in {"none", "running", "stopped", "failed"}
  BY <1>2, <1>5 DEF SlotType
<1>8. /\ slot' \in SlotType /\ slot'.active = slot.active /\ slot'.status = st
      /\ slot'.blocked = slot.blocked
  BY <1>2, <1>6, <1>7 DEF SlotType
<1>9. CASE Advancing
  <2>1. /\ op.kind \in Plugin!Transactions \cup {"stop"} /\ op.mode = "trial"
        /\ NextRevision /\ Room /\ Agreed
        /\ op.rev = op.next /\ op.next \in disk /\ op.rp = 0
    BY <1>1, <1>9 DEF Advancing, Forwards
  <2>2. Agreed'
    BY <1>1, <1>5, <1>8, <2>1 DEF Agreed, Plugin!Transactions
  <2>3. CASE op.kind \in Plugin!Transactions
    <3>1. op' = [op EXCEPT !.pc = "launch"]
      BY <1>1, <2>3 DEF Plugin!AfterStop
    <3>2. /\ op' \in PluginOps /\ op'.kind = op.kind /\ op'.old = op.old /\ op'.next = op.next
          /\ op'.rp = op.rp /\ op'.pc = "launch" /\ op'.mode = op.mode /\ op'.rev = op.rev
      BY <1>2, <3>1 DEF PluginOps
    <3>3. Forwards' /\ NextRevision' /\ Room'
      BY <1>1, <2>1, <2>3, <3>2 DEF Forwards, NextRevision, Room
    <3>4. Advancing'
      BY <1>1, <1>4, <2>1, <2>2, <3>2, <3>3 DEF Advancing
    <3>5. PluginTypes' /\ PluginDurable' /\ PluginProcesses'
      BY <1>1, <1>2, <1>3, <1>4, <1>8, <3>2, PluginSteps
    <3>6. QED
      BY <1>1, <1>2, <1>8, <3>4, <3>5 DEF PluginInv, PluginPhases, Plugin!Up
  <2>4. CASE op.kind = "stop"
    <3>1. op' = [op EXCEPT !.pc = "commit"]
      BY <1>1, <2>4 DEF Plugin!AfterStop, Plugin!Transactions
    <3>2. /\ op' \in PluginOps /\ op'.kind = op.kind /\ op'.old = op.old /\ op'.next = op.next
          /\ op'.rp = op.rp /\ op'.pc = "commit" /\ op'.mode = op.mode /\ op'.rev = op.rev
      BY <1>2, <3>1 DEF PluginOps
    <3>3. Forwards' /\ NextRevision' /\ Room'
      BY <1>1, <2>1, <2>4, <3>2 DEF Forwards, NextRevision, Room
    <3>4. Plugin!Payload(op.next) \in tested /\ op.next.desired = "stopped"
      BY <2>1, <2>4 DEF NextRevision, PluginInv, PluginDurable, Plugin!CommittedRecoverable
    <3>5. Advancing'
      BY <1>1, <1>4, <2>1, <2>2, <3>2, <3>3, <3>4 DEF Advancing
    <3>6. PluginTypes' /\ PluginDurable' /\ PluginProcesses'
      BY <1>1, <1>2, <1>3, <1>4, <1>8, <3>2, PluginSteps
    <3>7. QED
      BY <1>1, <1>2, <1>8, <3>5, <3>6 DEF PluginInv, PluginPhases, Plugin!Up
  <2>5. QED
    BY <2>1, <2>3, <2>4
<1>10. CASE Restopping
  <2>1. op.kind = "restop" /\ Agreed /\ active # Plugin!NoRev /\ active.desired = "stopped"
    BY <1>10 DEF Restopping
  <2>2. op' = Plugin!Idle
    BY <1>1, <2>1 DEF Plugin!AfterStop, Plugin!Transactions
  <2>3. op' \in PluginOps
    BY <1>2, <2>2, IdleIsTyped
  <2>4. PluginTypes' /\ PluginDurable' /\ PluginProcesses'
    BY <1>1, <1>2, <1>3, <1>4, <1>8, <2>3, PluginSteps
  <2>5. Agreed'
    BY <1>1, <1>8, <2>1 DEF Agreed
  <2>6. Resting'
    BY <1>1, <1>2, <1>4, <2>2, <2>5 DEF Resting
  <2>7. QED
    BY <2>4, <2>6 DEF PluginInv, PluginPhases
<1>11. QED
  BY <1>2, <1>9, <1>10

\* A stop that failed leaves the slot with its process, or goes back.
LEMMA PluginStopFails == PluginInv /\ Plugin!StopFails => PluginInv'
<1> SUFFICES ASSUME PluginInv, Plugin!StopFails PROVE PluginInv'
  OBVIOUS
<1>1. /\ op.pc = "stop" /\ Plugin!Fault
      /\ scraping' \in {"off", "stopping"}
      /\ UNCHANGED procs \/ procs' = Plugin!Kill({slot.proc})
      /\ op' = IF op.kind = "stop" THEN Plugin!Recover ELSE Plugin!Idle
      /\ slot' = IF op.kind = "stop" THEN [slot EXCEPT !.active = active] ELSE slot
      /\ UNCHANGED <<active, disk, record, legacy, import, pending, holder, shut, tested>>
  BY DEF Plugin!StopFails
<1>2. /\ PluginTypes /\ PluginProcesses /\ Plugin!Up /\ ~shut /\ slot.blocked = FALSE
      /\ Advancing \/ Restopping
      /\ op \in PluginOps /\ slot \in SlotType /\ tally \in Tallies /\ disk \subseteq Plugin!Revs
      /\ shut \in BOOLEAN /\ record \in 0..MaxExporters /\ active \in Plugin!Revs
  BY <1>1, PluginBusy DEF Restoring, Observing
<1>3. tally' \in Tallies /\ tally'.procs = tally.procs /\ tally'.revs = tally.revs
  BY <1>1, <1>2, FaultCounted
<1>4. PICK ps : Ended(ps)
  BY <1>1, <1>2, KilledAreEnded, SameIsEnded
<1>5. Agreed /\ OwnProcess
  BY <1>1, <1>2 DEF Advancing, Restopping
<1>6. OwnProcess' \/ slot' # slot
  BY <1>1, <1>4, <1>5 DEF OwnProcess, Ended, Alive
<1>7. CASE op.kind = "stop"
  <2>1. Advancing /\ active # Plugin!NoRev /\ tally.procs + 1 <= MaxExporters
    BY <1>1, <1>2, <1>7 DEF Restopping, Advancing, NextRevision, Room
  <2>2. slot' \in SlotType /\ slot'.active = active /\ slot'.blocked = slot.blocked
    BY <1>1, <1>2, <1>7 DEF SlotType
  <2>3. op' = [op EXCEPT !.pc = "restore", !.rev = active, !.mode = "restore",
                         !.onfail = "status", !.rp = 0]
    BY <1>1, <1>7 DEF Plugin!Recover
  <2>4. op' \in PluginOps /\ Restoring'
    BY <1>1, <1>2, <1>3, <1>7, <2>1, <2>2, <2>3, PluginRecovers
  <2>5. PluginTypes' /\ PluginDurable' /\ PluginProcesses'
    BY <1>1, <1>2, <1>3, <1>4, <2>2, <2>4, PluginSteps
  <2>6. QED
    BY <1>1, <1>2, <2>2, <2>4, <2>5 DEF PluginInv, PluginPhases, Plugin!Up
<1>8. CASE op.kind # "stop"
  <2>1. op' = Plugin!Idle /\ slot' = slot
    BY <1>1, <1>8
  <2>2. op' \in PluginOps
    BY <1>2, <2>1, IdleIsTyped
  <2>3. PluginTypes' /\ PluginDurable' /\ PluginProcesses'
    BY <1>1, <1>2, <1>3, <1>4, <2>1, <2>2, PluginSteps
  <2>4. Resting'
    BY <1>1, <1>2, <1>5, <1>6, <2>1 DEF Resting, Agreed
  <2>5. QED
    BY <2>3, <2>4 DEF PluginInv, PluginPhases
<1>9. QED
  BY <1>7, <1>8

\* A healthy process is the recorded one.
LEMMA PluginHealthy == PluginInv /\ Plugin!Healthy => PluginInv'
<1> SUFFICES ASSUME PluginInv, Plugin!Healthy PROVE PluginInv'
  OBVIOUS
<1>1. /\ op.pc = "starting" /\ tested' = tested \cup {Plugin!Payload(op.rev)}
      /\ \/ /\ op.mode = "trial" /\ op.rev.desired = "stopped"
            /\ procs' = Plugin!Kill({op.rp}) /\ op' = [op EXCEPT !.rp = 0, !.pc = "commit"]
         \/ /\ ~(op.mode = "trial" /\ op.rev.desired = "stopped")
            /\ op' = [op EXCEPT !.pc = IF op.mode = "restore" THEN "observe" ELSE "commit"]
            /\ procs' = procs
      /\ UNCHANGED <<active, disk, record, legacy, import, pending, holder, slot, scraping, shut,
                     tally>>
  BY DEF Plugin!Healthy
<1>2. /\ PluginTypes /\ PluginProcesses /\ Plugin!Up /\ ~shut /\ slot.blocked = FALSE
      /\ Advancing \/ Restoring
      /\ op \in PluginOps /\ slot \in SlotType /\ tally \in Tallies /\ disk \subseteq Plugin!Revs
      /\ shut \in BOOLEAN /\ record \in 0..MaxExporters /\ active \in Plugin!Revs
      /\ scraping \in {"off", "on", "stopping"} /\ 0 \in 0..MaxExporters
  BY <1>1, PluginBusy DEF Observing, Restopping
<1>3. CASE Advancing /\ op.mode = "trial" /\ op.rev.desired = "stopped"
  <2>1. /\ op.kind \in Plugin!Transactions \cup {"migrate"} /\ op.mode = "trial"
        /\ NextRevision /\ Room /\ Agreed
        /\ op.rev = op.next /\ op.next \in disk /\ Launched(op.next)
    BY <1>1, <1>3 DEF Advancing, Forwards
  <2>2. procs' = Plugin!Kill({op.rp}) /\ op' = [op EXCEPT !.rp = 0, !.pc = "commit"]
    BY <1>1, <1>3
  <2>3. Ended({op.rp})
    BY <1>2, <2>2, KilledAreEnded
  <2>4. NoneAlive'
    BY <1>2, <2>1, <2>3 DEF Ended, NoneAlive, Alive, PluginProcesses, Launched
  <2>5. /\ op' \in PluginOps /\ op'.kind = op.kind /\ op'.old = op.old /\ op'.next = op.next
        /\ op'.rp = 0 /\ op'.pc = "commit" /\ op'.mode = op.mode /\ op'.rev = op.rev
    BY <1>2, <2>2 DEF PluginOps
  <2>6. Forwards' /\ NextRevision' /\ Room' /\ Agreed'
    BY <1>1, <2>1, <2>5 DEF Forwards, NextRevision, Room, Agreed, Plugin!Transactions
  <2>7. Plugin!Payload(op.next) \in tested' /\ op.next.desired = "stopped"
    BY <1>1, <1>3, <2>1
  <2>8. Advancing'
    BY <1>1, <2>1, <2>4, <2>5, <2>6, <2>7 DEF Advancing
  <2>9. PluginTypes' /\ PluginDurable' /\ PluginProcesses'
    BY <1>1, <1>2, <2>3, <2>5, PluginSteps
  <2>10. QED
    BY <1>1, <1>2, <2>8, <2>9 DEF PluginInv, PluginPhases, Plugin!Up
<1>4. CASE Advancing /\ ~(op.mode = "trial" /\ op.rev.desired = "stopped")
  <2>1. /\ op.kind \in Plugin!Transactions \cup {"migrate", "start"} /\ op.mode # "restore"
        /\ op.kind # "start" => op.mode = "trial"
        /\ NextRevision /\ Room /\ Agreed
        /\ op.rev = op.next /\ op.next \in disk /\ Launched(op.next)
    BY <1>1, <1>4 DEF Advancing, Forwards, Plugin!Transactions
  <2>2. procs' = procs /\ op' = [op EXCEPT !.pc = "commit"]
    BY <1>1, <1>4, <2>1
  <2>3. Ended({})
    BY <1>2, <2>2, SameIsEnded
  <2>4. /\ op' \in PluginOps /\ op'.kind = op.kind /\ op'.old = op.old /\ op'.next = op.next
        /\ op'.rp = op.rp /\ op'.pc = "commit" /\ op'.mode = op.mode /\ op'.rev = op.rev
    BY <1>2, <2>2 DEF PluginOps
  <2>5. Forwards' /\ NextRevision' /\ Room' /\ Agreed' /\ Launched(op.next)'
    BY <1>1, <2>1, <2>2, <2>4
    DEF Forwards, NextRevision, Room, Agreed, Launched, Plugin!Transactions
  <2>6. op.next.desired = "running"
    <3>1. op.next.desired \in {"running", "stopped"}
      BY <1>2 DEF PluginOps, Plugin!Revs
    <3>2. QED
      BY <1>4, <2>1, <3>1 DEF NextRevision
  <2>7. Plugin!Payload(op.next) \in tested' /\ op.rp # 0
    BY <1>1, <2>1 DEF Launched
  <2>8. Advancing'
    BY <1>1, <2>1, <2>4, <2>5, <2>6, <2>7 DEF Advancing
  <2>9. PluginTypes' /\ PluginDurable' /\ PluginProcesses'
    BY <1>1, <1>2, <2>3, <2>4, PluginSteps
  <2>10. QED
    BY <1>1, <1>2, <2>8, <2>9 DEF PluginInv, PluginPhases, Plugin!Up
<1>5. CASE Restoring
  <2>1. /\ op.mode = "restore" /\ slot.active = active /\ active # Plugin!NoRev
        /\ active.desired = "running" /\ Launched(active)
        /\ op.onfail = "status" /\ op.kind \in Plugin!Transactions => op.next # active
    BY <1>1, <1>5 DEF Restoring
  <2>2. procs' = procs /\ op' = [op EXCEPT !.pc = "observe"]
    BY <1>1, <2>1
  <2>3. Ended({})
    BY <1>2, <2>2, SameIsEnded
  <2>4. /\ op' \in PluginOps /\ op'.kind = op.kind /\ op'.next = op.next /\ op'.mode = op.mode
        /\ op'.rp = op.rp /\ op'.pc = "observe" /\ op'.onfail = op.onfail
    BY <1>2, <2>2 DEF PluginOps
  <2>5. Observing'
    BY <1>1, <2>1, <2>2, <2>4 DEF Observing, Launched
  <2>6. PluginTypes' /\ PluginDurable' /\ PluginProcesses'
    BY <1>1, <1>2, <2>3, <2>4, PluginSteps
  <2>7. QED
    BY <1>1, <1>2, <2>5, <2>6 DEF PluginInv, PluginPhases, Plugin!Up
<1>6. QED
  BY <1>2, <1>3, <1>4, <1>5

\* The commit names a revision that has run.
LEMMA PluginCommit == PluginInv /\ Plugin!Commit => PluginInv'
<1> SUFFICES ASSUME PluginInv, Plugin!Commit PROVE PluginInv'
  OBVIOUS
<1>1. /\ op.pc = "commit" /\ active' = op.next
      /\ slot' = [slot EXCEPT !.active = op.next,
                              !.status = IF op.rp = 0 THEN "stopped" ELSE @]
      /\ record' = IF op.rp = 0 THEN 0 ELSE record
      /\ op' = IF op.rp = 0 THEN Plugin!Idle ELSE [op EXCEPT !.pc = "observe"]
      /\ UNCHANGED <<disk, legacy, import, pending, holder, scraping, shut, procs, tested, tally>>
  BY DEF Plugin!Commit
<1>2. /\ PluginTypes /\ PluginDurable /\ PluginProcesses
      /\ Plugin!Up /\ ~shut /\ slot.blocked = FALSE
      /\ op \in PluginOps /\ slot \in SlotType /\ record \in 0..MaxExporters
      /\ 0 \in 0..MaxExporters
  BY <1>1, PluginBusy
<1>3. Advancing
  BY <1>1, PluginBusy DEF Restoring, Observing, Restopping
<1>4. /\ op.mode # "restore" /\ NextRevision /\ op.next \in disk
      /\ Plugin!Payload(op.next) \in tested /\ op.next # Plugin!NoRev
      /\ IF op.rp = 0 THEN NoneAlive /\ op.next.desired = "stopped"
                      ELSE op.next.desired = "running" /\ Launched(op.next)
  BY <1>1, <1>3 DEF Advancing, Forwards, NextRevision
<1>5. PICK st : st = IF op.rp = 0 THEN "stopped" ELSE slot.status
  OBVIOUS
<1>6. slot' = [slot EXCEPT !.active = op.next, !.status = st]
  BY <1>1, <1>5
<1>7. st \in {"none", "running", "stopped", "failed"} /\ op.next \in Plugin!Revs
  BY <1>2, <1>5 DEF SlotType, PluginOps
<1>8. slot' \in SlotType /\ slot'.active = op.next /\ slot'.status = st /\ slot'.blocked = FALSE
  BY <1>2, <1>6, <1>7 DEF SlotType
<1>9. op.next.id \in (0..tally.revs) \cup {MaxRevisions + 1, MaxRevisions + 2}
  <2>1. tally.revs \in Nat
    BY <1>2, PluginAssumption DEF PluginTypes, Tallies
  <2>2. op.next.id = tally.revs \/ op.next.id = MaxRevisions + 1
    BY <1>4 DEF NextRevision, Plugin!LegacyRev
  <2>3. QED
    BY <2>1, <2>2
<1>10. PluginDurable'
  BY <1>1, <1>2, <1>4, <1>9 DEF PluginDurable, Plugin!CommittedRecoverable, Plugin!Up
<1>11. ASSUME op' \in PluginOps PROVE PluginTypes'
  <2>1. record' \in 0..MaxExporters
    BY <1>1, <1>2
  <2>2. QED
    BY <1>1, <1>2, <1>7, <1>8, <1>11, <2>1 DEF PluginTypes, Plugin!TypeOK, PluginOps, SlotType
<1>12. PluginProcesses'
  BY <1>1, <1>2, <1>4 DEF PluginProcesses, Plugin!Up, NoneAlive, Alive
<1>13. CASE op.rp = 0
  <2>1. op' = Plugin!Idle /\ op' \in PluginOps
    BY <1>1, <1>2, <1>13, IdleIsTyped
  <2>2. NoneAlive'
    BY <1>1, <1>4, <1>13 DEF NoneAlive, Alive
  <2>3. Agreed' /\ OwnProcess'
    BY <1>1, <1>4, <1>8, <1>13, <2>2 DEF Agreed, OwnProcess, NoneAlive
  <2>4. Resting'
    BY <1>1, <1>2, <2>1, <2>2, <2>3 DEF Resting
  <2>5. QED
    BY <1>10, <1>11, <1>12, <2>1, <2>4 DEF PluginInv, PluginPhases
<1>14. CASE op.rp # 0
  <2>1. op' = [op EXCEPT !.pc = "observe"]
    BY <1>1, <1>14
  <2>2. /\ op' \in PluginOps /\ op'.pc = "observe" /\ op'.rp = op.rp /\ op'.mode = op.mode
    BY <1>2, <2>1 DEF PluginOps
  <2>3. Observing'
    BY <1>1, <1>4, <1>8, <1>14, <2>2 DEF Observing, Launched
  <2>4. QED
    BY <1>1, <1>2, <1>8, <1>10, <1>11, <1>12, <2>2, <2>3 DEF PluginInv, PluginPhases, Plugin!Up
<1>15. QED
  BY <1>13, <1>14

\* After a failed write of active.json only the file says which revision holds.
LEMMA PluginCommitFails == PluginInv /\ Plugin!CommitFails => PluginInv'
<1> SUFFICES ASSUME PluginInv, Plugin!CommitFails PROVE PluginInv'
  OBVIOUS
<1>1. /\ op.pc = "commit" /\ Plugin!Fault /\ procs' = Plugin!Kill({op.rp})
      /\ UNCHANGED <<disk, record, legacy, import, pending, holder, scraping, shut, tested>>
  BY DEF Plugin!CommitFails
<1>2. PICK truth \in {op.next, active} :
        /\ active' = truth
        /\ CASE op.kind = "migrate" ->
                  /\ slot' = [slot EXCEPT !.active = op.next, !.blocked = TRUE, !.status = "failed"]
                  /\ op' = Plugin!Idle
             [] op.kind # "migrate" /\ truth = Plugin!NoRev -> op' = Plugin!Idle /\ UNCHANGED slot
             [] op.kind # "migrate" /\ truth # Plugin!NoRev ->
                  /\ slot' = [slot EXCEPT !.active = truth]
                  /\ op' = [op EXCEPT !.pc = "restore", !.rev = truth, !.mode = "restore", !.rp = 0,
                                      !.onfail = IF op.kind \in Plugin!Transactions
                                                 THEN "ignore" ELSE "status"]
  BY DEF Plugin!CommitFails, Plugin!ReadBack
<1>3. /\ PluginTypes /\ PluginDurable /\ PluginProcesses
      /\ Plugin!Up /\ ~shut /\ slot.blocked = FALSE
      /\ op \in PluginOps /\ slot \in SlotType /\ tally \in Tallies
      /\ active \in Plugin!Revs /\ record \in 0..MaxExporters /\ 0 \in 0..MaxExporters
  BY <1>1, PluginBusy
<1>4. Advancing
  BY <1>1, PluginBusy DEF Restoring, Observing, Restopping
<1>5. /\ NextRevision /\ op.next \in disk /\ Agreed /\ Room
      /\ op.kind \in Plugin!Transactions \cup {"migrate", "stop", "start"}
      /\ Plugin!Payload(op.next) \in tested /\ op.next # Plugin!NoRev
      /\ IF op.rp = 0 THEN NoneAlive /\ op.next.desired = "stopped"
                      ELSE op.next.desired = "running" /\ Launched(op.next)
  BY <1>1, <1>4 DEF Advancing, Forwards, NextRevision
<1>6. tally' \in Tallies /\ tally'.procs = tally.procs /\ tally'.revs = tally.revs
  BY <1>1, <1>3, FaultCounted
<1>7. Ended({op.rp})
  BY <1>1, <1>3, KilledAreEnded
<1>8. NoneAlive' /\ OwnProcess'
  BY <1>3, <1>5, <1>7 DEF Ended, NoneAlive, Alive, PluginProcesses, Launched, OwnProcess
<1>9. op.next \in Plugin!Revs /\ truth \in Plugin!Revs
  BY <1>2, <1>3 DEF PluginOps
<1>10. truth.id \in (0..tally.revs) \cup {MaxRevisions + 1, MaxRevisions + 2}
  <2>1. tally.revs \in Nat
    BY <1>3, PluginAssumption DEF Tallies
  <2>2. op.next.id = tally.revs \/ op.next.id = MaxRevisions + 1
    BY <1>5 DEF NextRevision, Plugin!LegacyRev
  <2>3. active.id \in (0..tally.revs) \cup {MaxRevisions + 1, MaxRevisions + 2}
    BY <1>3 DEF PluginDurable
  <2>4. QED
    BY <1>2, <2>1, <2>2, <2>3
<1>11. Plugin!CommittedRecoverable'
  BY <1>1, <1>2, <1>3, <1>5 DEF PluginDurable, Plugin!CommittedRecoverable
<1>12. PluginDurable'
  BY <1>1, <1>2, <1>3, <1>6, <1>10, <1>11 DEF PluginDurable, Plugin!Up
<1>13. PluginProcesses'
  BY <1>1, <1>3, <1>8 DEF PluginProcesses, Plugin!Up, NoneAlive
<1>14. ASSUME op' \in PluginOps, slot' \in SlotType PROVE PluginTypes'
  BY <1>1, <1>2, <1>3, <1>6, <1>7, <1>9, <1>14
  DEF PluginTypes, Plugin!TypeOK, PluginOps, SlotType, Ended, ExporterTable, Exporters
<1>15. CASE op.kind = "migrate"
  <2>1. /\ slot' = [slot EXCEPT !.active = op.next, !.blocked = TRUE, !.status = "failed"]
        /\ op' = Plugin!Idle
    BY <1>2, <1>15
  <2>2. slot' \in SlotType /\ slot'.blocked
    BY <1>3, <1>9, <2>1 DEF SlotType
  <2>3. op' \in PluginOps
    BY <1>3, <2>1, IdleIsTyped
  <2>4. Resting'
    BY <1>8, <2>1, <2>2 DEF Resting
  <2>5. QED
    BY <1>12, <1>13, <1>14, <2>2, <2>3, <2>4 DEF PluginInv, PluginPhases
<1>16. CASE op.kind # "migrate" /\ truth = Plugin!NoRev
  <2>1. op' = Plugin!Idle /\ slot' = slot /\ active' = active
    BY <1>2, <1>5, <1>16
  <2>2. op' \in PluginOps
    BY <1>3, <2>1, IdleIsTyped
  <2>3. Resting'
    BY <1>5, <1>8, <2>1 DEF Resting, Agreed
  <2>4. QED
    BY <1>3, <1>12, <1>13, <1>14, <2>1, <2>2, <2>3 DEF PluginInv, PluginPhases
<1>17. CASE op.kind # "migrate" /\ truth # Plugin!NoRev
  <2>1. PICK onfail : onfail = IF op.kind \in Plugin!Transactions THEN "ignore" ELSE "status"
    OBVIOUS
  <2>2. /\ slot' = [slot EXCEPT !.active = truth]
        /\ op' = [op EXCEPT !.pc = "restore", !.rev = truth, !.mode = "restore", !.rp = 0,
                            !.onfail = onfail]
    BY <1>2, <1>17, <2>1
  <2>3. onfail \in {"ignore", "status"}
    BY <2>1
  <2>4. /\ op' \in PluginOps /\ op'.kind = op.kind /\ op'.next = op.next /\ op'.pc = "restore"
        /\ op'.rev = truth /\ op'.mode = "restore" /\ op'.rp = 0 /\ op'.onfail = onfail
    BY <1>3, <1>9, <2>2, <2>3 DEF PluginOps
  <2>5. /\ slot' \in SlotType /\ slot'.active = truth /\ slot'.status = slot.status
        /\ slot'.blocked = FALSE
    BY <1>3, <1>9, <2>2 DEF SlotType
  <2>6. op.kind \in Plugin!Transactions => Agreed'
    <3> SUFFICES ASSUME op.kind \in Plugin!Transactions, slot.status = "stopped"
                 PROVE  truth.desired = "stopped"
      BY <1>2, <1>17, <2>5 DEF Agreed
    <3>1. active # Plugin!NoRev /\ active.desired = "stopped"
      BY <1>5 DEF Agreed
    <3>2. op.next.desired = "stopped"
      BY <1>5, <3>1 DEF NextRevision
    <3>3. QED
      BY <3>1, <3>2
  <2>7. tally'.procs + 1 <= MaxExporters
    BY <1>1, <1>5, <1>6, <1>17 DEF Room
  <2>8. op.kind # "clean"
    BY <1>5 DEF Plugin!Transactions
  <2>9. Restoring'
    BY <1>2, <1>5, <1>17, <2>1, <2>4, <2>5, <2>6, <2>7, <2>8 DEF Restoring, Plugin!Transactions
  <2>10. QED
    BY <1>1, <1>3, <1>12, <1>13, <1>14, <2>4, <2>5, <2>9 DEF PluginInv, PluginPhases, Plugin!Up
<1>18. QED
  BY <1>15, <1>16, <1>17

\* A restore cleans the record, and a stopped plugin stays stopped.
LEMMA PluginRestore == PluginInv /\ Plugin!Restore => PluginInv'
<1> SUFFICES ASSUME PluginInv, Plugin!Restore PROVE PluginInv'
  OBVIOUS
<1>1. /\ op.pc = "restore" /\ procs' = Plugin!Clean /\ record' = 0
      /\ UNCHANGED <<active, legacy, import, pending, holder, scraping, shut, tested, tally>>
  BY DEF Plugin!Restore
<1>2. /\ PluginTypes /\ PluginProcesses /\ Plugin!Up /\ ~shut /\ slot.blocked = FALSE
      /\ op \in PluginOps /\ slot \in SlotType /\ tally \in Tallies /\ disk \subseteq Plugin!Revs
      /\ shut \in BOOLEAN /\ active \in Plugin!Revs
      /\ scraping \in {"off", "on", "stopping"} /\ 0 \in 0..MaxExporters
  BY <1>1, PluginBusy
<1>3. Restoring
  BY <1>1, PluginBusy DEF Advancing, Forwards, Observing, Restopping
<1>4. Ended({record})
  BY <1>1, <1>2, CleanedAreEnded
<1>5. NoneAlive' /\ OwnProcess'
  BY <1>2, <1>4 DEF Ended, NoneAlive, Alive, PluginProcesses, OwnProcess
<1>6. CASE op.kind # "clean" /\ op.rev.desired = "running"
  <2>1. op' = [op EXCEPT !.pc = "launch"] /\ slot' = slot /\ disk' = disk
    BY <1>6 DEF Plugin!Restore
  <2>2. /\ op' \in PluginOps /\ op'.kind = op.kind /\ op'.next = op.next /\ op'.rev = op.rev
        /\ op'.rp = op.rp /\ op'.pc = "launch" /\ op'.mode = op.mode /\ op'.onfail = op.onfail
    BY <1>2, <2>1 DEF PluginOps
  <2>3. Restoring'
    BY <1>1, <1>3, <1>5, <1>6, <2>1, <2>2 DEF Restoring, Agreed
  <2>4. PluginTypes' /\ PluginDurable' /\ PluginProcesses'
    BY <1>1, <1>2, <1>4, <1>5, <2>1, <2>2, PluginSteps
  <2>5. QED
    BY <1>1, <1>2, <2>1, <2>3, <2>4 DEF PluginInv, PluginPhases, Plugin!Up
<1>7. CASE ~(op.kind # "clean" /\ op.rev.desired = "running")
  <2>1. /\ op' = Plugin!Idle
        /\ slot' = [slot EXCEPT !.status = IF op.kind = "clean" THEN @ ELSE "stopped"]
        /\ disk' = IF op.kind \in {"boot", "clean"} THEN disk \cap {active}
                   ELSE IF op.kind \in Plugin!Transactions /\ op.onfail = "status"
                   THEN disk \ {op.next} ELSE disk
    BY <1>7 DEF Plugin!Restore
  <2>2. PICK st : st = IF op.kind = "clean" THEN slot.status ELSE "stopped"
    OBVIOUS
  <2>3. slot' = [slot EXCEPT !.status = st]
    BY <2>1, <2>2
  <2>4. st \in {"none", "running", "stopped", "failed"}
    BY <1>2, <2>2 DEF SlotType
  <2>5. /\ slot' \in SlotType /\ slot'.active = slot.active /\ slot'.status = st
        /\ slot'.blocked = FALSE
    BY <1>2, <2>3, <2>4 DEF SlotType
  <2>6. /\ slot.active = active /\ op.rev = active
        /\ op.kind = "clean" => active = Plugin!NoRev /\ slot.status # "stopped"
        /\ op.kind # "clean" => active # Plugin!NoRev
        /\ op.onfail = "status" /\ op.kind \in Plugin!Transactions => op.next # active
    BY <1>3 DEF Restoring
  <2>7. op.kind # "clean" => active.desired = "stopped"
    <3>1. active.desired \in {"running", "stopped"}
      BY <1>2 DEF Plugin!Revs
    <3>2. QED
      BY <1>7, <2>6, <3>1
  <2>8. Agreed'
    BY <1>1, <2>2, <2>5, <2>6, <2>7 DEF Agreed
  <2>9. op' \in PluginOps
    BY <1>2, <2>1, IdleIsTyped
  <2>10. disk' \subseteq Plugin!Revs /\ (active \in disk => active \in disk')
    BY <1>2, <2>1, <2>6
  <2>11. PluginTypes' /\ PluginDurable' /\ PluginProcesses'
    BY <1>1, <1>2, <1>4, <1>5, <2>5, <2>9, <2>10, PluginSteps
  <2>12. Resting'
    BY <1>1, <1>2, <1>5, <2>1, <2>8 DEF Resting
  <2>13. QED
    BY <2>11, <2>12 DEF PluginInv, PluginPhases
<1>8. QED
  BY <1>6, <1>7

\* The slot is told of the process that the record names.
LEMMA PluginObserve == PluginInv /\ Plugin!Observe => PluginInv'
<1> SUFFICES ASSUME PluginInv, Plugin!Observe PROVE PluginInv'
  OBVIOUS
<1>1. /\ op.pc = "observe" /\ slot' = [slot EXCEPT !.proc = op.rp, !.status = "running"]
      /\ procs' = [procs EXCEPT ![op.rp].watched = TRUE]
      /\ scraping' = "on" /\ op' = Plugin!Idle
      /\ disk' = IF op.kind \in {"boot", "migrate"} THEN disk \cap {active}
                 ELSE IF op.mode = "restore" /\ op.onfail = "status"
                         /\ op.kind \in Plugin!Transactions
                 THEN disk \ {op.next} ELSE disk
      /\ UNCHANGED <<active, record, legacy, import, pending, holder, shut, tested, tally>>
  BY DEF Plugin!Observe
<1>2. /\ PluginTypes /\ PluginProcesses /\ Plugin!Up /\ ~shut /\ slot.blocked = FALSE
      /\ op \in PluginOps /\ slot \in SlotType /\ tally \in Tallies /\ disk \subseteq Plugin!Revs
      /\ shut \in BOOLEAN /\ record \in 0..MaxExporters
  BY <1>1, PluginBusy
<1>3. Observing
  BY <1>1, PluginBusy DEF Advancing, Forwards, Restoring, Restopping
<1>4. /\ slot.active = active /\ active.desired = "running" /\ Launched(active)
      /\ op.mode = "restore" /\ op.onfail = "status" /\ op.kind \in Plugin!Transactions =>
           op.next # active
  BY <1>3 DEF Observing
<1>5. op.rp \in Exporters
  BY <1>2, <1>4, PluginAssumption DEF PluginOps, Launched, Exporters
<1>6. Ended({})
  <2>1. procs[op.rp] \in [st : {"none", "alive", "term", "dead"}, rev : 0..(MaxRevisions + 2),
                          intent : BOOLEAN, watched : BOOLEAN]
    BY <1>2, <1>5 DEF PluginTypes, Plugin!TypeOK, Exporters
  <2>2. PICK e : e = [procs[op.rp] EXCEPT !.watched = TRUE]
    OBVIOUS
  <2>3. procs' = [procs EXCEPT ![op.rp] = e]
    BY <1>1, <2>2
  <2>4. /\ e.rev = procs[op.rp].rev /\ e.st = procs[op.rp].st
        /\ e \in [st : {"none", "alive", "term", "dead"}, rev : 0..(MaxRevisions + 2),
                  intent : BOOLEAN, watched : BOOLEAN]
    BY <2>1, <2>2
  <2>5. QED
    BY <1>2, <1>5, <2>3, <2>4, ChangedIsEnded DEF Alive
<1>7. /\ slot' \in SlotType /\ slot'.active = slot.active /\ slot'.status = "running"
      /\ slot'.proc = op.rp /\ slot'.blocked = FALSE
  BY <1>1, <1>2 DEF SlotType, PluginOps
<1>8. op' \in PluginOps
  BY <1>1, <1>2, IdleIsTyped
<1>9. Agreed'
  BY <1>1, <1>4, <1>7 DEF Agreed
<1>10. OwnProcess'
  BY <1>1, <1>2, <1>4, <1>6, <1>7 DEF OwnProcess, Ended, Alive, PluginProcesses, Launched
<1>11. disk' \subseteq Plugin!Revs /\ (active \in disk => active \in disk')
  BY <1>1, <1>2, <1>4
<1>12. PluginTypes' /\ PluginDurable' /\ PluginProcesses'
  BY <1>1, <1>2, <1>6, <1>7, <1>8, <1>11, PluginSteps
<1>13. Resting'
  BY <1>1, <1>2, <1>7, <1>9, <1>10 DEF Resting
<1>14. QED
  BY <1>12, <1>13 DEF PluginInv, PluginPhases

\* A volume that is empty but for a version 1 registry.
LEMMA PluginInit == Plugin!Init => PluginInv
<1> SUFFICES ASSUME Plugin!Init PROVE PluginInv
  OBVIOUS
<1>1. /\ Plugin!NoRev \in Plugin!Revs /\ Plugin!LegacyRev \in Plugin!Revs
      /\ 0 \in 0..MaxExporters /\ 0 \in 0..MaxRevisions /\ 0 \in 0..(MaxRevisions + 2)
  BY PluginAssumption DEF Plugin!NoRev, Plugin!LegacyRev, Plugin!Revs
<1>2. op \in PluginOps /\ slot \in SlotType /\ slot.blocked = FALSE
  BY <1>1 DEF Plugin!Init, PluginOps, Plugin!Idle, SlotType, Plugin!EmptySlot
<1>3. tally \in Tallies /\ tally.revs = 0
  BY <1>1 DEF Plugin!Init, Tallies
<1>4. procs \in ExporterTable /\ NoneAlive
  BY <1>1 DEF Plugin!Init, ExporterTable, NoneAlive, Alive, Exporters, Plugin!NoProc
<1>5. PluginTypes
  BY <1>1, <1>2, <1>3, <1>4
  DEF Plugin!Init, PluginTypes, Plugin!TypeOK, PluginOps, SlotType, ExporterTable, Exporters
<1>6. PluginDurable
  BY <1>1, <1>3 DEF Plugin!Init, PluginDurable, Plugin!CommittedRecoverable, Plugin!NoRev
<1>7. PluginProcesses /\ PluginPhases
  BY <1>2, <1>4 DEF Plugin!Init, PluginProcesses, PluginPhases, Resting, Plugin!Up, NoneAlive
<1>8. QED
  BY <1>5, <1>6, <1>7 DEF PluginInv

\* Every step of the plugin runtime keeps the invariant.
LEMMA PluginNext == PluginInv /\ [Plugin!Next]_pluginVars => PluginInv'
<1> SUFFICES ASSUME PluginInv, [Plugin!Next]_pluginVars PROVE PluginInv'
  OBVIOUS
<1>1. CASE UNCHANGED pluginVars
  <2>1. /\ PluginTypes' /\ PluginDurable' /\ PluginProcesses'
    BY <1>1 DEF pluginVars, PluginInv, PluginTypes, Plugin!TypeOK, PluginDurable,
       Plugin!CommittedRecoverable, PluginProcesses, Plugin!Up, NoneAlive, Alive
  <2>2. PluginPhases'
    BY <1>1, SameIsEnded, PhasesOutlastExits DEF pluginVars, PluginInv, Ended
  <2>3. QED
    BY <2>1, <2>2 DEF PluginInv
<1>2. CASE Plugin!Step
  BY <1>2, PluginPrepare, PluginCleanForMigration, PluginValidate, PluginStop, PluginStopFails,
     PluginLaunch, PluginHealthy, PluginLaunchFails, PluginLaunchRefused, PluginCommit,
     PluginCommitFails, PluginRestore, PluginObserve DEF Plugin!Step
<1>3. CASE \E p \in Exporters : Plugin!Exit(p) \/ Plugin!Watch(p)
  BY <1>3, PluginExit, PluginWatch
<1>4. CASE Plugin!StartMonitor \/ Plugin!Repeat \/ Plugin!ScrapeEnds \/ Plugin!Shutdown
           \/ Plugin!MonitorEnds
  BY <1>4, PluginStart, PluginRepeat, PluginScrapeEnds, PluginShutdown, PluginMonitorEnds
<1>5. QED
  BY <1>1, <1>2, <1>3, <1>4, PluginRequests, PluginImports
  DEF Plugin!Next, Plugin!Watchers, Exporters

\* Cardinality of the module's own instance.
LEMMA PluginCount == \A S : Plugin!Cardinality(S) = Cardinality(S)
  BY DEF Plugin!Cardinality, Cardinality

\* What the invariant says of the processes, of the volume and of the slot between two
\* operations.
LEMMA PluginInvIsSafe == PluginInv => PluginSafe
<1> SUFFICES ASSUME PluginInv PROVE PluginSafe
  OBVIOUS
<1>1. PluginTypes /\ PluginDurable /\ PluginProcesses /\ PluginPhases
  BY DEF PluginInv
<1>2. Plugin!TypeOK /\ Plugin!CommittedRecoverable /\ Plugin!NoHalfImport
  BY <1>1 DEF PluginTypes, PluginDurable, PluginProcesses, Plugin!NoHalfImport
<1>3. Plugin!SingleProcess
  <2>1. PICK A : A = {p \in 1..MaxExporters : procs[p].st = "alive"}
    OBVIOUS
  <2>2. A \subseteq {record}
    BY <1>1, <2>1 DEF PluginProcesses, Exporters, Alive
  <2>3. IsFiniteSet({record}) /\ Cardinality({record}) = 1
    BY FS_Singleton
  <2>4. Cardinality(A) <= 1
    BY <2>2, <2>3, FS_Subset
  <2>5. QED
    BY <2>1, <2>4, PluginCount DEF Plugin!SingleProcess
<1>4. Plugin!QuietAgrees
  <2> SUFFICES ASSUME Plugin!Up, op = Plugin!Idle, ~slot.blocked
               PROVE  /\ slot.active = active
                      /\ slot.status = "stopped" => active.desired = "stopped"
                      /\ \A p \in 1..MaxExporters : procs[p].st = "alive" =>
                           /\ p = slot.proc /\ ~shut
                           /\ active.desired = "running"
                           /\ \E r \in disk : /\ r.id = procs[p].rev
                                              /\ Plugin!Payload(r) = Plugin!Payload(active)
    BY DEF Plugin!QuietAgrees
  <2>1. op.pc = "idle"
    BY DEF Plugin!Idle
  <2>2. Resting
    BY <1>1, <2>1 DEF PluginPhases, Advancing, Forwards, Restoring, Observing, Restopping
  <2>3. Agreed /\ OwnProcess /\ (shut => NoneAlive)
    BY <2>2 DEF Resting
  <2>4. active.desired = "running" => active \in disk
    BY <1>2 DEF Plugin!CommittedRecoverable, Plugin!NoRev
  <2>5. QED
    BY <2>3, <2>4 DEF Agreed, OwnProcess, NoneAlive, Alive, Exporters
<1>5. QED
  BY <1>2, <1>3, <1>4 DEF PluginSafe

\* The invariant of the plugin runtime holds in every reachable state.
THEOREM PluginInvariant == AllSpec => []PluginInv
<1>1. AllInit => PluginInv
  BY PluginInit DEF AllInit
<1>2. PluginInv /\ [AllNext]_allVars => PluginInv'
  BY PluginNext DEF AllNext, allVars
<1>3. QED
  BY <1>1, <1>2, PTL DEF AllSpec

\* Whatever operations fail, whatever dies and whenever Monitor starts again, one exporter
\* runs at most, active.json names a revision that can be restored, memory, file and process
\* agree between operations, and an import in part is never run on (runtime.go, portable.go).
THEOREM PluginStaysSafe == AllSpec => []PluginSafe
BY PluginInvariant, PluginInvIsSafe, PTL

\* The same of the plugin runtime on its own, with or without a version 1 registry.
THEOREM PluginSafeAlone == Plugin!Spec => []PluginSafe
<1>1. PluginInv /\ [Plugin!Next]_(Plugin!vars) => PluginInv'
  BY PluginNext DEF Plugin!vars, pluginVars
<1>2. QED
  BY <1>1, PluginInit, PluginInvIsSafe, PTL DEF Plugin!Spec

\* What an operation that configures or updates an installed plugin commits should run
\* exactly if the plugin should have run before, written or not, whatever fails
\* (runtime.go).
KeepsDesired ==
  op.kind \in Plugin!Transactions /\ active # Plugin!NoRev => active'.desired = active.desired

\* Only a commit, in full or in part, changes active.json while Monitor runs.
LEMMA ActiveChanges ==
  ASSUME [Plugin!Next]_pluginVars, active' # active
  PROVE  \/ Plugin!Commit \/ Plugin!CommitFails
         \/ Plugin!ImportWrite \/ Plugin!ImportFails
<1>1. CASE Plugin!Step
  BY <1>1 DEF Plugin!Step, Plugin!Prepare, Plugin!CleanForMigration, Plugin!Validate, Plugin!Stop,
     Plugin!StopFails, Plugin!Launch, Plugin!Healthy, Plugin!LaunchFails, Plugin!LaunchRefused,
     Plugin!Restore, Plugin!Observe
<1>2. CASE Plugin!ScrapeEnds \/ Plugin!Shutdown \/ Plugin!MonitorEnds
           \/ (\E p \in 1..MaxExporters : Plugin!Exit(p)) \/ Plugin!Watchers
  BY <1>2 DEF Plugin!ScrapeEnds, Plugin!Shutdown, Plugin!MonitorEnds, Plugin!Exit,
     Plugin!Watchers, Plugin!Watch
<1>3. CASE Plugin!StartMonitor \/ Plugin!Install \/ Plugin!Configure \/ Plugin!Update
           \/ (\E d \in {"running", "stopped"} : Plugin!SetDesired(d)) \/ Plugin!Repeat
  BY <1>3 DEF Plugin!StartMonitor, Plugin!Install, Plugin!Configure, Plugin!Update,
     Plugin!SetDesired, Plugin!Repeat
<1>4. CASE Plugin!ImportBegin \/ Plugin!ImportEnd
  BY <1>4 DEF Plugin!ImportBegin, Plugin!ImportEnd
<1>5. QED
  BY <1>1, <1>2, <1>3, <1>4 DEF Plugin!Next, pluginVars

\* A configuration or an update never starts a stopped plugin and never stops a running one,
\* whether its commit succeeds, fails before the rename or after it (runtime.go).
THEOREM DesiredIsKept == AllSpec => [][KeepsDesired]_allVars
<1>1. PluginInv /\ [AllNext]_allVars => KeepsDesired
  <2> SUFFICES ASSUME PluginInv, [Plugin!Next]_pluginVars, op.kind \in Plugin!Transactions,
                      active # Plugin!NoRev, active' # active
               PROVE  active'.desired = active.desired
    BY DEF AllNext, allVars, KeepsDesired
  <2>1. Plugin!Commit \/ Plugin!CommitFails
    <3>1. op # Plugin!Idle
      BY DEF Plugin!Idle, Plugin!Transactions
    <3>2. Plugin!Up
      BY <3>1 DEF PluginInv, PluginProcesses
    <3>3. QED
      BY <3>2, ActiveChanges DEF Plugin!ImportWrite, Plugin!ImportFails, Plugin!Up
  <2>2. op.pc = "commit" /\ active' = op.next
    BY <2>1 DEF Plugin!Commit, Plugin!CommitFails
  <2>3. Advancing
    BY <2>2, PluginBusy DEF Restoring, Observing, Restopping
  <2>4. QED
    BY <2>2, <2>3 DEF Advancing, NextRevision
<1>2. QED
  BY <1>1, PluginInvariant, PTL DEF AllSpec

=============================================================================
