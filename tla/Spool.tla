------------------------------- MODULE Spool -------------------------------
(***************************************************************************)
(* The monitor's durable hand-off to Kafka: one bbolt queue per kind of    *)
(* message and one goroutine that sends it.  A record is in the queue      *)
(* until the broker has acknowledged it, refused it for good, or newer     *)
(* records need its space.  Records left by an earlier process are old;    *)
(* three new ones go before each of them.                                  *)
(*                                                                         *)
(* The queue is a sequence in the order of the keys.  A stored record is   *)
(* its JSON: a record marked "new":false is one byte longer than the same  *)
(* record marked "new":true, and the model keeps that byte.  A transaction *)
(* commits as a whole.  Corrupt files are left out.                        *)
(***************************************************************************)
EXTENDS Naturals, Sequences, FiniteSets

CONSTANTS Sizes,       \* bytes of a record marked as new
          Capacity,    \* bytes the records of the queue may use
          MaxRestarts, \* bound on restarts of the monitor
          MaxFaults    \* bound on failed writes of the database

VARIABLES
  queue,    \* the messages bucket
  used,     \* used_bytes
  newSent,  \* new records sent since the last old one
  sender,   \* what the sending goroutine is doing
  restarts, faults

vars == <<queue, used, newSent, sender, restarts, faults>>

Records == [size : Sizes, new : BOOLEAN, flight : BOOLEAN]
Bytes(r) == IF r.new THEN r.size ELSE r.size + 1

\* The bytes of the records at some positions, counted one by one.
BytesOf(S) == Cardinality(UNION {{i} \X (1..Bytes(queue[i])) : i \in S})
Occupied == BytesOf(DOMAIN queue)

Old == {i \in DOMAIN queue : ~queue[i].new}
New == {i \in DOMAIN queue : queue[i].new}
InFlight == {i \in DOMAIN queue : queue[i].flight}
Least(S) == CHOOSE i \in S : \A j \in S : i <= j

TypeOK ==
  /\ queue \in Seq(Records)
  /\ used \in 0..Capacity /\ newSent \in 0..3
  /\ sender.at \in {"idle", "claim", "send", "delete"} /\ sender.preferNew \in BOOLEAN
  /\ Cardinality(InFlight) = IF sender.at \in {"send", "delete"} THEN 1 ELSE 0
  /\ restarts \in 0..MaxRestarts /\ faults \in 0..MaxFaults

Idle == [at |-> "idle", preferNew |-> FALSE]

Init ==
  /\ queue = <<>> /\ used = 0
  /\ newSent = 0 /\ sender = Idle
  /\ restarts = 0 /\ faults = 0

-----------------------------------------------------------------------------
(* Enqueueing, which makes room first.                                     *)

Nth(S, n) == CHOOSE i \in S : Cardinality({j \in S : j <= i}) = n
Keep(S) == [n \in 1..Cardinality(S) |-> queue[Nth(S, n)]]

\* As it would be if a record under way could be evicted.
EvictableAny == DOMAIN queue

Evictable == DOMAIN queue \ InFlight

Oldest(k) == LET E == Evictable IN {i \in E : Cardinality({j \in E : j <= i}) <= k}

\* As it would be without the reset to zero.
TakeOrKeep(n, bytes) == IF bytes <= n THEN n - bytes ELSE n

Take(n, bytes) == IF bytes <= n THEN n - bytes ELSE 0

\* used_bytes once the k oldest evictable records are gone.  They go one by one, and
\* each subtraction stops at zero: so does their sum.
UsedWithout(k) == Take(used, BytesOf(Oldest(k)))

Fits(k, size) == UsedWithout(k) + size <= Capacity

\* Too large, or everything else in flight: nothing is stored or evicted.  A record is
\* evicted only while the new one does not fit.
Enqueue(size) ==
  \E k \in 0..Cardinality(Evictable) :
    /\ Fits(k, size) /\ (k = 0 \/ ~Fits(k - 1, size))
    /\ queue' = Append(Keep(DOMAIN queue \ Oldest(k)),
                       [size |-> size, new |-> TRUE, flight |-> FALSE])
    /\ used' = UsedWithout(k) + size
    /\ UNCHANGED <<newSent, sender, restarts, faults>>

-----------------------------------------------------------------------------
(* The sending goroutine.                                                  *)

\* As it would be without the share of the old records.
ChooseNewFirst ==
  /\ sender.at = "idle"
  /\ sender' = [at |-> "claim", preferNew |-> New # {}]
  /\ UNCHANGED <<queue, used, newSent, restarts, faults>>

\* Three new records, then an old one, while there are both.
Choose ==
  /\ sender.at = "idle"
  /\ IF New = {} \/ Old = {}
     THEN newSent' = newSent /\ sender' = [at |-> "claim", preferNew |-> New # {}]
     ELSE /\ newSent' = IF newSent >= 3 THEN 0 ELSE newSent + 1
          /\ sender' = [at |-> "claim", preferNew |-> newSent < 3]
  /\ UNCHANGED <<queue, used, restarts, faults>>

Claimable == IF sender.preferNew THEN New ELSE DOMAIN queue

\* Meanwhile the chosen records may have been evicted.
Claim ==
  /\ sender.at = "claim"
  /\ IF Claimable = {} THEN sender' = Idle /\ UNCHANGED queue
     ELSE /\ queue' = [queue EXCEPT ![Least(Claimable)].flight = TRUE]
          /\ sender' = [sender EXCEPT !.at = "send"]
  /\ UNCHANGED <<used, newSent, restarts, faults>>

\* The broker acknowledged the record, or will never take it.
Sent ==
  /\ sender.at = "send"
  /\ sender' = [sender EXCEPT !.at = "delete"]
  /\ UNCHANGED <<queue, used, newSent, restarts, faults>>

Released(r) == [r EXCEPT !.flight = FALSE]

Release ==
  /\ queue' = [i \in DOMAIN queue |-> Released(queue[i])]
  /\ sender' = Idle

\* No acknowledgement: the record is sent again, though the broker may have it.
SendFails ==
  /\ sender.at = "send" /\ Release
  /\ UNCHANGED <<used, newSent, restarts, faults>>

DeleteRecord ==
  /\ sender.at = "delete"
  /\ queue' = Keep(DOMAIN queue \ InFlight)
  /\ used' = Take(used, BytesOf(InFlight))
  /\ sender' = Idle
  /\ UNCHANGED <<newSent, restarts, faults>>

\* The disk is full or fails: the record is sent once more.
DeleteFails ==
  /\ sender.at = "delete" /\ faults < MaxFaults
  /\ faults' = faults + 1 /\ Release
  /\ UNCHANGED <<used, newSent, restarts>>

Reopened(r) == [r EXCEPT !.new = FALSE, !.flight = FALSE]

\* A new process opens the file: what it finds is old work.
Restart ==
  /\ restarts < MaxRestarts
  /\ restarts' = restarts + 1
  /\ queue' = [i \in DOMAIN queue |-> Reopened(queue[i])]
  /\ sender' = Idle /\ newSent' = 0
  /\ UNCHANGED <<used, faults>>

Next ==
  \/ \E size \in Sizes : Enqueue(size)
  \/ Choose \/ Claim \/ Sent \/ SendFails \/ DeleteRecord \/ DeleteFails \/ Restart

Spec == Init /\ [][Next]_vars

SentOld == Sent /\ InFlight \subseteq Old

\* The goroutine never stops, and Kafka answers again and again, also when the
\* record is an old one.
Fairness ==
  /\ WF_vars(Choose) /\ WF_vars(Claim) /\ WF_vars(DeleteRecord)
  /\ SF_vars(Sent) /\ SF_vars(SentOld)

FairSpec == Spec /\ Fairness

-----------------------------------------------------------------------------

\* The queue never believes that it holds more than it does: it evicts no
\* record while there is room for the new one, through any sequence of
\* evictions, deletions and restarts.  (It may believe that it holds less: a
\* restart makes its records one byte longer each and does not count that.)
NeverOverstated == used <= Occupied

\* A backlog from before a restart is sent or makes room in the end, however
\* many new records keep coming.
BacklogGoes == (Old # {}) ~> (Old = {})

=============================================================================
