------------------------------ MODULE RateLimits ------------------------------
(***************************************************************************)
(* Request protection of the business API: token buckets that Redis keeps  *)
(* for all processes, tokens that a process leases ahead, the bounded      *)
(* limiter of one process for the time Redis gives no answer.  Time is     *)
(* Redis's clock.                                                          *)
(***************************************************************************)
EXTENDS Naturals, FiniteSets, FiniteSetsExt, Functions

CONSTANTS Replicas, Requests,
          Reads, Writes,        \* identities under post_read, and under a policy without lease and fallback
          Capacity, Refill, Cost, Lease, IdleTTL, \* one policy's values, Refill per unit of time
          CreationCapacity, CreationRate, CreationTTL,
          MaxLeases,            \* entries of a process's lease table
          MaxIdentities,        \* identities of a process's own limiter
          Horizon,              \* bound: the clock
          MaxArrivals,          \* bound: requests in all
          MaxFaults             \* bound: lost answers, Redis restarts, flushed scripts

Ids == Reads \cup Writes
PolicyOf(id) == IF id \in Reads THEN "post_read" ELSE "fact_write"
Absent == [tokens |-> 0, last |-> Horizon + 1]

\* Policy.Validate, on tokens per ten seconds and seconds.
ValidPolicy(p) ==
  /\ p.capacity > 0 /\ p.refill > 0 /\ p.cost \in 1..p.capacity
  /\ p.lease = 0 \/ p.lease \in p.cost..p.capacity
  /\ p.idle \in 1..(365 * 24 * 3600)
  /\ p.creationCapacity > 0 /\ p.creationRate > 0 /\ p.creationTTL > 0

\* protectionPolicies, given the time to live of the post cache.
Policies(cacheTTL) ==
  LET policy(capacity, refill, idle, new, rate, lease) ==
        [capacity |-> capacity, refill |-> refill, cost |-> 1, idle |-> idle,
         creationCapacity |-> new, creationRate |-> rate, creationTTL |-> 600, lease |-> lease]
  IN {policy(30, 5, 600, 1000, 100, 0), policy(10, 2, 600, 1000, 100, 0),
      policy(60, 100, (IF cacheTTL = 0 THEN 300 ELSE cacheTTL) + 60, 5000, 1000, 4),
      policy(20, 20, 600, 1000, 100, 0), policy(10, 10, 600, 1000, 100, 0)}

VARIABLES
  now,
  bucket,    \* identity -> its hash in Redis, or Absent
  creation,  \* policy -> the bucket of new identities
  scripts,   \* Redis has the script
  sha,       \* replica -> it believes so
  leases,    \* replica -> identities of its lease table -> [tokens, seen]
  local,     \* replica -> identities of its own limiter -> [tokens, last]
  sweep,     \* replica -> nextSweep
  req,       \* request -> [st, id, on, granted, runs]
  window,    \* history: a window of time, from any moment on, and what was let in
  count

vars == <<now, bucket, creation, scripts, sha, leases, local, sweep, req, window, count>>

NoRequest == [st |-> "idle", id |-> CHOOSE i \in Ids : TRUE, on |-> CHOOSE r \in Replicas : TRUE,
              granted |-> 0, runs |-> 0]
NoWindow == [at |-> 0, held |-> [i \in Ids |-> 0], taken |-> [i \in Ids |-> 0], news |-> 0,
             inside |-> [r \in Replicas |-> [i \in Ids |-> 0]], resets |-> 0, on |-> FALSE]
Empty == [i \in {} |-> 0]

Init ==
  /\ now = 0 /\ bucket = [i \in Ids |-> Absent]
  /\ creation = [p \in {"post_read", "fact_write"} |-> Absent]
  /\ scripts = FALSE /\ sha = [r \in Replicas |-> FALSE]
  /\ leases = [r \in Replicas |-> Empty] /\ local = [r \in Replicas |-> Empty]
  /\ sweep = [r \in Replicas |-> 0]
  /\ req = [q \in Requests |-> NoRequest] /\ window = NoWindow
  /\ count = [faults |-> 0, arrivals |-> 0]

Fault == count.faults < MaxFaults /\ count' = [count EXCEPT !.faults = @ + 1]

-----------------------------------------------------------------------------
(* The script *)

Filled(b, cap, rate) == IF b = Absent THEN cap ELSE Min({cap, b.tokens + (now - b.last) * rate})
\* take: whole requests up to the lease, or none; ceil for the time to wait.
Granted(t, cost, lease) == IF t < cost THEN 0
                           ELSE LET g == Min({lease, (t \div cost) * cost}) IN IF g < cost THEN 0 ELSE g
RetryAfter(t, cost, rate) == (cost - t + rate - 1) \div rate
LeaseSize(id) == IF id \in Reads /\ Lease >= Cost THEN Lease ELSE Cost

\* As it would be if the wait were rounded down.
RetryAfterFloor(t, cost, rate) == (cost - t) \div rate

Tokens(id) == Filled(bucket[id], Capacity, Refill)
NewTokens(id) == Filled(creation[PolicyOf(id)], CreationCapacity, CreationRate)
IsNew(id) == bucket[id] = Absent
CreationAllows(id) == ~IsNew(id) \/ NewTokens(id) >= 1
Grant(id) == IF CreationAllows(id) THEN Granted(Tokens(id), Cost, LeaseSize(id)) ELSE 0

\* A key is gone when it was not used for its time to live.
Expired(b, ttl) == b # Absent /\ now + 1 - b.last >= ttl
Tick ==
  /\ now < Horizon /\ now' = now + 1
  /\ bucket' = [i \in Ids |-> IF Expired(bucket[i], IdleTTL) THEN Absent ELSE bucket[i]]
  /\ creation' = [p \in DOMAIN creation |-> IF Expired(creation[p], CreationTTL) THEN Absent ELSE creation[p]]
  /\ UNCHANGED <<scripts, sha, leases, local, sweep, req, window, count>>

\* As it would be if the process deducted only what the request costs, but leased
\* the block.
RunScriptCheap(id) ==
  /\ UNCHANGED <<creation, window>>
  /\ bucket' = [bucket EXCEPT ![id] = [tokens |-> Tokens(id) - (IF Grant(id) = 0 THEN 0 ELSE Cost), last |-> now]]

\* The whole script is one step of Redis: first the bucket of new identities, then
\* the identity's.
RunScript(id) ==
  LET policy == PolicyOf(id)
      new == IF IsNew(id) THEN [creation EXCEPT ![policy] =
               [tokens |-> IF CreationAllows(id) THEN NewTokens(id) - 1 ELSE NewTokens(id), last |-> now]]
             ELSE creation
  IN /\ creation' = new
     /\ bucket' = IF CreationAllows(id)
                    THEN [bucket EXCEPT ![id] = [tokens |-> Tokens(id) - Grant(id), last |-> now]]
                    ELSE bucket
     /\ window' = IF window.on /\ IsNew(id) /\ CreationAllows(id) THEN [window EXCEPT !.news = @ + 1] ELSE window

-----------------------------------------------------------------------------
(* One request: the middleware, the shared limiter, the lease table *)

\* One more request of an identity is let in: by the shared quota, or by a process alone.
LetIn(id) == window' = IF window.on THEN [window EXCEPT !.taken[id] = @ + Cost] ELSE window

\* 200, 429, 503: the request ends.
Answer(q) == req' = [req EXCEPT ![q] = NoRequest]

Arrive(q) ==
  /\ req[q].st = "idle" /\ count.arrivals < MaxArrivals
  /\ count' = [count EXCEPT !.arrivals = @ + 1]
  /\ \E id \in Ids, r \in Replicas :
       req' = [req EXCEPT ![q] = [NoRequest EXCEPT !.st = "take", !.id = id, !.on = r]]
  /\ UNCHANGED <<now, bucket, creation, scripts, sha, leases, local, sweep, window>>

Has(r, id) == id \in DOMAIN leases[r]
LeaseGone(r, id) == Has(r, id) /\ now - leases[r][id].seen >= IdleTTL

\* leaseCache.take: one request from a live lease; a lease that was not used for
\* its time to live is dropped.
TakeLease(q) ==
  LET r == req[q].on  id == req[q].id
      works == id \in Reads /\ Lease > Cost /\ Has(r, id) /\ ~LeaseGone(r, id) /\ leases[r][id].tokens >= Cost
  IN /\ req[q].st = "take"
     /\ IF works
          THEN /\ leases' = [leases EXCEPT ![r][id] = [tokens |-> @.tokens - Cost, seen |-> now]]
               /\ Answer(q) /\ LetIn(id)
          ELSE /\ leases' = IF LeaseGone(r, id) THEN [leases EXCEPT ![r] = Restrict(@, DOMAIN @ \ {id})] ELSE leases
               /\ req' = [req EXCEPT ![q].st = "script"] /\ UNCHANGED window
     /\ UNCHANGED <<now, bucket, creation, scripts, sha, local, sweep, count>>

\* As it would be if a lease never ended by age, but was spent after it is gone.
TakeLeaseTwice(q) ==
  LET r == req[q].on  id == req[q].id
  IN /\ req[q].st = "take"
     /\ IF id \in Reads /\ Has(r, id) /\ leases[r][id].tokens >= Cost
          THEN Answer(q) /\ LetIn(id)
          ELSE req' = [req EXCEPT ![q].st = "script"] /\ UNCHANGED window
     /\ UNCHANGED <<now, bucket, creation, scripts, sha, leases, local, sweep, count>>

\* ensureScript and execute: the script is loaded when this process does not know
\* it, and runs; EVALSHA answers NOSCRIPT when Redis has lost it, then once more.
Known(q) == sha[req[q].on] => scripts
Execute(q) ==
  /\ req[q].st \in {"script", "again"}
  /\ IF Known(q)
       THEN /\ RunScript(req[q].id)
            /\ req' = [req EXCEPT ![q] = [@ EXCEPT !.st = "decided", !.granted = Grant(req[q].id), !.runs = @ + 1]]
            /\ scripts' = TRUE /\ sha' = [sha EXCEPT ![req[q].on] = TRUE]
       ELSE /\ req' = [req EXCEPT ![q].st = IF @ = "script" THEN "again" ELSE "failed"]
            /\ sha' = IF req[q].st = "script" THEN [sha EXCEPT ![req[q].on] = FALSE] ELSE sha
            /\ UNCHANGED <<bucket, creation, scripts, window>>
  /\ UNCHANGED <<now, leases, local, sweep, count>>

\* Redis is away, or its answer is lost after the script ran: the decision is
\* unknown and is not asked for again.
Lost(q) ==
  /\ req[q].st \in {"script", "again", "decided"} /\ Fault
  /\ req' = [req EXCEPT ![q].st = "failed", ![q].granted = 0]
  /\ UNCHANGED <<now, bucket, creation, scripts, sha, leases, local, sweep, window>>

\* As it would be if an unknown decision were asked for again.
LostAsksAgain(q) ==
  /\ req[q].st \in {"script", "again", "decided"} /\ Fault
  /\ req' = [req EXCEPT ![q].st = "script", ![q].granted = 0]
  /\ UNCHANGED <<now, bucket, creation, scripts, sha, leases, local, sweep, window>>

\* leaseCache.add: the tokens beyond this request; a full table drops any entry.
Added(r, id, granted) ==
  IF ~(id \in Reads /\ Lease > Cost /\ granted > Cost) THEN {leases[r]}
  ELSE LET kept == IF Has(r, id) \/ Cardinality(DOMAIN leases[r]) < MaxLeases THEN {leases[r]}
                   ELSE {Restrict(leases[r], DOMAIN leases[r] \ {x}) : x \in DOMAIN leases[r]}
           old == IF Has(r, id) THEN leases[r][id].tokens ELSE 0
       IN {[i \in DOMAIN t \cup {id} |-> IF i = id THEN [tokens |-> old + granted - Cost, seen |-> now] ELSE t[i]] : t \in kept}

Decided(q) ==
  LET r == req[q].on  id == req[q].id
  IN /\ req[q].st = "decided"
     /\ IF req[q].granted > 0
          THEN /\ \E t \in Added(r, id, req[q].granted) : leases' = [leases EXCEPT ![r] = t]
               /\ Answer(q) /\ LetIn(id)
          ELSE Answer(q) /\ UNCHANGED <<leases, window>>
     /\ UNCHANGED <<now, bucket, creation, scripts, sha, local, sweep, count>>

-----------------------------------------------------------------------------
(* LocalLimiter: only reads fall back to it; everything else is refused *)

Swept(r) == IF now < sweep[r] THEN local[r]
            ELSE Restrict(local[r], {i \in DOMAIN local[r] : now - local[r][i].last < IdleTTL})
SweptSet(r) == DOMAIN Swept(r)

\* As it would be if the number of identities were not looked at.
FitsAlways(r, id) == TRUE
Fits(r, id) == id \in SweptSet(r) \/ Cardinality(SweptSet(r)) < MaxIdentities

LocalAllow(q) ==
  LET r == req[q].on  id == req[q].id
      tokens == IF id \in SweptSet(r)
                  THEN Min({Capacity, Swept(r)[id].tokens + (now - Swept(r)[id].last) * Refill})
                  ELSE Capacity
      left == IF tokens < Cost THEN tokens ELSE tokens - Cost
  IN /\ req[q].st = "failed" /\ id \in Reads
     /\ sweep' = [sweep EXCEPT ![r] = IF now < @ THEN @ ELSE now + 1]
     /\ IF Fits(r, id)
          THEN /\ local' = [local EXCEPT ![r] =
                    [i \in SweptSet(r) \cup {id} |-> IF i = id THEN [tokens |-> left, last |-> now] ELSE Swept(r)[i]]]
               /\ Answer(q)
               /\ window' = IF window.on /\ tokens >= Cost THEN [window EXCEPT !.inside[r][id] = @ + Cost] ELSE window
          ELSE local' = [local EXCEPT ![r] = Swept(r)] /\ Answer(q) /\ UNCHANGED window
     /\ UNCHANGED <<now, bucket, creation, scripts, sha, leases, count>>

Unavailable(q) ==
  /\ req[q].st = "failed" /\ req[q].id \in Writes
  /\ Answer(q)
  /\ UNCHANGED <<now, bucket, creation, scripts, sha, leases, local, sweep, window, count>>

\* Redis restarts without its data; its script cache is flushed; a process restarts.
RedisRestarts ==
  /\ Fault /\ scripts' = FALSE
  /\ bucket' = [i \in Ids |-> Absent] /\ creation' = [p \in DOMAIN creation |-> Absent]
  /\ window' = IF window.on THEN [window EXCEPT !.resets = @ + 1] ELSE window
  /\ UNCHANGED <<now, sha, leases, local, sweep, req>>
ScriptsFlushed ==
  /\ scripts /\ Fault /\ scripts' = FALSE
  /\ UNCHANGED <<now, bucket, creation, sha, leases, local, sweep, req, window>>

Held(id) ==
  SumSet({0}) + MapThenSumSet(LAMBDA r : IF Has(r, id) THEN leases[r][id].tokens ELSE 0, Replicas)
              + MapThenSumSet(LAMBDA q : IF req[q].st = "decided" /\ req[q].id = id THEN req[q].granted ELSE 0, Requests)

\* A window of time opens: what processes hold already is noted.
Observe ==
  /\ ~window.on
  /\ window' = [NoWindow EXCEPT !.on = TRUE, !.at = now, !.held = [i \in Ids |-> Held(i)]]
  /\ UNCHANGED <<now, bucket, creation, scripts, sha, leases, local, sweep, req, count>>

Progress(q) == TakeLease(q) \/ Execute(q) \/ Decided(q) \/ LocalAllow(q)
                 \/ Unavailable(q)
Next ==
  \/ Tick \/ Observe \/ RedisRestarts \/ ScriptsFlushed
  \/ \E q \in Requests : Arrive(q) \/ Lost(q) \/ Progress(q)

Spec == Init /\ [][Next]_vars
-----------------------------------------------------------------------------
TypeOK ==
  /\ now \in 0..Horizon
  /\ \A i \in Ids : bucket[i] = Absent \/ bucket[i].tokens \in 0..Capacity
  /\ \A r \in Replicas : Cardinality(DOMAIN leases[r]) <= MaxLeases

\* In every window of time the shared quota lets in what the bucket may hold, what
\* flows in meanwhile, and what processes had leased before the window, for each
\* loss of Redis's data a bucket more; and so for new identities.
WindowBound ==
  LET flow == Refill * (now - window.at)
  IN window.on =>
       /\ \A i \in Ids : window.taken[i] <= Capacity * (1 + window.resets) + flow + window.held[i]
       /\ window.news <= 2 * (CreationCapacity * (1 + window.resets) + CreationRate * (now - window.at))

\* In every window a process on its own lets in one bucket and its flow, and it
\* knows no more identities than it may, whatever was swept and came back.
LocalBound ==
  /\ window.on => \A r \in Replicas, i \in Ids :
       window.inside[r][i] <= Capacity + Refill * (now - window.at)
  /\ \A r \in Replicas : Cardinality(DOMAIN local[r]) <= MaxIdentities

\* The script runs at most once for a request, also when Redis forgot it.
DecisionOnce == \A q \in Requests : req[q].runs <= 1

\* No policy forgets a bucket before it is full again: an expired key grants no
\* tokens that the flow would not have brought.
ExpiryGrantsNothing ==
  \A ttl \in {0, 1, 60, 3600} : \A p \in Policies(ttl) :
    /\ ValidPolicy(p) /\ p.idle * p.refill >= 10 * p.capacity
    /\ p.creationTTL * p.creationRate >= 10 * p.creationCapacity

\* A client that waits as long as it was told finds the tokens for its request.
RetrySuffices ==
  \A rate, cost \in 1..5 : \A t \in 0..(cost - 1) : t + RetryAfter(t, cost, rate) * rate >= cost

=============================================================================
