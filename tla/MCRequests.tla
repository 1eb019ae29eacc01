------------------------------ MODULE MCRequests ------------------------------
(***************************************************************************)
(* What requests meet in the business service: rate limits, stage queries, *)
(* accounts, relations between users and posts, and the event publisher.   *)
(* Each behaviour belongs to one component: `part` says which.  Social,  *)
(* Accounts and StageQueries have their own variables, the others share.   *)
(***************************************************************************)
EXTENDS Social, TLC

CONSTANTS People, Founders, Visits, AccountOps, \* Users, Admins, Requests and Ops of Accounts
          SessionTTL, MaxClock, MaxOutages     \* its TTL, MaxTime and MaxFaults

ASSUME AccountsAssumption ==
  /\ Founders \subseteq People /\ "nobody" \notin People /\ "singleton" \notin People
  /\ IsFiniteSet(Visits) /\ SessionTTL \in Nat
  /\ MaxClock \in Nat \ {0} /\ MaxOutages \in Nat

\* Accounts: `asked` is its request, `outages` its faults, the rest is named as there.
VARIABLES role, root, audit, follows, announced, session, now, asked,
          exclusive, shared, gap, outages

CONSTANTS Callers, ClientSlots, ServerSlots, MaxEpoch, MaxRevision,
          MaxFailures, Sources, Selectors,   \* those of StageQueries
          Lone                               \* the callers of a behaviour with fewer

\* A query begins in epoch 1; slots are taken one by one.
ASSUME StagesAssumption ==
  /\ IsFiniteSet(Callers) /\ Lone \subseteq Callers
  /\ ClientSlots \in Nat /\ ServerSlots \in Nat
  /\ MaxEpoch \in Nat \ {0} /\ MaxRevision \in Nat \ {0} /\ MaxFailures \in Nat

\* Stage queries: the epoch and the revision of MySQL, the durable rows, the logs and the
\* failures are env, rev, row, logged and faults there, the rest is named as there.
VARIABLES epoch, durable, revision, applied, searchable, alias, stageLogs,
          clients, servers, query, seen, failures

VARIABLE part   \* the component of this behaviour
VARIABLES v1, v2, v3, v4, v5, v6, v7, v8, v9, v10, v11, v12   \* its variables, in the order of its module

Shared == INSTANCE RateLimits WITH
       now <- v1, bucket <- v2, creation <- v3, scripts <- v4, sha <- v5,
       leases <- v6, local <- v7, sweep <- v8, req <- v9, window <- v10,
       count <- v11, Requests <- Visits, Capacity <- 2, Cost <- 1,
       Lease <- 2, CreationCapacity <- 1, CreationRate <- 1, CreationTTL <- 2,
       MaxLeases <- 1, MaxIdentities <- 1, Replicas <- {"p1", "p2"},
       Reads <- {"u"}, Writes <- {}, Refill <- 1, IdleTTL <- 2,
       MaxArrivals <- 4, Horizon <- 2, MaxFaults <- 0
Own == INSTANCE RateLimits WITH
       now <- v1, bucket <- v2, creation <- v3, scripts <- v4, sha <- v5,
       leases <- v6, local <- v7, sweep <- v8, req <- v9, window <- v10,
       count <- v11, Requests <- Visits, Capacity <- 2, Cost <- 1,
       Lease <- 2, CreationCapacity <- 1, CreationRate <- 1, CreationTTL <- 2,
       MaxLeases <- 1, MaxIdentities <- 1, Replicas <- {"p1"},
       Reads <- {"u", "v"}, Writes <- {"w"}, Refill <- 2, IdleTTL <- 1,
       MaxArrivals <- 3, Horizon <- 1, MaxFaults <- 1
Stages == INSTANCE StageQueries WITH
       env <- epoch, row <- durable, rev <- revision, logged <- stageLogs,
       faults <- failures, MaxFaults <- MaxFailures
Account == INSTANCE Accounts WITH
       role <- role, root <- root, audit <- audit, follows <- follows,
       announced <- announced, session <- session, now <- now,
       request <- asked, exclusive <- exclusive, shared <- shared, gap <- gap,
       faults <- outages, Users <- People, Admins <- Founders,
       Requests <- Visits, Ops <- AccountOps, TTL <- SessionTTL,
       MaxTime <- MaxClock, MaxFaults <- MaxOutages
Pub == INSTANCE Publisher WITH
       caller <- v1, holder <- v2, link <- v3, attempt <- v4, backoff <- v5,
       closer <- v6, kind <- v7, fate <- v8, told <- v9, bound <- v10,
       overtaken <- v11, count <- v12, Callers <- Visits,
       Kinds <- {"post.created"}, Base <- 1, MaxBackoff <- 2,
       MaxAttempts <- 2, MaxCalls <- 3, MaxFaults <- 2
Listed == INSTANCE Lists WITH
       list <- v1, rows <- v2, now <- v3, walk <- v4,
       Kinds <- {"posts", "bookmarks", "comments", "current", "history"},
       Ids <- {1, 2, 3}, Limits <- {1, 2}, MaxChanges <- 1
Search == INSTANCE Searches WITH
       kind <- v1, es <- v2, db <- v3, req <- v4, walk <- v5, env <- v6,
       Kinds <- {"posts", "records"}, Docs <- {2, 3, 4},
       Generations <- {1, 2}, Limits <- {1, 2}, Rounds <- 2, MaxTime <- 2,
       MaxChanges <- 1, MaxFaults <- 1

\* Requests of accounts, limits and publisher are the same two values, and so are workers.
Interchangeable == Permutations(Visits)

others == <<v1, v2, v3, v4, v5, v6, v7, v8, v9, v10, v11, v12>>
accountVars == <<role, root, audit, follows, announced, session, now, asked,
                 exclusive, shared, gap, outages>>
stageVars == <<epoch, durable, revision, applied, searchable, alias, stageLogs,
               clients, servers, query, seen, failures>>
allVars == <<vars, accountVars, stageVars, part, others>>

\* A behaviour of stage queries with these callers, epochs, revisions, failures, sources
\* and selectors only; it ends with the last answer.
Narrow(callers, epochs, revisions, fails, sources, selectors) ==
  /\ \E c \in callers : query[c].at # "done"
  /\ \A c \in Callers \ callers : query'[c] = query[c]
  /\ epoch' <= epochs /\ revision' <= revisions /\ failures' <= fails
  /\ "logs" \in sources \/ stageLogs' = stageLogs
  /\ \A c \in callers : query'[c].at = "asked" =>
       /\ query'[c].ask.epoch <= epochs /\ query'[c].ask.by \in selectors
       /\ query'[c].ask.include \subseteq sources

StagesNext ==
  /\ Stages!Next
  /\ \/ part = "stages" /\ Narrow(Lone, 2, 2, 0, {"visibility"}, {"event"})
     \/ part = "slots" /\ Narrow(Callers, 1, 1, 1, {}, {"event"})
     \/ part = "sources" /\ Narrow(Lone, 1, 1, 1, Sources, Selectors)

AllInit ==
  /\ Init /\ Account!Init /\ Stages!Init
  /\ \/ part = "shared limits" /\ Shared!Init /\ v12 = 0
     \/ part = "own limits" /\ Own!Init /\ v12 = 0
     \/ part = "publisher" /\ Pub!Init
     \/ /\ part = "lists" /\ Listed!Init /\ v5 = 0 /\ v6 = 0 /\ v7 = 0
        /\ v8 = 0 /\ v9 = 0 /\ v10 = 0 /\ v11 = 0 /\ v12 = 0
     \/ /\ part = "searches" /\ Search!Init /\ v7 = 0 /\ v8 = 0 /\ v9 = 0
        /\ v10 = 0 /\ v11 = 0 /\ v12 = 0
     \/ /\ part \in {"social", "accounts", "stages", "slots", "sources"}
        /\ v1 = 0 /\ v2 = 0 /\ v3 = 0 /\ v4 = 0 /\ v5 = 0 /\ v6 = 0
        /\ v7 = 0 /\ v8 = 0 /\ v9 = 0 /\ v10 = 0 /\ v11 = 0 /\ v12 = 0
  /\ part = "accounts" \/ root = Account!Nobody
  /\ part \in {"stages", "slots", "sources"} \/ ~durable.legacy
  /\ part = "sources" \/ stageLogs = "none"

AllNext ==
  \/ part = "social" /\ Next /\ UNCHANGED <<accountVars, stageVars, part, others>>
  \/ part = "accounts" /\ Account!Next /\ UNCHANGED <<vars, stageVars, part, others>>
  \/ part = "shared limits" /\ Shared!Next /\ UNCHANGED <<vars, accountVars, stageVars, part, v12>>
  \/ part = "own limits" /\ Own!Next /\ UNCHANGED <<vars, accountVars, stageVars, part, v12>>
  \/ StagesNext /\ UNCHANGED <<vars, accountVars, part, others>>
  \/ part = "publisher" /\ Pub!Next /\ UNCHANGED <<vars, accountVars, stageVars, part>>
  \/ /\ part = "lists" /\ Listed!Next
     /\ UNCHANGED <<vars, accountVars, stageVars, part, v5, v6, v7, v8, v9, v10, v11, v12>>
  \/ /\ part = "searches" /\ Search!Next
     /\ UNCHANGED <<vars, accountVars, stageVars, part, v7, v8, v9, v10, v11, v12>>

AllSpec == AllInit /\ [][AllNext]_allVars

-----------------------------------------------------------------------------
\* ratelimit/*.go: over any window the replicas together admit no more than the bucket and
\* what was leased ahead allow, a bucket that expires grants nothing, and who waits as long
\* as told is admitted.
LimitsSafe ==
  /\ Shared!ExpiryGrantsNothing /\ Shared!RetrySuffices
  /\ Own!ExpiryGrantsNothing /\ Own!RetrySuffices
  /\ [](part = "shared limits" => Shared!TypeOK /\ Shared!WindowBound /\ Shared!LocalBound /\ Shared!DecisionOnce)
  /\ [](part = "own limits" => Own!TypeOK /\ Own!WindowBound /\ Own!LocalBound /\ Own!DecisionOnce)

\* businessstate/query.go: what a query reports as known is of an epoch current since it
\* began, a match is of the asked index and revision, nothing that stays throughout is
\* reported as absent or pending, and slots are given back on both sides.
StagesSafe ==
  /\ Stages!TypeOK /\ Stages!SlotsExact /\ Stages!KnownIsCurrent
  /\ Stages!MatchIsEarned /\ Stages!NothingOverlooked
  /\ Stages!PendingMeansOpen

\* user/*.go, auth/*.go: the audit trail explains every role, the root administrator stays
\* one, and a follow is announced once for each time it begins.
AccountsSafe ==
  /\ Account!TypeOK /\ Account!AuditExplainsRoles /\ Account!RootStands
  /\ Account!AnnouncedOnce

\* like, bookmark, comment and notification repositories: no relation of a deleted post
\* stays, an event is noticed once however often it is delivered, and a like is announced
\* once while the counts agree with the rows.
SocialSafe == TypeOK /\ NothingDangles /\ OneNoticeEach /\ LikeAnnouncedOnce

\* rabbitmq_publisher.go, topology.go: every kind of event is routed to a queue somebody
\* reads; what the publisher answers is what the broker did, and a confirmation left from
\* an earlier call never answers a later one.
PublisherSafe ==
  /\ Pub!EveryEventHasAConsumer
  /\ [](part = "publisher" => Pub!TypeOK /\ Pub!VerdictTrue /\ Pub!NoStaleConfirm)

\* list and search services: the pages of a walk are in order, none repeats a row, what
\* stays throughout the walk is shown, and a search that ends leaves no point in time open
\* unless a call failed.
WalksSafe ==
  /\ [][part = "searches" => Search!Advances]_allVars
  /\ [](part = "searches" => Search!TypeOK /\ Search!WalkComplete /\ Search!NoneLeft)
  /\ [](part = "lists" => Listed!TypeOK /\ Listed!PagesInOrder /\ Listed!SteadyRowsShown)

=============================================================================
