------------------------------ MODULE MCMonitor ------------------------------
(***************************************************************************)
(* Monitor and Marshaller: spool, plugin runtime, metrics collection and log *)
(* path, the consumer and the indices it fills, their safety, and the settings *)
(* and the lives of all processes.  Each behaviour belongs to one component: *)
(* `part` says which.  Spool, plugin, collector, log path and consumer have *)
(* their own variables, the others share theirs.                           *)
(***************************************************************************)
EXTENDS MarshallerConsumer

CONSTANTS SpoolSizes, SpoolCapacity, MaxSpoolRestarts, MaxSpoolFaults, \* of Spool
          ReleaseVersions, MaxRevisions, MaxExporters, MaxMonitorStarts, MaxPluginFaults, \* of PluginRuntime
          CollectRounds, CollectEnables, \* of MetricsCollection
          LogCapacity, MaxLogged, MaxLogFaults \* of LogPath

ASSUME SpoolAssumption ==
  /\ SpoolSizes \subseteq Nat /\ SpoolCapacity \in Nat
  /\ MaxSpoolRestarts \in Nat /\ MaxSpoolFaults \in Nat
ASSUME PluginAssumption ==
  /\ ReleaseVersions \subseteq Nat /\ 1 \in ReleaseVersions
  /\ MaxRevisions \in Nat /\ MaxExporters \in Nat
  /\ MaxMonitorStarts \in Nat /\ MaxPluginFaults \in Nat
ASSUME CollectAssumption == CollectRounds \in Nat /\ CollectEnables \in Nat
ASSUME LogAssumption ==
  LogCapacity \in Nat /\ MaxLogged \in Nat \ {0} /\ MaxLogFaults \in Nat

\* The spool: `backlog` is its queue, the rest is named as in Spool.
VARIABLES backlog, used, newSent, sender, restarts, faults

\* The plugin runtime: `holder` holds the lease, `shut` says that the shutdown has passed,
\* `tally` counts, the rest is named as in PluginRuntime.
VARIABLES active, disk, record, legacy, import, pending, holder, slot, scraping, op, shut,
          procs, tested, tally

\* The collector: `lastError` and `counted` are its error and count, the rest is named as there.
VARIABLES on, cancelled, round, failureActive, targetUnavailable, caller, process, lastError,
          events, late, stamp, counted

\* The log path: `logged` is the shipper's queue, the rest is named as in LogPath.
VARIABLES logged, flight, closed, phase, expired, accepted, refused, spool, ghosts, count

VARIABLE part   \* the component of this behaviour
VARIABLES v1, v2, v3, v4, v5, v6, v7, v8, v9, v10, v11, v12, v13, v14, v15   \* its variables, in the order of its module

Disk == INSTANCE Spool WITH
       queue <- backlog, Sizes <- SpoolSizes, Capacity <- SpoolCapacity,
       MaxRestarts <- MaxSpoolRestarts, MaxFaults <- MaxSpoolFaults
Plugin == INSTANCE PluginRuntime WITH
       lease <- holder, closed <- shut, count <- tally, Versions <- ReleaseVersions,
       MaxRevs <- MaxRevisions, MaxProcs <- MaxExporters, MaxRestarts <- MaxMonitorStarts,
       MaxFaults <- MaxPluginFaults
Collect == INSTANCE MetricsCollection WITH
       error <- lastError, count <- counted, MaxRounds <- CollectRounds, MaxEnables <- CollectEnables
Log == INSTANCE LogPath WITH
       queue <- logged, Capacity <- LogCapacity, MaxRecords <- MaxLogged,
       MaxFaults <- MaxLogFaults
Logs == INSTANCE IndexLifecycle WITH
       day <- v1, cluster <- v2, template <- v3, index <- v4, writer <- v5,
       stored <- v6, dropped <- v7, runner <- v8, bound <- v9, faults <- v10,
       restarts <- v11, MaxDay <- 3, RetentionDays <- 1, BatchIndices <- 2,
       MaxRetries <- 1, Streams <- {"logs"},
       Batches <- [s \in {"logs"} |-> << <<1>>, <<1, 2>>, <<2>> >>],
       Foreign <- {}, Outdated <- {<<"logs", 1>>}, MaxFaults <- 1,
       MaxReplacements <- 1, MaxRestarts <- 1
Audit == INSTANCE IndexLifecycle WITH
       day <- v1, cluster <- v2, template <- v3, index <- v4, writer <- v5,
       stored <- v6, dropped <- v7, runner <- v8, bound <- v9, faults <- v10,
       restarts <- v11, MaxDay <- 3, RetentionDays <- 1, BatchIndices <- 2,
       MaxRetries <- 1, Streams <- {"events"},
       Batches <- [s \in {"events"} |-> << <<1>>, <<2>> >>], Foreign <- {},
       Outdated <- {<<"events", 1>>}, MaxFaults <- 2, MaxReplacements <- 1,
       MaxRestarts <- 1
Mixed == INSTANCE IndexLifecycle WITH
       day <- v1, cluster <- v2, template <- v3, index <- v4, writer <- v5,
       stored <- v6, dropped <- v7, runner <- v8, bound <- v9, faults <- v10,
       restarts <- v11, MaxDay <- 3, RetentionDays <- 1, BatchIndices <- 2,
       MaxRetries <- 1, Streams <- {"logs"},
       Batches <- [s \in {"logs"} |-> << <<1>>, <<1, 2>>, <<2>> >>],
       Foreign <- {<<"logs", 2>>}, Outdated <- {}, MaxFaults <- 1,
       MaxReplacements <- 0, MaxRestarts <- 1
Lines == INSTANCE RecordContract WITH
       now <- v1, ahead <- v2, sent <- v3, wire <- v4, out <- v5,
       LogSkew <- 3, EventSkew <- 2, DecodeSkew <- 3, Ahead <- {0, 4},
       RetentionDays <- 1, Start <- 14, MaxTime <- 17
Series == INSTANCE MetricContract WITH
       sent <- v1, wire <- v2, out <- v3, Sources <- {"redis", "mysql"},
       MaxSamples <- 5, MaxFamilies <- 2
Config == INSTANCE Settings WITH
       section <- v1, env <- v2, changed <- v3, proc <- v4, state <- v5,
       Sections <- {"lease", "pools", "roles", "hosts", "delays"},
       MaxSet <- [s \in {"lease", "pools", "roles", "hosts", "delays"} |-> IF s = "delays" THEN 2 ELSE 3]
Lives == INSTANCE Processes WITH
       proc <- v1, phase <- v2, cause <- v3, todo <- v4, deferred <- v5,
       held <- v6, lost <- v7, tasks <- v8, gaveUp <- v9, root <- v10,
       signals <- v11, ready <- v12, budget <- v13, waited <- v14,
       elapsed <- v15,
       Kinds <- {"business", "platform", "worker", "marshaller", "monitor", "exporter"},
       Two <- 1, Three <- 1, Five <- 2, Ten <- 4

shared == <<v1, v2, v3, v4, v5, v6, v7, v8, v9, v10, v11, v12, v13, v14, v15>>
logVars == <<logged, flight, closed, phase, expired, accepted, refused, spool, ghosts, count>>
spoolVars == <<backlog, used, newSent, sender, restarts, faults>>
collectVars == <<on, cancelled, round, failureActive, targetUnavailable, caller, process,
                 lastError, events, late, stamp, counted>>
pluginVars == <<active, disk, record, legacy, import, pending, holder, slot, scraping, op,
                shut, procs, tested, tally>>
allVars == <<vars, part, shared, spoolVars, pluginVars, collectVars, logVars>>

AllInit ==
  /\ Init /\ Disk!Init /\ Plugin!Init /\ Collect!Init /\ Log!Init
  /\ \/ /\ part \in {"records", "spool", "plugin", "collect", "log"} /\ v1 = 0 /\ v2 = 0 /\ v3 = 0 /\ v4 = 0 /\ v5 = 0
        /\ v6 = 0 /\ v7 = 0 /\ v8 = 0 /\ v9 = 0 /\ v10 = 0 /\ v11 = 0
        /\ v12 = 0 /\ v13 = 0 /\ v14 = 0 /\ v15 = 0
     \/ part = "logs" /\ Logs!Init /\ v12 = 0 /\ v13 = 0 /\ v14 = 0 /\ v15 = 0
     \/ part = "events" /\ Audit!Init /\ v12 = 0 /\ v13 = 0 /\ v14 = 0 /\ v15 = 0
     \/ /\ part = "foreign" /\ Mixed!Init /\ v12 = 0 /\ v13 = 0 /\ v14 = 0
        /\ v15 = 0
     \/ /\ part = "lines" /\ Lines!Init /\ v6 = 0 /\ v7 = 0 /\ v8 = 0 /\ v9 = 0
        /\ v10 = 0 /\ v11 = 0 /\ v12 = 0 /\ v13 = 0 /\ v14 = 0 /\ v15 = 0
     \/ /\ part = "series" /\ Series!Init /\ v4 = 0 /\ v5 = 0 /\ v6 = 0
        /\ v7 = 0 /\ v8 = 0 /\ v9 = 0 /\ v10 = 0 /\ v11 = 0 /\ v12 = 0
        /\ v13 = 0 /\ v14 = 0 /\ v15 = 0
     \/ /\ part = "settings" /\ Config!Init /\ v6 = 0 /\ v7 = 0 /\ v8 = 0
        /\ v9 = 0 /\ v10 = 0 /\ v11 = 0 /\ v12 = 0 /\ v13 = 0 /\ v14 = 0
        /\ v15 = 0
     \/ part = "processes" /\ Lives!Init
  /\ part # "plugin" => legacy = Plugin!NoRev

AllNext ==
  \/ part = "spool" /\ Disk!Next /\ UNCHANGED <<vars, pluginVars, collectVars, logVars, part, shared>>
  \/ part = "plugin" /\ Plugin!Next /\ UNCHANGED <<vars, spoolVars, collectVars, logVars, part, shared>>
  \/ part = "collect" /\ Collect!Next /\ UNCHANGED <<vars, spoolVars, pluginVars, logVars, part, shared>>
  \/ part = "log" /\ Log!Next /\ UNCHANGED <<vars, spoolVars, pluginVars, collectVars, part, shared>>
  \/ part = "records" /\ Next /\ UNCHANGED <<spoolVars, pluginVars, collectVars, logVars, part, shared>>
  \/ part = "logs" /\ Logs!Next /\ UNCHANGED <<vars, spoolVars, pluginVars, collectVars, logVars, part, v12, v13, v14, v15>>
  \/ part = "events" /\ Audit!Next /\ UNCHANGED <<vars, spoolVars, pluginVars, collectVars, logVars, part, v12, v13, v14, v15>>
  \/ part = "foreign" /\ Mixed!Next /\ UNCHANGED <<vars, spoolVars, pluginVars, collectVars, logVars, part, v12, v13, v14, v15>>
  \/ /\ part = "lines" /\ Lines!Next
     /\ UNCHANGED <<vars, spoolVars, pluginVars, collectVars, logVars, part, v6, v7, v8, v9, v10, v11, v12, v13, v14, v15>>
  \/ /\ part = "series" /\ Series!Next
     /\ UNCHANGED <<vars, spoolVars, pluginVars, collectVars, logVars, part, v4, v5, v6, v7, v8, v9, v10, v11, v12, v13, v14, v15>>
  \/ /\ part = "settings" /\ Config!Next
     /\ UNCHANGED <<vars, spoolVars, pluginVars, collectVars, logVars, part, v6, v7, v8, v9, v10, v11, v12, v13, v14, v15>>
  \/ part = "processes" /\ Lives!Next /\ UNCHANGED <<vars, spoolVars, pluginVars, collectVars, logVars, part>>

AllSpec == AllInit /\ [][AllNext]_allVars

-----------------------------------------------------------------------------
\* spool.go: whatever restarts and failures, what the spool says it uses is never more
\* than the files hold, and the record being sent is still in its queue.
SpoolSafe == Disk!TypeOK /\ Disk!NeverOverstated

\* runtime.go, portable.go: no operation, failure or restart leaves two exporters
\* running; what active.json names can be restored; between operations memory, commit
\* file and processes agree; Monitor never runs on a volume imported in part.
PluginSafe ==
  /\ Plugin!TypeOK /\ Plugin!SingleProcess /\ Plugin!CommittedRecoverable
  /\ Plugin!QuietAgrees /\ Plugin!NoHalfImport

\* collector.go: a failing episode and its end are reported once each, and nothing of an
\* earlier run shows in the status of a later process.
CollectSafe == Collect!TypeOK /\ Collect!EpisodesAlternate /\ Collect!StoppedIsQuiet

\* shipper.go: records first reach the spool in the order they were logged, and an
\* accepted record is delivered, refused for good, or still held.
LogSafe == Log!TypeOK /\ Log!ArriveInOrder /\ Log!NoneLost

\* retention/*.go, es/*.go: an acknowledged batch is in its indices until they expire or the
\* cluster is replaced, one is dropped only for its age, and only indices of ours past their
\* day are deleted.
IndicesSafe ==
  /\ [](part = "logs" => Logs!TypeOK /\ Logs!StoredIsThere /\ Logs!DroppedIsOld)
  /\ [](part = "events" => Audit!TypeOK /\ Audit!StoredIsThere /\ Audit!DroppedIsOld)
  /\ [](part = "foreign" => Mixed!TypeOK /\ Mixed!StoredIsThere /\ Mixed!DroppedIsOld)
  /\ [][/\ part = "logs" => Logs!DeletesOwn
        /\ part = "events" => Audit!DeletesOwn
        /\ part = "foreign" => Mixed!DeletesOwn]_allVars

\* events, logs, envelope, metriccontract: what Monitor accepts the Marshaller accepts and
\* stores as it was meant, with the exceptions the two modules name.
ContractsSafe ==
  /\ part = "lines" =>
       /\ Lines!TypeOK /\ Lines!TakenIsStored /\ Lines!StoredIsYoung
       /\ Lines!OnlyNodeIsDropped
  /\ part = "series" =>
       /\ Series!TypeOK /\ Series!ScrapesAreKept /\ Series!SeriesGoOn


=============================================================================
