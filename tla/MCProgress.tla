------------------------------ MODULE MCProgress ------------------------------
(***************************************************************************)
(* What must happen in the end: what is sent arrives, what is asked is     *)
(* answered, what is old goes.  Each behaviour belongs to one component:   *)
(* `part` says which, and the others keep their initial state.  Each       *)
(* property assumes the fairness of its own component.                     *)
(***************************************************************************)
EXTENDS Naturals

VARIABLE part   \* the component of this behaviour
VARIABLES outbox_status, outbox_owner, outbox_due, outbox_lapsed, outbox_aged,
          outbox_accepted, outbox_adrift, outbox_up, outbox_turn, outbox_job,
          outbox_overrun
VARIABLES records_owner, records_epoch, records_committed, records_stored,
          records_rejected, records_lease, records_position, records_polled,
          records_batch, records_sending, records_queue, records_working,
          records_mishaps
VARIABLES publisher_caller, publisher_holder, publisher_link,
          publisher_attempt, publisher_backoff, publisher_closer,
          publisher_kind, publisher_fate, publisher_told, publisher_bound,
          publisher_overtaken, publisher_count
VARIABLES accounts_role, accounts_root, accounts_audit, accounts_follows,
          accounts_announced, accounts_session, accounts_now,
          accounts_request, accounts_exclusive, accounts_shared, accounts_gap,
          accounts_faults
VARIABLES social_posts, social_likes, social_bookmarks, social_comments,
          social_events, social_queue, social_done, social_notices,
          social_request, social_worker, social_writer, social_readers,
          social_faults
VARIABLES indices_day, indices_cluster, indices_template, indices_index,
          indices_writer, indices_stored, indices_dropped, indices_runner,
          indices_bound, indices_faults, indices_restarts
VARIABLES spool_queue, spool_used, spool_newSent, spool_sender,
          spool_restarts, spool_faults
VARIABLES plugin_active, plugin_disk, plugin_record, plugin_legacy,
          plugin_import, plugin_pending, plugin_lease, plugin_slot,
          plugin_scraping, plugin_op, plugin_closed, plugin_procs,
          plugin_tested, plugin_count
VARIABLES collect_on, collect_cancelled, collect_round, collect_failureActive,
          collect_targetUnavailable, collect_caller, collect_process,
          collect_error, collect_events, collect_late, collect_stamp,
          collect_count
VARIABLES log_queue, log_flight, log_closed, log_phase, log_expired,
          log_accepted, log_refused, log_spool, log_ghosts, log_count
VARIABLES reads_env, reads_post, reads_texts, reads_cache, reads_reader,
          reads_entry, reads_executors, reads_slots, reads_asked, reads_faults
VARIABLES writes_env, writes_posts, writes_commands, writes_events,
          writes_needs, writes_open, writes_legacy, writes_tx, writes_told,
          writes_faults
VARIABLES alerts_rule, alerts_state, alerts_lease, alerts_due,
          alerts_incident, alerts_eval, alerts_seen, alerts_edits
VARIABLES cleanup_row, cleanup_published, cleanup_aged, cleanup_need,
          cleanup_retained, cleanup_receipt, cleanup_results, cleanup_open,
          cleanup_groups, cleanup_cleaner, cleanup_cursor, cleanup_faults
VARIABLES loop_queue, loop_worker, loop_done, loop_pending, loop_inFlight,
          loop_loop, loop_timer, loop_nextClaim, loop_ticked, loop_lease,
          loop_late, loop_luck

Rows == INSTANCE Outbox WITH
       status <- outbox_status, owner <- outbox_owner, due <- outbox_due,
       lapsed <- outbox_lapsed, aged <- outbox_aged,
       accepted <- outbox_accepted, adrift <- outbox_adrift, up <- outbox_up,
       turn <- outbox_turn, job <- outbox_job, overrun <- outbox_overrun,
       Events <- {1, 2, 3}, Malformed <- {2, 3}, Dispatchers <- {11},
       Slots <- {21}, Publishers <- 1, None <- 0
Consumer == INSTANCE MarshallerConsumer WITH
       owner <- records_owner, epoch <- records_epoch,
       committed <- records_committed, stored <- records_stored,
       rejected <- records_rejected, lease <- records_lease,
       position <- records_position, polled <- records_polled,
       batch <- records_batch, sending <- records_sending,
       queue <- records_queue, working <- records_working,
       mishaps <- records_mishaps, Members <- {1, 2}, Last <- 1,
       Invalid <- {1}, MaxPoll <- 2, MaxAssignments <- 2, NoOwner <- 0
Broker == INSTANCE Publisher WITH
       caller <- publisher_caller, holder <- publisher_holder,
       link <- publisher_link, attempt <- publisher_attempt,
       backoff <- publisher_backoff, closer <- publisher_closer,
       kind <- publisher_kind, fate <- publisher_fate, told <- publisher_told,
       bound <- publisher_bound, overtaken <- publisher_overtaken,
       count <- publisher_count, Callers <- {"a", "b"},
       Kinds <- {"post.created"}, Base <- 1, MaxBackoff <- 2,
       MaxAttempts <- 2, MaxCalls <- 2, MaxFaults <- 1
Users == INSTANCE Accounts WITH
       role <- accounts_role, root <- accounts_root, audit <- accounts_audit,
       follows <- accounts_follows, announced <- accounts_announced,
       session <- accounts_session, now <- accounts_now,
       request <- accounts_request, exclusive <- accounts_exclusive,
       shared <- accounts_shared, gap <- accounts_gap,
       faults <- accounts_faults, Requests <- {1, 2}, Users <- {"u", "v"},
       Admins <- {"u"}, TTL <- 1, MaxTime <- 1, MaxFaults <- 0,
       Ops <- {"follow", "role"}
Likes == INSTANCE Social WITH
       posts <- social_posts, likes <- social_likes,
       bookmarks <- social_bookmarks, comments <- social_comments,
       events <- social_events, queue <- social_queue, done <- social_done,
       notices <- social_notices, request <- social_request,
       worker <- social_worker, writer <- social_writer,
       readers <- social_readers, faults <- social_faults, Posts <- {1},
       Owner <- "o", Readers <- {"a"}, Requests <- {1, 2},
       Workers <- {"w", "x"},
       Ops <- {"like", "unlike", "comment", "delete", "read"}, MaxEvents <- 2,
       MaxFaults <- 1
Indices == INSTANCE IndexLifecycle WITH
       day <- indices_day, cluster <- indices_cluster,
       template <- indices_template, index <- indices_index,
       writer <- indices_writer, stored <- indices_stored,
       dropped <- indices_dropped, runner <- indices_runner,
       bound <- indices_bound, faults <- indices_faults,
       restarts <- indices_restarts, Streams <- {"logs"},
       Batches <- [s \in {"logs"} |-> << <<1>>, <<1, 2>>, <<2>> >>],
       Foreign <- {<<"logs", 2>>}, Outdated <- {<<"logs", 1>>}, MaxDay <- 3,
       RetentionDays <- 1, BatchIndices <- 2, MaxRetries <- 1, MaxFaults <- 1,
       MaxReplacements <- 0, MaxRestarts <- 0
Disk == INSTANCE Spool WITH
       queue <- spool_queue, used <- spool_used, newSent <- spool_newSent,
       sender <- spool_sender, restarts <- spool_restarts,
       faults <- spool_faults, Sizes <- {2, 3}, Capacity <- 6,
       MaxRestarts <- 1, MaxFaults <- 1
Plugin == INSTANCE PluginRuntime WITH
       active <- plugin_active, disk <- plugin_disk, record <- plugin_record,
       legacy <- plugin_legacy, import <- plugin_import,
       pending <- plugin_pending, lease <- plugin_lease, slot <- plugin_slot,
       scraping <- plugin_scraping, op <- plugin_op, closed <- plugin_closed,
       procs <- plugin_procs, tested <- plugin_tested, count <- plugin_count,
       Versions <- {1, 2}, MaxRevs <- 2, MaxProcs <- 3, MaxRestarts <- 2,
       MaxFaults <- 1
Collect == INSTANCE MetricsCollection WITH
       on <- collect_on, cancelled <- collect_cancelled,
       round <- collect_round, failureActive <- collect_failureActive,
       targetUnavailable <- collect_targetUnavailable,
       caller <- collect_caller, process <- collect_process,
       error <- collect_error, events <- collect_events, late <- collect_late,
       stamp <- collect_stamp, count <- collect_count, MaxRounds <- 4,
       MaxEnables <- 3
Log == INSTANCE LogPath WITH
       queue <- log_queue, flight <- log_flight, closed <- log_closed,
       phase <- log_phase, expired <- log_expired, accepted <- log_accepted,
       refused <- log_refused, spool <- log_spool, ghosts <- log_ghosts,
       count <- log_count, Capacity <- 2, MaxRecords <- 3, MaxFaults <- 1
Reads == INSTANCE PostReads WITH
       env <- reads_env, post <- reads_post, texts <- reads_texts,
       cache <- reads_cache, reader <- reads_reader, entry <- reads_entry,
       executors <- reads_executors, slots <- reads_slots,
       asked <- reads_asked, faults <- reads_faults, Readers <- {"a", "b"},
       MaxRevision <- 2, MaxEpochs <- 1, MaxActiveKeys <- 1,
       MaxExecutors <- 1, MaxWaitersPerKey <- 2, MaxRegisteredWaiters <- 2,
       WaiterSlots <- 2, RebuildSlots <- 1, DatabaseSlots <- 1, MaxAgain <- 0,
       MaxFaults <- 1
Writes == INSTANCE PostCommands WITH
       env <- writes_env, posts <- writes_posts, commands <- writes_commands,
       events <- writes_events, needs <- writes_needs, open <- writes_open,
       legacy <- writes_legacy, tx <- writes_tx, told <- writes_told,
       faults <- writes_faults, Txs <- {1, 2}, Clients <- {"a"},
       Digests <- {1}, MaxOpen <- 1, MaxCommands <- 2, MaxRevision <- 2,
       MaxEpochs <- 1, MaxFaults <- 1
Rules == INSTANCE Alerts WITH
       rule <- alerts_rule, state <- alerts_state, lease <- alerts_lease,
       due <- alerts_due, incident <- alerts_incident, eval <- alerts_eval,
       seen <- alerts_seen, edits <- alerts_edits, Replicas <- {"p"},
       For <- 1, Gap <- 1, Late <- 1, MaxEdits <- 1
Cleanup == INSTANCE EventRetention WITH
       row <- cleanup_row, published <- cleanup_published,
       aged <- cleanup_aged, need <- cleanup_need,
       retained <- cleanup_retained, receipt <- cleanup_receipt,
       results <- cleanup_results, open <- cleanup_open,
       groups <- cleanup_groups, cleaner <- cleanup_cleaner,
       cursor <- cleanup_cursor, faults <- cleanup_faults, Events <- 1..3,
       Searched <- {1}, Commanded <- {2}, Legacy <- {}, Generations <- {1},
       Replicas <- {1}, Batch <- 1, OpenLimit <- 2, GroupLimit <- 2,
       MaxFaults <- 0
Loop == INSTANCE DispatcherLoop WITH
       queue <- loop_queue, worker <- loop_worker, done <- loop_done,
       pending <- loop_pending, inFlight <- loop_inFlight, loop <- loop_loop,
       timer <- loop_timer, nextClaim <- loop_nextClaim,
       ticked <- loop_ticked, lease <- loop_lease, late <- loop_late,
       luck <- loop_luck, Batch <- 2, Publishers <- {1}, PublishTimeout <- 1,
       DatabaseTimeout <- 1, PollInterval <- 1, Backoff <- 1, Margin <- 1,
       Luck <- 0

outboxVars == <<outbox_status, outbox_owner, outbox_due, outbox_lapsed, outbox_aged,
              outbox_accepted, outbox_adrift, outbox_up, outbox_turn,
              outbox_job, outbox_overrun>>
recordsVars == <<records_owner, records_epoch, records_committed, records_stored,
              records_rejected, records_lease, records_position,
              records_polled, records_batch, records_sending, records_queue,
              records_working, records_mishaps>>
publisherVars == <<publisher_caller, publisher_holder, publisher_link, publisher_attempt,
              publisher_backoff, publisher_closer, publisher_kind,
              publisher_fate, publisher_told, publisher_bound,
              publisher_overtaken, publisher_count>>
accountsVars == <<accounts_role, accounts_root, accounts_audit, accounts_follows,
              accounts_announced, accounts_session, accounts_now,
              accounts_request, accounts_exclusive, accounts_shared,
              accounts_gap, accounts_faults>>
socialVars == <<social_posts, social_likes, social_bookmarks, social_comments,
              social_events, social_queue, social_done, social_notices,
              social_request, social_worker, social_writer, social_readers,
              social_faults>>
indicesVars == <<indices_day, indices_cluster, indices_template, indices_index,
              indices_writer, indices_stored, indices_dropped, indices_runner,
              indices_bound, indices_faults, indices_restarts>>
spoolVars == <<spool_queue, spool_used, spool_newSent, spool_sender, spool_restarts,
              spool_faults>>
pluginVars == <<plugin_active, plugin_disk, plugin_record, plugin_legacy, plugin_import,
              plugin_pending, plugin_lease, plugin_slot, plugin_scraping,
              plugin_op, plugin_closed, plugin_procs, plugin_tested,
              plugin_count>>
collectVars == <<collect_on, collect_cancelled, collect_round, collect_failureActive,
              collect_targetUnavailable, collect_caller, collect_process,
              collect_error, collect_events, collect_late, collect_stamp,
              collect_count>>
logVars == <<log_queue, log_flight, log_closed, log_phase, log_expired, log_accepted,
              log_refused, log_spool, log_ghosts, log_count>>
readsVars == <<reads_env, reads_post, reads_texts, reads_cache, reads_reader, reads_entry,
              reads_executors, reads_slots, reads_asked, reads_faults>>
writesVars == <<writes_env, writes_posts, writes_commands, writes_events, writes_needs,
              writes_open, writes_legacy, writes_tx, writes_told,
              writes_faults>>
alertsVars == <<alerts_rule, alerts_state, alerts_lease, alerts_due, alerts_incident,
              alerts_eval, alerts_seen, alerts_edits>>
cleanupVars == <<cleanup_row, cleanup_published, cleanup_aged, cleanup_need,
              cleanup_retained, cleanup_receipt, cleanup_results,
              cleanup_open, cleanup_groups, cleanup_cleaner, cleanup_cursor,
              cleanup_faults>>
loopVars == <<loop_queue, loop_worker, loop_done, loop_pending, loop_inFlight, loop_loop,
              loop_timer, loop_nextClaim, loop_ticked, loop_lease, loop_late,
              loop_luck>>
allVars == <<part, outboxVars, recordsVars, publisherVars, accountsVars, socialVars,
             indicesVars, spoolVars, pluginVars, collectVars, logVars, readsVars,
             writesVars, alertsVars, cleanupVars, loopVars>>

AllInit ==
  /\ part \in {"outbox", "records", "publisher", "accounts", "social", "indices", "spool", "plugin",
               "collect", "log", "reads", "writes", "alerts", "cleanup", "loop"}
  /\ Rows!Init
  /\ Consumer!Init
  /\ Broker!Init
  /\ part # "publisher" => publisher_bound = {}
  /\ Users!Init
  /\ part # "accounts" => accounts_root = "u"
  /\ Likes!Init
  /\ Indices!Init
  /\ Disk!Init
  /\ Plugin!Init
  /\ part # "plugin" => plugin_legacy = Plugin!NoRev
  /\ Collect!Init
  /\ Log!Init
  /\ Reads!Init
  /\ Writes!Init
  /\ part # "writes" => writes_env.mode = "v2"
  /\ Rules!Init
  /\ Cleanup!Init
  /\ Loop!Init

\* The variables of the other components keep their initial values.
Only_outbox ==
  /\ part = "outbox"
  /\ UNCHANGED <<part, recordsVars, publisherVars, accountsVars, socialVars, indicesVars,
                 spoolVars, pluginVars, collectVars, logVars, readsVars, writesVars,
                 alertsVars, cleanupVars, loopVars>>
Only_records ==
  /\ part = "records"
  /\ UNCHANGED <<part, outboxVars, publisherVars, accountsVars, socialVars, indicesVars,
                 spoolVars, pluginVars, collectVars, logVars, readsVars, writesVars,
                 alertsVars, cleanupVars, loopVars>>
Only_publisher ==
  /\ part = "publisher"
  /\ UNCHANGED <<part, outboxVars, recordsVars, accountsVars, socialVars, indicesVars,
                 spoolVars, pluginVars, collectVars, logVars, readsVars, writesVars,
                 alertsVars, cleanupVars, loopVars>>
Only_accounts ==
  /\ part = "accounts"
  /\ UNCHANGED <<part, outboxVars, recordsVars, publisherVars, socialVars, indicesVars,
                 spoolVars, pluginVars, collectVars, logVars, readsVars, writesVars,
                 alertsVars, cleanupVars, loopVars>>
Only_social ==
  /\ part = "social"
  /\ UNCHANGED <<part, outboxVars, recordsVars, publisherVars, accountsVars, indicesVars,
                 spoolVars, pluginVars, collectVars, logVars, readsVars, writesVars,
                 alertsVars, cleanupVars, loopVars>>
Only_indices ==
  /\ part = "indices"
  /\ UNCHANGED <<part, outboxVars, recordsVars, publisherVars, accountsVars, socialVars,
                 spoolVars, pluginVars, collectVars, logVars, readsVars, writesVars,
                 alertsVars, cleanupVars, loopVars>>
Only_spool ==
  /\ part = "spool"
  /\ UNCHANGED <<part, pluginVars, collectVars, logVars, readsVars, writesVars, alertsVars,
                 cleanupVars, loopVars, outboxVars, recordsVars, publisherVars,
                 accountsVars, socialVars, indicesVars>>
Only_plugin ==
  /\ part = "plugin"
  /\ UNCHANGED <<part, spoolVars, collectVars, logVars, readsVars, writesVars, alertsVars,
                 cleanupVars, loopVars, outboxVars, recordsVars, publisherVars,
                 accountsVars, socialVars, indicesVars>>
Only_collect ==
  /\ part = "collect"
  /\ UNCHANGED <<part, spoolVars, pluginVars, logVars, readsVars, writesVars, alertsVars,
                 cleanupVars, loopVars, outboxVars, recordsVars, publisherVars,
                 accountsVars, socialVars, indicesVars>>
Only_log ==
  /\ part = "log"
  /\ UNCHANGED <<part, spoolVars, pluginVars, collectVars, readsVars, writesVars,
                 alertsVars, cleanupVars, loopVars, outboxVars, recordsVars, publisherVars,
                 accountsVars, socialVars, indicesVars>>
Only_reads ==
  /\ part = "reads"
  /\ UNCHANGED <<part, spoolVars, pluginVars, collectVars, logVars, writesVars, alertsVars,
                 cleanupVars, loopVars, outboxVars, recordsVars, publisherVars,
                 accountsVars, socialVars, indicesVars>>
Only_writes ==
  /\ part = "writes"
  /\ UNCHANGED <<part, spoolVars, pluginVars, collectVars, logVars, readsVars, alertsVars,
                 cleanupVars, loopVars, outboxVars, recordsVars, publisherVars,
                 accountsVars, socialVars, indicesVars>>
Only_alerts ==
  /\ part = "alerts"
  /\ UNCHANGED <<part, spoolVars, pluginVars, collectVars, logVars, readsVars, writesVars,
                 cleanupVars, loopVars, outboxVars, recordsVars, publisherVars,
                 accountsVars, socialVars, indicesVars>>
Only_cleanup ==
  /\ part = "cleanup"
  /\ UNCHANGED <<part, spoolVars, pluginVars, collectVars, logVars, readsVars, writesVars,
                 alertsVars, loopVars, outboxVars, recordsVars, publisherVars,
                 accountsVars, socialVars, indicesVars>>
Only_loop ==
  /\ part = "loop"
  /\ UNCHANGED <<part, spoolVars, pluginVars, collectVars, logVars, readsVars, writesVars,
                 alertsVars, cleanupVars, outboxVars, recordsVars, publisherVars,
                 accountsVars, socialVars, indicesVars>>

AllNext ==
  \/ Only_outbox /\ Rows!Next
  \/ Only_records /\ Consumer!Next
  \/ Only_publisher /\ Broker!Next
  \/ Only_accounts /\ Users!Next
  \/ Only_social /\ Likes!Next
  \/ Only_indices /\ Indices!Next
  \/ Only_spool /\ Disk!Next
  \/ Only_plugin /\ Plugin!Next
  \/ Only_collect /\ Collect!Next
  \/ Only_log /\ Log!Next
  \/ Only_reads /\ Reads!Next
  \/ Only_writes /\ Writes!Next
  \/ Only_alerts /\ Rules!Next
  \/ Only_cleanup /\ Cleanup!Next
  \/ Only_loop /\ Loop!Next

AllSpec == AllInit /\ [][AllNext]_allVars

-----------------------------------------------------------------------------
\* A submitted event settles (repository.go); a call of the publisher returns
\* (rabbitmq_publisher.go); every event becomes a notice or is refused (notification.go); a
\* request on users ends, whatever row its transaction waits for (user, auth).
EventsArrive ==
  /\ part = "outbox" /\ Rows!Fairness /\ Rows!EventuallyCalm => Rows!EverySubmittedEventSettles
  /\ part = "publisher" /\ Broker!Fairness => Broker!EveryCallAnswered
  /\ part = "social" /\ Likes!Fairness => Likes!EveryEventNoticed
  /\ part = "accounts" /\ Users!Fairness => Users!EveryRequestEnds

\* The Marshaller settles every record unless one was leased or discarded in a rebalance
\* (consumer.go), and every daily index past its day is deleted (runner.go).
RecordsArrive ==
  /\ part = "records" /\ Consumer!Fairness => Consumer!EverythingSettles
  /\ part = "indices" /\ Indices!Fairness => Indices!EverythingAges

\* Records of an earlier process leave the spool under a stream of new ones (spool.go); an
\* exit that nobody asked for is noticed (runtime.go); Enable gives the plugin's lock back
\* (collector.go); Close of the log shipper returns (shipper.go).
MonitorProgress ==
  /\ part = "spool" /\ Disk!Fairness => Disk!BacklogGoes
  /\ part = "plugin" /\ Plugin!Fairness => Plugin!ExitNoticed
  /\ part = "collect" /\ Collect!Fairness => Collect!EnableReturns
  /\ part = "log" /\ Log!Fairness => Log!CloseEnds

\* Each rebuild of a body ends and frees its registrations (rebuild.go); no writer waits
\* for ever (repository.go); an enabled rule is evaluated again (scheduler.go).
BusinessProgress ==
  /\ part = "reads" /\ Reads!Fairness => Reads!EntriesEnd
  /\ part = "writes" /\ Writes!Fairness => Writes!WritersEnd
  /\ part = "alerts" /\ Rules!Fairness => Rules!RuleEvaluated

\* Old rows and their evidence are deleted, although protected rows stand before them
\* (repository.go); a cancelled dispatcher stops (dispatcher.go).
OutboxProgress ==
  /\ part = "cleanup" /\ Cleanup!Fairness => Cleanup!OldRowsGo /\ Cleanup!EvidenceGoes
  /\ part = "loop" /\ Loop!Fairness => Loop!StopsWhenCancelled

=============================================================================
