------------------------------ MODULE Settings ------------------------------
(***************************************************************************)
(* The settings of the processes: which environments each loader accepts,  *)
(* and what the accepted settings mean for the processes that share them.  *)
(*                                                                         *)
(* One environment serves all processes, as in the Compose file.  An       *)
(* operator changes some variables of an environment that works and starts *)
(* a process, which reads it once.  An environment maps variables to       *)
(* integers (counts, bytes, milliseconds) and words; of an address only    *)
(* the kind of its host is kept, of a secret its name.                     *)
(***************************************************************************)
EXTENDS Integers, FiniteSets, TLC

CONSTANTS Sections, \* which groups of variables an operator changes
          MaxSet    \* bound: variables changed, by section

VARIABLES section, \* the group of this behaviour
          env,     \* the environment: a function on the variables that are set
          changed, \* the variables that the operator changed
          proc,    \* the process that was started, or "none"
          state    \* "stopped", "refused" or "up"

vars == <<section, env, changed, proc, state>>

Processes == {"backend", "business-worker", "search-indexer", "search-reindex",
              "migrate", "monitor", "marshaller"}

Blank == -1   \* set to blanks
Junk == -2    \* not a number, not a duration

R(d, lo, hi) == [default |-> d, min |-> lo, max |-> hi]
Second == 1000
Minute == 60000
Hour == 3600000

-----------------------------------------------------------------------------
(* Lookups.                                                                 *)

IntegerValue(e, k, fallback) ==
  IF k \in DOMAIN e /\ e[k] # Blank THEN e[k] ELSE fallback

Number(e, ranges, k) == IntegerValue(e, k, ranges[k].default)

\* A default is taken without a look at the range.
DurationValue(e, ranges, k) ==
  k \in DOMAIN e /\ e[k] # Blank => e[k] \in ranges[k].min .. ranges[k].max

Ranged(e, ranges) == \A k \in DOMAIN ranges : DurationValue(e, ranges, k)

ValueOrDefault(e, k, fallback) == IF k \in DOMAIN e /\ e[k] # "" THEN e[k] ELSE fallback
RequiredValue(e, k) == k \in DOMAIN e /\ e[k] # ""
BooleanValue(e, k) == ValueOrDefault(e, k, "false") \in {"true", "false"}
Flag(e, k) == ValueOrDefault(e, k, "false") = "true"

LoadRuntimeMode(e) == ValueOrDefault(e, "GOPULSE_RUNTIME_MODE", "host")
ModeKnown(e) == LoadRuntimeMode(e) \in {"host", "container"}

ValidateListenHost(e, k) ==
  ValueOrDefault(e, k, "loopback") = (IF LoadRuntimeMode(e) = "host" THEN "loopback" ELSE "unspecified")

ValidateDependencyHost(e, host) ==
  host = (IF LoadRuntimeMode(e) = "host" THEN "loopback" ELSE "service")

ValidateHost(e, k) == ValidateDependencyHost(e, ValueOrDefault(e, k, "loopback"))

\* A secret of 32 bytes without blanks; "short" and "spaced" are not.
Secret(e, k) == RequiredValue(e, k) /\ e[k] \notin {"short", "spaced"}

-----------------------------------------------------------------------------
(* Settings that several processes load.                                    *)

ParseServiceRole(e) == ValueOrDefault(e, "BACKEND_SERVICE_ROLE", "combined")
RunsBusiness(e) == ParseServiceRole(e) \in {"business", "combined"}
RunsPlatform(e) == ParseServiceRole(e) \in {"platform", "combined"}
Standalone(e) == Flag(e, "BACKEND_STANDALONE_OBSERVABILITY")

MySQLRanges ==
  [GOPULSE_REPLICA_COUNT |-> R(1, 1, 8), MYSQL_MAX_OPEN_CONNS |-> R(10, 1, 100),
   PLATFORM_API_MYSQL_MAX_OPEN_CONNS |-> R(4, 1, 100), MYSQL_MAX_IDLE_CONNS |-> R(2, 1, 100),
   MYSQL_CONN_MAX_LIFETIME |-> R(3 * Minute, Minute, Hour),
   MYSQL_TOTAL_MAX_OPEN_CONNS |-> R(60, 1, 1000), MYSQL_PORT |-> R(3306, 1, 65535)]

ReplicaCount(e) == Number(e, MySQLRanges, "GOPULSE_REPLICA_COUNT")
TotalConnections(e) == Number(e, MySQLRanges, "MYSQL_TOTAL_MAX_OPEN_CONNS")

MaxOpenKey(e, p) ==
  IF p = "backend" /\ ParseServiceRole(e) = "platform"
  THEN "PLATFORM_API_MYSQL_MAX_OPEN_CONNS" ELSE "MYSQL_MAX_OPEN_CONNS"
MaxOpen(e, p) == Number(e, MySQLRanges, MaxOpenKey(e, p))

MySQLPoolValues(e, p) ==
  /\ \A k \in DOMAIN MySQLRanges \ {"MYSQL_MAX_OPEN_CONNS", "PLATFORM_API_MYSQL_MAX_OPEN_CONNS"} :
       DurationValue(e, MySQLRanges, k)
  /\ DurationValue(e, MySQLRanges, MaxOpenKey(e, p))
  /\ Number(e, MySQLRanges, "MYSQL_MAX_IDLE_CONNS") <= MaxOpen(e, p)
  /\ MaxOpen(e, p) * ReplicaCount(e) <= TotalConnections(e)

LoadMySQL(e, p) ==
  /\ ModeKnown(e)
  /\ ValidateHost(e, "MYSQL_HOST")
  /\ \A k \in {"MYSQL_DATABASE", "MYSQL_USER", "MYSQL_PASSWORD"} : RequiredValue(e, k)
  /\ MySQLPoolValues(e, p)

ValidateRabbitMQURL(e) == RequiredValue(e, "RABBITMQ_URL") /\ ValidateDependencyHost(e, e["RABBITMQ_URL"])

BusinessAsyncRanges ==
  [BUSINESS_ASYNC_MAX_OPEN_REQUIREMENTS |-> R(10000, 1, 10000),
   BUSINESS_ASYNC_MAX_RETAINED_GROUPS |-> R(100000, 1, 2000000000),
   BUSINESS_ASYNC_MAX_RETAINED_BYTES |-> R(1073741824, 1025, 2000000000)]

LogShipRanges ==
  [LOG_SHIP_REQUEST_TIMEOUT |-> R(2 * Second, 100, 30 * Second),
   LOG_SHIP_QUEUE_CAPACITY |-> R(256, 1, 65536), LOG_SHIP_RETRY_MIN |-> R(250, 10, 10 * Second),
   LOG_SHIP_RETRY_MAX |-> R(5 * Second, 100, Minute),
   LOG_SHIP_SHUTDOWN_TIMEOUT |-> R(5 * Second, Second, Minute)]

LogShipEnabled(e) == RequiredValue(e, "LOG_MONITOR_URL")

LoadLogShipConfig(e) ==
  LogShipEnabled(e) =>
    /\ ValidateDependencyHost(e, e["LOG_MONITOR_URL"])
    /\ RequiredValue(e, "LOG_MONITOR_INGEST_TOKEN") /\ e["LOG_MONITOR_INGEST_TOKEN"] # "short"
    /\ Ranged(e, LogShipRanges)
    /\ Number(e, LogShipRanges, "LOG_SHIP_RETRY_MAX") >= Number(e, LogShipRanges, "LOG_SHIP_RETRY_MIN")

TraceRanges ==
  [GOPULSE_TRACE_QUEUE_CAPACITY |-> R(2048, 1, 2048), GOPULSE_TRACE_BATCH_SIZE |-> R(256, 1, 2048),
   GOPULSE_TRACE_BATCH_TIMEOUT |-> R(Second, 1, 10 * Second),
   GOPULSE_TRACE_EXPORT_TIMEOUT |-> R(2 * Second, 1, 10 * Second),
   GOPULSE_TRACE_SHUTDOWN_TIMEOUT |-> R(5 * Second, 1, 30 * Second)]

LoadTraceConfig(e) ==
  /\ BooleanValue(e, "GOPULSE_TRACE_ENABLED")
  /\ Ranged(e, TraceRanges)
  /\ Number(e, TraceRanges, "GOPULSE_TRACE_BATCH_SIZE") <= Number(e, TraceRanges, "GOPULSE_TRACE_QUEUE_CAPACITY")
  /\ IF RequiredValue(e, "GOPULSE_TRACE_ENDPOINT")
     THEN ValidateDependencyHost(e, e["GOPULSE_TRACE_ENDPOINT"])
     ELSE ~Flag(e, "GOPULSE_TRACE_ENABLED")

ElasticsearchRanges ==
  [ELASTICSEARCH_REQUEST_TIMEOUT |-> R(3 * Second, 100, 30 * Second)]
LoadElasticsearchConfig(e) == ValidateHost(e, "ELASTICSEARCH_URL") /\ Ranged(e, ElasticsearchRanges)

ReindexRanges == [SEARCH_REINDEX_BATCH |-> R(500, 1, 5000)]

\* Its default is the service's name in a container.
LoadObservabilityElasticsearchConfig(e) ==
  /\ RequiredValue(e, "OBSERVABILITY_ELASTICSEARCH_URL") => ValidateHost(e, "OBSERVABILITY_ELASTICSEARCH_URL")
  /\ Ranged(e, ElasticsearchRanges)

-----------------------------------------------------------------------------
(* The business service.                                                    *)

OutboxRanges ==
  [OUTBOX_POLL_INTERVAL |-> R(Second, 10, Minute), OUTBOX_CLAIM_BATCH |-> R(50, 1, 50),
   OUTBOX_LEASE_DURATION |-> R(5 * Minute, Second, 10 * Minute),
   OUTBOX_PUBLISH_TIMEOUT |-> R(5 * Second, 10, 30 * Second),
   OUTBOX_DATABASE_TIMEOUT |-> R(2 * Second, 10, 30 * Second),
   OUTBOX_MYSQL_MAX_OPEN_CONNS |-> R(4, 1, 32), OUTBOX_PUBLISH_CONCURRENCY |-> R(8, 1, 32),
   OUTBOX_RETRY_DELAY |-> R(30 * Second, Second, 24 * Hour),
   SEARCH_INDEXER_RETRY_DELAY |-> R(30 * Second, Second, 24 * Hour),
   OUTBOX_CLEANUP_INTERVAL |-> R(Hour, Minute, 24 * Hour),
   OUTBOX_CLEANUP_BATCH |-> R(500, 1, 500)]

Batch(e) == Number(e, OutboxRanges, "OUTBOX_CLAIM_BATCH")
Concurrency(e) == Number(e, OutboxRanges, "OUTBOX_PUBLISH_CONCURRENCY")
PublishTimeout(e) == Number(e, OutboxRanges, "OUTBOX_PUBLISH_TIMEOUT")
DatabaseTimeout(e) == Number(e, OutboxRanges, "OUTBOX_DATABASE_TIMEOUT")

RequiredOutboxLease(e) ==
  ((Batch(e) + Concurrency(e) - 1) \div Concurrency(e)) * PublishTimeout(e)
    + (Batch(e) + 2) * DatabaseTimeout(e) + Second

LoadOutbox(e) ==
  /\ Ranged(e, OutboxRanges)
  /\ Number(e, OutboxRanges, "OUTBOX_LEASE_DURATION") >= RequiredOutboxLease(e)

\* What the packages of the outbox and of the broker check again, with constants of their own.
OutboxLimits ==
  [OUTBOX_POLL_INTERVAL |-> 10 .. Minute, OUTBOX_CLAIM_BATCH |-> 1 .. 50,
   OUTBOX_LEASE_DURATION |-> Second .. 10 * Minute, OUTBOX_PUBLISH_TIMEOUT |-> 10 .. 30 * Second,
   OUTBOX_DATABASE_TIMEOUT |-> 10 .. 30 * Second, OUTBOX_PUBLISH_CONCURRENCY |-> 1 .. 32,
   OUTBOX_CLEANUP_INTERVAL |-> Minute .. 24 * Hour, OUTBOX_CLEANUP_BATCH |-> 1 .. 500,
   OUTBOX_RETRY_DELAY |-> Second .. 24 * Hour, SEARCH_INDEXER_RETRY_DELAY |-> Second .. 24 * Hour]

\* NewRepository, NewRabbitMQPublisher for each connection, and NewDispatcher.
NewOutbox(e) ==
  LET publishers == Concurrency(e) IN
  /\ \A k \in DOMAIN OutboxLimits : Number(e, OutboxRanges, k) \in OutboxLimits[k]
  /\ Number(e, OutboxRanges, "OUTBOX_LEASE_DURATION")
       >= ((Batch(e) + publishers - 1) \div publishers) * PublishTimeout(e)
            + (Batch(e) + 2) * DatabaseTimeout(e) + Second

RedisRanges ==
  [REDIS_PORT |-> R(6379, 1, 65535), REDIS_DB |-> R(0, 0, 65535),
   REDIS_POST_DETAIL_TTL |-> R(5 * Minute, Second, 24 * Hour),
   REDIS_OPERATION_TIMEOUT |-> R(200, 10, 5 * Second), REDIS_POOL_SIZE |-> R(16, 1, 256),
   REDIS_POOL_TIMEOUT |-> R(200, 10, 5 * Second)]

LoadRedis(e) ==
  /\ ValidateHost(e, "REDIS_HOST") /\ RequiredValue(e, "REDIS_PASSWORD")
  /\ Ranged(e, RedisRanges)

ProtectionRanges ==
  [BACKEND_RATE_LIMIT_OPERATION_TIMEOUT |-> R(200, 10, 5 * Second),
   BACKEND_RATE_LIMIT_LOCAL_MAX_IDENTITIES |-> R(1024, 1, 100000),
   BACKEND_RESOURCE_AUTH |-> R(16, 1, 4096), BACKEND_RESOURCE_READ |-> R(64, 1, 4096),
   BACKEND_RESOURCE_WRITE |-> R(32, 1, 4096), BACKEND_RESOURCE_DATABASE |-> R(32, 1, 4096),
   BACKEND_RESOURCE_REBUILD |-> R(8, 1, 4096), BACKEND_RESOURCE_WAITER |-> R(256, 1, 4096)]

LoadProtectionConfig(e) ==
  Ranged(e, ProtectionRanges) /\ BooleanValue(e, "BACKEND_RATE_LIMIT_ENABLED")

\* Without a credential a host-mode process makes up its own.
LoadBusinessStageConfig(e) ==
  ~Standalone(e) =>
    /\ IF RequiredValue(e, "BUSINESS_STAGE_SERVICE_CREDENTIAL")
       THEN Secret(e, "BUSINESS_STAGE_SERVICE_CREDENTIAL")
       ELSE LoadRuntimeMode(e) = "host"
    /\ ParseServiceRole(e) = "platform" =>
         IF RequiredValue(e, "BUSINESS_STAGE_ENDPOINTS") THEN ValidateHost(e, "BUSINESS_STAGE_ENDPOINTS")
         ELSE LoadRuntimeMode(e) = "host"

HTTPRanges ==
  [HTTP_PORT |-> R(8080, 1, 65535), BACKEND_HTTP_MAX_CONCURRENCY |-> R(128, 1, 1024),
   PLATFORM_API_HTTP_MAX_CONCURRENCY |-> R(32, 1, 1024)]
HTTPMaxConcurrencyKey(e) ==
  IF ParseServiceRole(e) = "platform" THEN "PLATFORM_API_HTTP_MAX_CONCURRENCY" ELSE "BACKEND_HTTP_MAX_CONCURRENCY"

AuthRanges == [AUTH_JWT_TTL |-> R(2 * Hour, 5 * Minute, 24 * Hour)]
LoadAuth(e) ==
  /\ RequiredValue(e, "AUTH_JWT_SECRET") /\ e["AUTH_JWT_SECRET"] # "short"
  /\ Ranged(e, AuthRanges)
  /\ BooleanValue(e, "AUTH_COOKIE_SECURE")
  /\ ValueOrDefault(e, "APP_ENV", "development") \in {"development", "test", "production"}
  /\ ValueOrDefault(e, "APP_ENV", "development") = "production" => Flag(e, "AUTH_COOKIE_SECURE")

-----------------------------------------------------------------------------
(* The platform service.                                                    *)

MonitorClientRanges == [MONITOR_REQUEST_TIMEOUT |-> R(30 * Second, Second, Minute)]
LoadMonitorClient(e) ==
  /\ RequiredValue(e, "MONITOR_API_TOKEN") /\ e["MONITOR_API_TOKEN"] # "short"
  /\ ValidateHost(e, "MONITOR_URL") /\ Ranged(e, MonitorClientRanges)

VictoriaMetricsRanges == [BACKEND_VICTORIAMETRICS_QUERY_TIMEOUT |-> R(3 * Second, 100, 30 * Second)]
LoadVictoriaMetricsConfig(e) ==
  /\ ValidateHost(e, "BACKEND_VICTORIAMETRICS_URL")
  /\ RequiredValue(e, "BACKEND_VICTORIAMETRICS_PASSWORD") /\ e["BACKEND_VICTORIAMETRICS_PASSWORD"] # "short"
  /\ Ranged(e, VictoriaMetricsRanges)

\* These may be set, but only to what they are.
QueryRangesFixed(e) ==
  \A k \in {"BACKEND_LOG_QUERY_MAX_RANGE", "BACKEND_EVENT_QUERY_MAX_RANGE", "BACKEND_METRIC_QUERY_MAX_RANGE"} :
    ValueOrDefault(e, k, "24h") = "24h"

RoleConnections(e) ==
  MaxOpen(e, "backend") + 1
    + (IF RunsBusiness(e) THEN Number(e, OutboxRanges, "OUTBOX_MYSQL_MAX_OPEN_CONNS") ELSE 0)

\* The groups of settings that the backend loads for its role.
Loads(e) ==
  {"mysql", "async", "logship", "trace", "auth", "http"}
    \cup (IF Standalone(e) THEN {} ELSE {"stage"})
    \cup (IF RunsBusiness(e) THEN {"elasticsearch", "rabbitmq", "outbox"} ELSE {})
    \cup (IF RunsBusiness(e) /\ ~Flag(e, "BACKEND_REDIS_DISABLED") THEN {"redis"} ELSE {})
    \cup (IF RunsBusiness(e) \/ Standalone(e) THEN {"protection"} ELSE {})
    \cup (IF RunsPlatform(e) THEN {"observability", "victoriametrics", "monitor"} ELSE {})

Accepts(e, group) ==
  CASE group = "mysql" -> LoadMySQL(e, "backend")
    [] group = "async" -> Ranged(e, BusinessAsyncRanges)
    [] group = "logship" -> LoadLogShipConfig(e)
    [] group = "trace" -> LoadTraceConfig(e)
    [] group = "auth" -> LoadAuth(e)
    [] group = "http" ->
         /\ \A k \in {HTTPMaxConcurrencyKey(e), "HTTP_PORT"} : DurationValue(e, HTTPRanges, k)
         /\ ValidateListenHost(e, "HTTP_HOST")
    [] group = "stage" -> LoadBusinessStageConfig(e)
    [] group = "elasticsearch" -> LoadElasticsearchConfig(e) /\ Ranged(e, ReindexRanges)
    [] group = "rabbitmq" -> ValidateRabbitMQURL(e)
    [] group = "outbox" -> LoadOutbox(e)
    [] group = "redis" -> LoadRedis(e)
    [] group = "protection" -> LoadProtectionConfig(e)
    [] group = "observability" -> LoadObservabilityElasticsearchConfig(e) /\ QueryRangesFixed(e)
    [] group = "victoriametrics" -> LoadVictoriaMetricsConfig(e)
    [] group = "monitor" -> LoadMonitorClient(e) /\ BooleanValue(e, "ALERT_EVALUATION_ENABLED")

LoadBackend(e) ==
  /\ ParseServiceRole(e) \in {"combined", "business", "platform"} /\ ModeKnown(e)
  /\ \A k \in {"BACKEND_STANDALONE_OBSERVABILITY", "BACKEND_REDIS_DISABLED"} : BooleanValue(e, k)
  /\ Standalone(e) => ParseServiceRole(e) = "platform"
  /\ \A group \in Loads(e) : Accepts(e, group)
  /\ RoleConnections(e) * ReplicaCount(e) <= TotalConnections(e)

\* The groups that the assembly of a role hands to its parts.
Uses(e) ==
  {"mysql", "auth", "http"}
    \cup (IF RunsBusiness(e)
         THEN {"async", "protection", "elasticsearch", "rabbitmq", "outbox", "stage"} ELSE {})
    \cup (IF RunsBusiness(e) /\ ~Flag(e, "BACKEND_REDIS_DISABLED") THEN {"redis"} ELSE {})
    \cup (IF Standalone(e) THEN {"protection"} ELSE {})
    \cup (IF RunsPlatform(e) THEN {"observability", "victoriametrics", "monitor"} ELSE {})
    \cup (IF RunsPlatform(e) /\ ~RunsBusiness(e) /\ ~Standalone(e) THEN {"stage"} ELSE {})

-----------------------------------------------------------------------------
(* The workers and the commands.                                            *)

WorkerRanges ==
  [BUSINESS_WORKER_PREFETCH |-> R(10, 1, 100), BUSINESS_WORKER_MAX_RETRIES |-> R(3, 0, 20),
   OUTBOX_RETRY_DELAY |-> R(30 * Second, Second, 24 * Hour),
   BUSINESS_WORKER_PUBLISH_TIMEOUT |-> R(5 * Second, 10, 30 * Second),
   BUSINESS_WORKER_SHUTDOWN_TIMEOUT |-> R(10 * Second, Second, 5 * Minute),
   BUSINESS_WORKER_RECONNECT_MIN |-> R(500, 100, 5 * Minute),
   BUSINESS_WORKER_RECONNECT_MAX |-> R(30 * Second, 100, 5 * Minute)]

LoadWorker(e) ==
  /\ LoadMySQL(e, "business-worker") /\ ValidateRabbitMQURL(e) /\ Ranged(e, WorkerRanges)
  /\ Number(e, WorkerRanges, "BUSINESS_WORKER_RECONNECT_MAX")
       >= Number(e, WorkerRanges, "BUSINESS_WORKER_RECONNECT_MIN")
  /\ LoadLogShipConfig(e) /\ LoadTraceConfig(e) /\ Ranged(e, BusinessAsyncRanges)

IndexerRanges ==
  [SEARCH_INDEXER_PREFETCH |-> R(10, 1, 100), SEARCH_INDEXER_MAX_RETRIES |-> R(3, 0, 20),
   SEARCH_INDEXER_RETRY_DELAY |-> R(30 * Second, Second, 24 * Hour),
   SEARCH_INDEXER_PUBLISH_TIMEOUT |-> R(5 * Second, 10, 30 * Second),
   SEARCH_INDEXER_SHUTDOWN_TIMEOUT |-> R(10 * Second, Second, 5 * Minute),
   SEARCH_INDEXER_RECONNECT_MIN |-> R(500, 100, 5 * Minute),
   SEARCH_INDEXER_RECONNECT_MAX |-> R(30 * Second, 100, 5 * Minute)]

LoadSearchIndexer(e) ==
  /\ LoadMySQL(e, "search-indexer") /\ ValidateRabbitMQURL(e) /\ LoadElasticsearchConfig(e)
  /\ Ranged(e, IndexerRanges)
  /\ Number(e, IndexerRanges, "SEARCH_INDEXER_RECONNECT_MAX")
       >= Number(e, IndexerRanges, "SEARCH_INDEXER_RECONNECT_MIN")
  /\ LoadLogShipConfig(e) /\ LoadTraceConfig(e) /\ Ranged(e, BusinessAsyncRanges)

LoadReindex(e) ==
  /\ LoadMySQL(e, "search-reindex") /\ LoadElasticsearchConfig(e) /\ Ranged(e, ReindexRanges)
  /\ LoadLogShipConfig(e) /\ Ranged(e, BusinessAsyncRanges)

-----------------------------------------------------------------------------
(* Monitor.                                                                 *)

MonitorRanges ==
  [MONITOR_HTTP_PORT |-> R(9090, 1, 65535),
   MONITOR_REQUEST_TIMEOUT |-> R(30 * Second, Second, Minute),
   MONITOR_SHUTDOWN_TIMEOUT |-> R(10 * Second, Second, Minute),
   MONITOR_PLUGIN_STARTUP_TIMEOUT |-> R(10 * Second, Second, 30 * Second),
   MONITOR_PLUGIN_STOP_TIMEOUT |-> R(5 * Second, Second, 30 * Second),
   MONITOR_SCRAPE_INTERVAL |-> R(15 * Second, Second, 5 * Minute),
   MONITOR_SCRAPE_TIMEOUT |-> R(3 * Second, 100, 30 * Second),
   MONITOR_PUBLISH_TIMEOUT |-> R(3 * Second, 100, 30 * Second),
   MONITOR_KAFKA_PRODUCE_TIMEOUT |-> R(3 * Second, Second, 10 * Second),
   MONITOR_KAFKA_MAX_BUFFERED_RECORDS |-> R(128, 1, 1024),
   MONITOR_KAFKA_MAX_BUFFERED_BYTES |-> R(8388608, 1048576, 67108864),
   MONITOR_LOG_MAX_BYTES |-> R(65536, 1024, 65536), MONITOR_LOG_FUTURE_SKEW |-> R(5 * Minute, 0, 10 * Minute),
   MONITOR_EVENT_QUEUE_CAPACITY |-> R(256, 1, 4096), MONITOR_EVENT_RETRY_MIN |-> R(250, 100, 5 * Second),
   MONITOR_EVENT_SHUTDOWN_TIMEOUT |-> R(5 * Second, 0, 30 * Second),
   MONITOR_EVENT_MAX_BYTES |-> R(16384, 16384, 16384),
   MONITOR_METRICS_SPOOL_MAX_BYTES |-> R(1073741824, 1048576, 1073741824),
   MONITOR_LOGS_SPOOL_MAX_BYTES |-> R(1073741824, 1048576, 1073741824),
   MONITOR_EVENTS_SPOOL_MAX_BYTES |-> R(1073741824, 1048576, 1073741824)]

\* The longest pause is at least the shortest, the default included.
EventRetryRanges(e) ==
  [MONITOR_EVENT_RETRY_MAX |->
     R(5 * Second, Number(e, MonitorRanges, "MONITOR_EVENT_RETRY_MIN"), 30 * Second)]

ParseKafkaBrokers(e) ==
  RequiredValue(e, "MONITOR_KAFKA_BROKERS") => ValidateDependencyHost(e, e["MONITOR_KAFKA_BROKERS"])

ScrapeTimeout(e) == Number(e, MonitorRanges, "MONITOR_SCRAPE_TIMEOUT")
ScrapeInterval(e) == Number(e, MonitorRanges, "MONITOR_SCRAPE_INTERVAL")

MonitorTokens(e) ==
  /\ \A k \in {"MONITOR_API_TOKEN", "LOG_MONITOR_INGEST_TOKEN"} : RequiredValue(e, k) /\ e[k] # "short"
  /\ e["MONITOR_API_TOKEN"] # e["LOG_MONITOR_INGEST_TOKEN"]

LoadMonitor(e) ==
  /\ ModeKnown(e) /\ ValidateListenHost(e, "MONITOR_HTTP_HOST") /\ MonitorTokens(e)
  /\ RequiredValue(e, "MONITOR_PLUGIN_ROOT") /\ ValueOrDefault(e, "MONITOR_SPOOL_DIR", "/spool") # "relative"
  /\ Ranged(e, MonitorRanges) /\ ScrapeTimeout(e) < ScrapeInterval(e)
  /\ Ranged(e, EventRetryRanges(e)) /\ ParseKafkaBrokers(e)
  /\ ValidateHost(e, "REDIS_HOST")
  /\ ValueOrDefault(e, "REDIS_EXPORTER_HTTP_HOST", "loopback") = "loopback"

-----------------------------------------------------------------------------
(* Marshaller.  Its lookups do not fall back when a variable is blank.      *)

StrictlyRanged(e, ranges) ==
  \A k \in DOMAIN ranges \cap DOMAIN e : e[k] \in ranges[k].min .. ranges[k].max
StrictHost(e, k) == ValidateDependencyHost(e, IF k \in DOMAIN e THEN e[k] ELSE "loopback")

MarshallerRanges ==
  [GOPULSE_REPLICA_COUNT |-> R(1, 1, 8), MARSHALLER_HTTP_PORT |-> R(9093, 1, 65535),
   MARSHALLER_KAFKA_MIN_PARTITIONS |-> R(1, 1, 16), MARSHALLER_MAX_IN_FLIGHT |-> R(4, 1, 64),
   MARSHALLER_KAFKA_COMMIT_TIMEOUT |-> R(3 * Second, 100, 10 * Second),
   MARSHALLER_VM_TIMEOUT |-> R(3 * Second, 100, 10 * Second),
   MARSHALLER_ELASTICSEARCH_TIMEOUT |-> R(3 * Second, 100, 10 * Second),
   MARSHALLER_RETRY_MIN |-> R(250, 10, 10 * Second), MARSHALLER_RETRY_MAX |-> R(5 * Second, 100, Minute),
   MARSHALLER_READINESS_TIMEOUT |-> R(2 * Second, 100, 10 * Second),
   MARSHALLER_SHUTDOWN_TIMEOUT |-> R(10 * Second, Second, Minute),
   MARSHALLER_FUTURE_SKEW |-> R(5 * Minute, 0, 10 * Minute)]

RetentionRanges ==
  [MARSHALLER_LOG_RETENTION_DAYS |-> R(7, 1, 90), MARSHALLER_EVENT_RETENTION_DAYS |-> R(7, 1, 90),
   MARSHALLER_RETENTION_CYCLE |-> R(60 * Second, 10 * Second, 24 * Hour),
   MARSHALLER_RETENTION_BATCH_INDICES |-> R(16, 1, 128),
   MARSHALLER_RETENTION_REQUEST_TIMEOUT |-> R(3 * Second, 100, 10 * Second),
   MARSHALLER_RETENTION_ROUND_TIMEOUT |-> R(15 * Second, Second, Minute),
   MARSHALLER_RETENTION_RETRY_MIN |-> R(250, 10, 10 * Second),
   MARSHALLER_RETENTION_RETRY_MAX |-> R(5 * Second, 100, Minute),
   MARSHALLER_RETENTION_MAX_RETRIES |-> R(3, 0, 8),
   MARSHALLER_RETENTION_CATCHUP_DEADLINE |-> R(60 * Second, Second, 10 * Minute)]

MaxInFlight(e) == Number(e, MarshallerRanges, "MARSHALLER_MAX_IN_FLIGHT")
Partitions(e) == Number(e, MarshallerRanges, "MARSHALLER_KAFKA_MIN_PARTITIONS")
RetryingRanges(e) == [MARSHALLER_MAX_RETRYING |-> R(4, 1, MaxInFlight(e))]
MaxRetrying(e) == Number(e, RetryingRanges(e), "MARSHALLER_MAX_RETRYING")

LoadRetentionConfig(e) ==
  /\ StrictlyRanged(e, RetentionRanges)
  /\ Number(e, RetentionRanges, "MARSHALLER_RETENTION_RETRY_MAX")
       >= Number(e, RetentionRanges, "MARSHALLER_RETENTION_RETRY_MIN")

LoadMarshaller(e) ==
  /\ ModeKnown(e)
  /\ StrictlyRanged(e, MarshallerRanges) /\ ReplicaCount(e) <= Partitions(e)
  /\ StrictlyRanged(e, RetryingRanges(e)) /\ MaxRetrying(e) \in 1 .. MaxInFlight(e)
  /\ ValidateListenHost(e, "MARSHALLER_HTTP_HOST")
  /\ \A k \in {"MARSHALLER_KAFKA_BROKERS", "MARSHALLER_VM_URL", "MARSHALLER_ELASTICSEARCH_URL"} : StrictHost(e, k)
  /\ \A k \in {"MARSHALLER_API_TOKEN", "MARSHALLER_VM_PASSWORD"} : RequiredValue(e, k) /\ e[k] # "short"
  /\ Number(e, MarshallerRanges, "MARSHALLER_RETRY_MAX") >= Number(e, MarshallerRanges, "MARSHALLER_RETRY_MIN")
  /\ LoadRetentionConfig(e)

-----------------------------------------------------------------------------
(* What every long-running process checks before its own loader.            *)

RuntimeDefinitions ==
  [p \in {"backend", "business-worker", "search-indexer", "monitor", "marshaller"} |->
     CASE p = "backend" -> [shutdown |-> "BACKEND_SHUTDOWN_TIMEOUT", seconds |-> 5]
       [] p = "business-worker" -> [shutdown |-> "BUSINESS_WORKER_SHUTDOWN_TIMEOUT", seconds |-> 10]
       [] p = "search-indexer" -> [shutdown |-> "SEARCH_INDEXER_SHUTDOWN_TIMEOUT", seconds |-> 10]
       [] p = "monitor" -> [shutdown |-> "MONITOR_SHUTDOWN_TIMEOUT", seconds |-> 10]
       [] p = "marshaller" -> [shutdown |-> "MARSHALLER_SHUTDOWN_TIMEOUT", seconds |-> 10]]

SecretsOf(p) ==
  CASE p = "backend" -> {"AUTH_JWT_SECRET", "LOG_MONITOR_INGEST_TOKEN", "MONITOR_API_TOKEN"}
    [] p \in {"business-worker", "search-indexer"} -> {"LOG_MONITOR_INGEST_TOKEN"}
    [] p = "monitor" -> {"LOG_MONITOR_INGEST_TOKEN", "MONITOR_API_TOKEN"}
    [] p = "marshaller" -> {"MARSHALLER_API_TOKEN"}

ValidateRuntimeEnvironment(e, p) ==
  LET given == {k \in SecretsOf(p) : RequiredValue(e, k)} IN
  /\ DurationValue(e, MySQLRanges, "GOPULSE_REPLICA_COUNT")
  /\ RuntimeDefinitions[p].shutdown \in DOMAIN e =>
       e[RuntimeDefinitions[p].shutdown] \in 1 .. RuntimeDefinitions[p].seconds * Second
  /\ p = "marshaller" /\ "MARSHALLER_READINESS_TIMEOUT" \in DOMAIN e =>
       e["MARSHALLER_READINESS_TIMEOUT"] \in 1 .. 2 * Second
  /\ \A k \in given : Secret(e, k)
  /\ \A j, k \in given : e[j] = e[k] => j = k

Load(e, p) ==
  CASE p = "backend" -> LoadBackend(e)
    [] p = "business-worker" -> LoadWorker(e)
    [] p = "search-indexer" -> LoadSearchIndexer(e)
    [] p = "search-reindex" -> LoadReindex(e)
    [] p = "migrate" -> LoadMySQL(e, p)
    [] p = "monitor" -> LoadMonitor(e)
    [] p = "marshaller" -> LoadMarshaller(e)

Accepted(e, p) ==
  (p \in DOMAIN RuntimeDefinitions => ValidateRuntimeEnvironment(e, p)) /\ Load(e, p)

-----------------------------------------------------------------------------
(* The operator.                                                            *)

HostEnvironment ==
  [MYSQL_DATABASE |-> "gopulse", MYSQL_USER |-> "gopulse", MYSQL_PASSWORD |-> "A",
   RABBITMQ_URL |-> "loopback", REDIS_PASSWORD |-> "A", AUTH_JWT_SECRET |-> "A",
   MONITOR_API_TOKEN |-> "B", LOG_MONITOR_INGEST_TOKEN |-> "C",
   BACKEND_VICTORIAMETRICS_PASSWORD |-> "D", MARSHALLER_API_TOKEN |-> "E",
   MARSHALLER_VM_PASSWORD |-> "D", MONITOR_PLUGIN_ROOT |-> "/plugins"]

ContainerEnvironment ==
  [k \in {"HTTP_HOST", "MONITOR_HTTP_HOST", "MARSHALLER_HTTP_HOST"} |-> "unspecified"]
    @@ [k \in {"MYSQL_HOST", "REDIS_HOST", "RABBITMQ_URL", "ELASTICSEARCH_URL", "MONITOR_URL",
               "BACKEND_VICTORIAMETRICS_URL", "BUSINESS_STAGE_ENDPOINTS", "MARSHALLER_KAFKA_BROKERS",
               "MARSHALLER_VM_URL", "MARSHALLER_ELASTICSEARCH_URL", "LOG_MONITOR_URL"} |-> "service"]
    @@ [GOPULSE_RUNTIME_MODE |-> "container", BUSINESS_STAGE_SERVICE_CREDENTIAL |-> "F"]
    @@ HostEnvironment

\* The values an operator tries, by section.
Tried(group) ==
  CASE group = "lease" ->
         [OUTBOX_CLAIM_BATCH |-> {0, 1, 8, 9, 51}, OUTBOX_PUBLISH_CONCURRENCY |-> {1, 32},
          OUTBOX_PUBLISH_TIMEOUT |-> {10, 30 * Second}, OUTBOX_DATABASE_TIMEOUT |-> {10, Second},
          OUTBOX_LEASE_DURATION |-> {Second, 49 * Second, 50 * Second, 10 * Minute}]
    [] group = "pools" ->
         [GOPULSE_REPLICA_COUNT |-> {2, 3, 9}, MYSQL_MAX_OPEN_CONNS |-> {1, 20, 56},
          PLATFORM_API_MYSQL_MAX_OPEN_CONNS |-> {20, 60}, OUTBOX_MYSQL_MAX_OPEN_CONNS |-> {1, 32},
          MYSQL_TOTAL_MAX_OPEN_CONNS |-> {Blank, 30, 61}, MYSQL_MAX_IDLE_CONNS |-> {1, 21},
          BACKEND_SERVICE_ROLE |-> {"business", "platform"}, MARSHALLER_KAFKA_MIN_PARTITIONS |-> {2}]
    [] group = "roles" ->
         [BACKEND_SERVICE_ROLE |-> {"business", "platform", "junk"}, BACKEND_REDIS_DISABLED |-> {"true"},
          BACKEND_STANDALONE_OBSERVABILITY |-> {"true", "junk"}, REDIS_PASSWORD |-> {""},
          BUSINESS_STAGE_ENDPOINTS |-> {"", "loopback"}, BUSINESS_STAGE_SERVICE_CREDENTIAL |-> {"", "short"},
          RABBITMQ_URL |-> {"", "service"}, MONITOR_API_TOKEN |-> {"", "short", "C"},
          LOG_MONITOR_URL |-> {"", "ip"}, APP_ENV |-> {"production"}, AUTH_COOKIE_SECURE |-> {"true"}]
    [] group = "hosts" ->
         [GOPULSE_RUNTIME_MODE |-> {"", "container", "host"}, MYSQL_HOST |-> {"", "ip", "service"},
          HTTP_HOST |-> {"", "ip"}, ELASTICSEARCH_URL |-> {"ip", "service"},
          MARSHALLER_VM_URL |-> {"", "loopback"}, MONITOR_KAFKA_BROKERS |-> {"twice", "service"},
          REDIS_HOST |-> {"", "ip"}, OBSERVABILITY_ELASTICSEARCH_URL |-> {"service", "ip"}]
    [] group = "delays" ->
         [BUSINESS_WORKER_SHUTDOWN_TIMEOUT |-> {Blank, 10 * Second, 5 * Minute},
          MARSHALLER_SHUTDOWN_TIMEOUT |-> {10001}, BACKEND_SHUTDOWN_TIMEOUT |-> {5 * Second, 6 * Second},
          MONITOR_SCRAPE_TIMEOUT |-> {15 * Second}, MONITOR_SCRAPE_INTERVAL |-> {Second, Minute},
          MONITOR_EVENT_RETRY_MIN |-> {5 * Second, 6 * Second}, MONITOR_EVENT_RETRY_MAX |-> {250, Blank},
          BUSINESS_WORKER_RECONNECT_MIN |-> {Minute}, SEARCH_INDEXER_RECONNECT_MAX |-> {100, Minute},
          MARSHALLER_MAX_IN_FLIGHT |-> {2, 64}, MARSHALLER_MAX_RETRYING |-> {2, 64, Blank},
          MARSHALLER_RETENTION_RETRY_MAX |-> {100, Junk}, LOG_SHIP_RETRY_MIN |-> {6 * Second},
          LOG_SHIP_RETRY_MAX |-> {Minute}, GOPULSE_TRACE_QUEUE_CAPACITY |-> {128},
          GOPULSE_TRACE_BATCH_SIZE |-> {128, 2048}, MARSHALLER_READINESS_TIMEOUT |-> {3 * Second}]

Init ==
  /\ section \in Sections
  /\ env \in {HostEnvironment, ContainerEnvironment}
  /\ changed = {} /\ proc = "none" /\ state = "stopped"

Set(k, v) ==
  /\ state = "stopped" /\ Cardinality(changed) < MaxSet[section] /\ k \notin changed
  /\ env' = (k :> v) @@ env /\ changed' = changed \cup {k}
  /\ UNCHANGED <<section, proc, state>>

Start(p) ==
  /\ state = "stopped" /\ proc' = p
  /\ state' = IF Accepted(env, p) THEN "up" ELSE "refused"
  /\ UNCHANGED <<section, env, changed>>

Next ==
  \/ \E k \in DOMAIN Tried(section) : \E v \in Tried(section)[k] : Set(k, v)
  \/ \E p \in Processes : Start(p)

Spec == Init /\ [][Next]_vars

Up(p) == proc = p /\ state = "up"

-----------------------------------------------------------------------------
TypeOK ==
  /\ proc \in Processes \cup {"none"} /\ state \in {"stopped", "refused", "up"}
  /\ changed \subseteq DOMAIN env

\* The constructors of the outbox have bounds of their own, in a package of their own: a backend
\* whose loader accepts an environment does not die while its role is assembled.
AssemblyAccepts == Up("backend") /\ RunsBusiness(env) => NewOutbox(env)

\* All replicas of an accepted process together open no more connections than the operator
\* allows: the API's pool, the probe's, and the outbox's where the role has one.
PoolsCovered ==
  LET pools ==
    IF proc = "backend"
    THEN <<MaxOpen(env, proc), 1, IF "outbox" \in Uses(env)
                                  THEN Number(env, OutboxRanges, "OUTBOX_MYSQL_MAX_OPEN_CONNS") ELSE 0>>
    ELSE <<MaxOpen(env, proc), 0, 0>> IN
  state = "up" /\ proc \notin {"monitor", "marshaller"} =>
    (pools[1] + pools[2] + pools[3]) * ReplicaCount(env) <= TotalConnections(env)

\* Whatever the assembly of the role hands to its parts, the loader has read and checked.
UsesLoaded == Up("backend") => Uses(env) \subseteq Loads(env)

\* An environment that serves the combined backend serves the business service, and the
\* commands that an operator runs beside a business service accept its environment.
SplitAccepted ==
  /\ Up("backend") /\ ParseServiceRole(env) = "combined" =>
       Accepted(("BACKEND_SERVICE_ROLE" :> "business") @@ env, "backend")
  /\ Up("backend") /\ RunsBusiness(env) => Accepted(env, "migrate") /\ Accepted(env, "search-reindex")

\* No accepted process drains longer than the deployment contract allows it.
EndsInContract ==
  LET timeout == [p \in DOMAIN RuntimeDefinitions |->
        CASE p = "business-worker" -> Number(env, WorkerRanges, "BUSINESS_WORKER_SHUTDOWN_TIMEOUT")
          [] p = "search-indexer" -> Number(env, IndexerRanges, "SEARCH_INDEXER_SHUTDOWN_TIMEOUT")
          [] p = "monitor" -> Number(env, MonitorRanges, "MONITOR_SHUTDOWN_TIMEOUT")
          [] p = "marshaller" -> Number(env, MarshallerRanges, "MARSHALLER_SHUTDOWN_TIMEOUT")
          [] OTHER -> 5 * Second] IN
  state = "up" /\ proc \in DOMAIN RuntimeDefinitions =>
    timeout[proc] <= RuntimeDefinitions[proc].seconds * Second

\* Settings that only make sense together do: a scrape ends before the next, a batch fits its
\* queue, retries do not fill more than the records in flight, every replica has a partition,
\* and the longest pause is not shorter than the shortest.
SettingsAgree ==
  /\ Up("monitor") =>
       /\ ScrapeTimeout(env) < ScrapeInterval(env)
       /\ Number(env, EventRetryRanges(env), "MONITOR_EVENT_RETRY_MAX")
            >= Number(env, MonitorRanges, "MONITOR_EVENT_RETRY_MIN")
       /\ env["MONITOR_API_TOKEN"] # env["LOG_MONITOR_INGEST_TOKEN"]
  /\ Up("marshaller") => MaxRetrying(env) <= MaxInFlight(env) /\ ReplicaCount(env) <= Partitions(env)
  /\ state = "up" /\ proc \in {"backend", "business-worker", "search-indexer"} =>
       /\ Number(env, TraceRanges, "GOPULSE_TRACE_BATCH_SIZE")
            <= Number(env, TraceRanges, "GOPULSE_TRACE_QUEUE_CAPACITY")
       /\ LogShipEnabled(env) => Number(env, LogShipRanges, "LOG_SHIP_RETRY_MAX")
                                  >= Number(env, LogShipRanges, "LOG_SHIP_RETRY_MIN")
=============================================================================
