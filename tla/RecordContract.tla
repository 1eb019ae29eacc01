---------------------------- MODULE RecordContract ----------------------------
(***************************************************************************)
(* What a log line and an event go through between the process that writes *)
(* them and the observation store: Monitor validates and wraps, the        *)
(* Marshaller unwraps, validates again with its own copy of the contract,  *)
(* on its own clock, and makes documents.  Records of an earlier Monitor   *)
(* may still be in Kafka.  One record is followed per behaviour.           *)
(*                                                                         *)
(* Time is in half milliseconds; a second and a day are shortened.         *)
(***************************************************************************)
EXTENDS Naturals, Sequences, FiniteSets, SequencesExt

CONSTANTS LogSkew,       \* MONITOR_LOG_FUTURE_SKEW
          EventSkew,     \* five minutes, in Monitor's event contract
          DecodeSkew,    \* MARSHALLER_FUTURE_SKEW
          Ahead,         \* how far Monitor's clock may be ahead of the Marshaller's
          RetentionDays,
          Start, MaxTime \* bounds of the Marshaller's clock

Ms(t) == (t \div 2) * 2
Unix(t) == t \div 4
Day(t) == t \div 8

VARIABLES now,     \* the Marshaller's clock
          ahead,   \* Monitor's clock minus it
          sent,    \* the observations that were written
          wire,    \* the record in Kafka
          out      \* the fate of the record

vars == <<now, ahead, sent, wire, out>>

None == "none"
Monitor == now + ahead

Init == /\ now = Start /\ ahead \in Ahead
        /\ sent = <<>> /\ wire = [type |-> None] /\ out = [st |-> "idle"]

-----------------------------------------------------------------------------
(* The vocabulary.  Fields are tagged with their JSON type.                 *)

Str(v) == [t |-> "string", v |-> v]
Num(v) == [t |-> "number", v |-> v]
Flag == [t |-> "bool"]
Nested == [t |-> "object"]

Core == {"log_schema_version", "timestamp", "level", "service", "module", "message"}
Positive == {"user_id", "post_id", "outbox_id"}
NonNegative == {"duration_ms", "attempt"}
Flags == {"panic_recovered", "response_committed"}
AllowedFields == Core \cup Positive \cup NonNegative \cup Flags
                   \cup {"event_id", "error_code", "consumer"}

Known(service, module, message) ==
  <<service, module, message>> \in
    {<<"backend", "outbox", "outbox publish failed">>, <<"backend", "cache", "post detail cache read failed">>,
     <<"search-indexer", "search", "event processed">>, <<"business-worker", "worker", "event processed">>}

\* A string is empty, names something sensitive, or has the form its key asks for.
Fits(key, f) ==
  CASE f.t = "string" -> f.v # "" /\ f.v # "a password" /\ (key = "event_id" => f.v = "a uuid")
                           /\ (key = "consumer" => f.v \in {"business", "search"})
    [] f.t = "number" -> (key \in Positive => f.v > 0) /\ (key \in NonNegative => f.v >= 0)
    [] f.t = "bool" -> key \in Flags
    [] OTHER -> FALSE

\* The Marshaller's copies of the vocabulary and the forms.
Knows(service, module, message) == Known(service, module, message)
Takes(key, f) == Fits(key, f)

\* As it would be if a field were added to one list only.
NoFlags(fields) == \A k \in DOMAIN fields : k \in AllowedFields \ (Core \cup Flags) /\ Takes(k, fields[k])

\* A batch entry holds the core apart.
ValidateBatchFields(fields) == \A k \in DOMAIN fields : k \in AllowedFields \ Core /\ Takes(k, fields[k])

\* The line as Monitor sees it: the core among the rest.
ValidateLine(l, clock, skew) ==
  /\ l.schema = 1 /\ l.at <= clock + skew /\ l.level \in {"info", "warn", "error"}
  /\ Known(l.service, l.module, l.message)
  /\ \A k \in DOMAIN l.fields : k \in AllowedFields /\ Fits(k, l.fields[k])

Plugins == {"redis-exporter", "mysql-exporter", "rabbitmq-exporter", "kafka-exporter",
            "elasticsearch-exporter", "victoriametrics-exporter"}
Transitions == {"metrics_collection_recovered", "metrics_target_recovered"}

NoMeta == [plugin_version |-> 0, previous_plugin_version |-> 0, operation |-> None, from_state |-> None,
           to_state |-> None, error_code |-> None, scrape_status |-> None]

ValidPluginFailure(operation, code) ==
  code \in CASE operation = "start" -> {"start_failed"} [] operation = "stop" -> {"stop_failed"}
             [] operation = "update" -> {"update_failed", "rollback_failed"}
             [] operation = "recover" -> {"recovery_failed", "recovery_invalid"} [] OTHER -> {}
ValidMetricsFailure(operation, code) ==
  code \in CASE operation = "publish" -> {"publish_failed"}
             [] operation = "scrape" -> {"scrape_timeout", "network_failed", "parse_failed",
                                         "contract_invalid", "scrape_failed", "message_id_failed"}
             [] OTHER -> {}

\* validMetadata.
ValidMetadata(name, plugin, m) ==
  /\ plugin \in Plugins
  /\ CASE name = "exporter_plugin_installed" ->
            m = [NoMeta EXCEPT !.plugin_version = m.plugin_version, !.operation = "install",
                               !.from_state = "not_installed", !.to_state = "running"] /\ m.plugin_version > 0
       [] name = "exporter_plugin_started" ->
            m = [NoMeta EXCEPT !.plugin_version = m.plugin_version, !.operation = "start",
                               !.from_state = m.from_state, !.to_state = "running"]
              /\ m.plugin_version > 0 /\ m.from_state \in {"stopped", "failed"}
       [] name = "exporter_plugin_stopped" ->
            m = [NoMeta EXCEPT !.plugin_version = m.plugin_version, !.operation = "stop",
                               !.from_state = m.from_state, !.to_state = "stopped"]
              /\ m.plugin_version > 0 /\ m.from_state \in {"running", "failed"}
       [] name = "exporter_plugin_updated" ->
            m = [NoMeta EXCEPT !.plugin_version = m.plugin_version,
                               !.previous_plugin_version = m.previous_plugin_version, !.operation = "update",
                               !.from_state = m.from_state, !.to_state = m.from_state]
              /\ m.plugin_version > 0 /\ m.previous_plugin_version > 0 /\ m.from_state \in {"running", "stopped"}
       [] name = "exporter_plugin_failed" ->
            m = [NoMeta EXCEPT !.plugin_version = m.plugin_version, !.operation = m.operation,
                               !.to_state = m.to_state, !.error_code = m.error_code]
              /\ m.plugin_version > 0 /\ m.to_state \in {"not_installed", "stopped", "running", "failed"}
              /\ ValidPluginFailure(m.operation, m.error_code)
       [] name = "metrics_collection_failed" ->
            m = [NoMeta EXCEPT !.operation = m.operation, !.error_code = m.error_code]
              /\ ValidMetricsFailure(m.operation, m.error_code)
       [] name \in Transitions -> m = [NoMeta EXCEPT !.operation = "scrape", !.scrape_status = "success"]
       [] name = "metrics_target_unavailable" ->
            m = [NoMeta EXCEPT !.operation = "scrape", !.scrape_status = "target_unavailable"]
       [] OTHER -> FALSE

\* The Marshaller's copy of it.
TakesMetadata(name, plugin, m) == ValidMetadata(name, plugin, m)

-----------------------------------------------------------------------------
(* What is written.                                                         *)


Entry(l) == [at |-> l.at, level |-> l.level, service |-> l.service, module |-> l.module,
             message |-> l.message, fields |-> Restrict(l.fields, DOMAIN l.fields \ Core)]
LogWire(schema, payload, l) == [type |-> "logs", schema |-> schema, source |-> l.service, at |-> l.at, payload |-> payload]

Sends(what, record) == sent' = what /\ wire' = record /\ out' = [st |-> "kafka"] /\ UNCHANGED <<now, ahead>>
Refuses(what) == sent' = what /\ out' = [st |-> "refused by monitor"] /\ UNCHANGED <<now, ahead, wire>>

SomeFields == {<<>>} \cup {k :> f : k \in {"event_id", "user_id", "duration_ms", "panic_recovered", "consumer", "internal"},
                                     f \in {Str("a uuid"), Str("a password"), Num(0), Num(1), Flag, Nested}}
Line(at, level, service, module, message, fields) ==
  [schema |-> 1, at |-> at, level |-> level, service |-> service, module |-> module, message |-> message, fields |-> fields]
\* Any vocabulary without fields, or a good line with any one field, of any time.
Lines ==
  {Line(t, "info", "backend", "outbox", "outbox publish failed", f) :
     t \in {0, 5, Monitor, Monitor + LogSkew, Monitor + LogSkew + 1}, f \in SomeFields}
  \cup {Line(Monitor, v, s, m, g, <<>>) : v \in {"info", "debug"}, s \in {"backend", "search-indexer"}, m \in {"outbox", "search"},
                                          g \in {"outbox publish failed", "outbox publish confirmed", "event processed"}}

\* The request of a shipper: the line is answered 400, or is on its way.
IngestLog(l) ==
  /\ out.st = "idle"
  /\ IF ValidateLine(l, Monitor, LogSkew)
       THEN Sends(<<l>>, LogWire(2, [dataid |-> 3001, time |-> Unix(l.at), data |-> <<Entry(l)>>], l))
       ELSE Refuses(<<l>>)

\* An earlier Monitor put the line itself into the record.
IngestFlat(l) ==
  /\ out.st = "idle" /\ ValidateLine(l, Monitor, LogSkew)
  /\ Sends(<<l>>, LogWire(1, l, l))

Meta(version, previous, operation, from, to) ==
  [NoMeta EXCEPT !.plugin_version = version, !.previous_plugin_version = previous, !.operation = operation,
                 !.from_state = from, !.to_state = to]

\* New, NewMetrics: what the plugin runtime and the collector report.
Reports ==
  {<<"exporter_plugin_installed", Meta(1, 0, "install", "not_installed", "running")>>,
   <<"exporter_plugin_started", Meta(1, 0, "start", "stopped", "running")>>,
   <<"exporter_plugin_stopped", Meta(1, 0, "stop", "running", "stopped")>>}
  \cup {<<"exporter_plugin_updated", Meta(2, 1, "update", s, s)>> : s \in {"running", "stopped"}}
  \cup {<<"metrics_collection_failed", [NoMeta EXCEPT !.operation = IF c = "publish_failed" THEN "publish" ELSE "scrape",
                                                      !.error_code = c]>> :
          c \in {"publish_failed", "scrape_timeout", "network_failed", "contract_invalid", "scrape_failed", "message_id_failed"}}
  \cup {<<n, [NoMeta EXCEPT !.operation = "scrape", !.scrape_status = "success"]>> : n \in Transitions}
  \cup {<<"metrics_target_unavailable", [NoMeta EXCEPT !.operation = "scrape", !.scrape_status = "target_unavailable"]>>}

Event(report, plugin, t) == [name |-> report[1], plugin |-> plugin, meta |-> report[2], at |-> t]
ValidEvent(e, clock) == e.at <= clock + EventSkew /\ ValidMetadata(e.name, e.plugin, e.meta)

\* itemFromEvent: only what is set becomes a dimension; milliseconds.
Item(e) == [name |-> e.name, target |-> e.plugin, content |-> e.name, count |-> 1, ms |-> Ms(e.at),
            dimension |-> Restrict(e.meta, {k \in DOMAIN e.meta : e.meta[k] # NoMeta[k]})]
EventWire(schema, payload, t) == [type |-> "events", schema |-> schema, source |-> "monitor", at |-> t, payload |-> payload]

\* Record: an event that Monitor's own contract refuses is dropped without a trace.
RecordEvent(e) ==
  /\ out.st = "idle"
  /\ IF ValidEvent(e, Monitor)
       THEN Sends(<<e>>, EventWire(2, [dataid |-> 2001, data |-> <<Item(e)>>], e.at))
       ELSE Refuses(<<e>>)

\* An earlier Monitor put the event itself into the record.
RecordLegacy(e) ==
  /\ out.st = "idle" /\ ValidEvent(e, Monitor)
  /\ Sends(<<e>>, EventWire(1, e, e.at))

\* Another producer's batch: several observations in one record.
SendBatch(es) ==
  /\ out.st = "idle" /\ \A e \in Range(es) : ValidEvent(e, Monitor)
  /\ Sends(es, EventWire(2, [dataid |-> 2001, data |-> [i \in DOMAIN es |-> Item(es[i])]],
                         CHOOSE t \in {e.at : e \in Range(es)} : \A e \in Range(es) : e.at <= t))

-----------------------------------------------------------------------------
(* The Marshaller.                                                          *)

\* As it would be if the cutoff were that of whole days of age.
ExpiredLate(t) == Day(t) + RetentionDays < Day(now)

ExpiredTimestamp(t) == Day(t) + RetentionDays <= Day(now)

\* metadataFromBatch: what no dimension says is empty.
MetadataFromBatch(dimension) == dimension @@ NoMeta

ValidLog(w, p) == /\ p.dataid = 3001 /\ p.time > 0 /\ p.time = Unix(p.data[1].at)
                  /\ \A e \in Range(p.data) : /\ e.service = p.data[1].service /\ e.at <= w.at
                                              /\ e.level \in {"info", "warn", "error"}
                                              /\ Knows(e.service, e.module, e.message)
                                              /\ ValidateBatchFields(e.fields)
                  /\ p.data[1].service = w.source
ValidEvents(w, p) == /\ p.dataid = 2001 /\ p.data # <<>>
                     /\ \A i \in Range(p.data) : /\ i.content = i.name /\ i.count >= 1 /\ i.ms > 0 /\ i.ms <= w.at
                                                 /\ DOMAIN i.dimension \subseteq DOMAIN NoMeta
                                                 /\ TakesMetadata(i.name, i.target, MetadataFromBatch(i.dimension))
Single(w) == w.schema = 1
ValidPayload(w) ==
  CASE w.type = "logs" /\ Single(w) -> ValidateLine(w.payload, w.at, 0) /\ w.payload.at = w.at
    [] w.type = "logs" -> ValidLog(w, w.payload)
    [] Single(w) -> TakesMetadata(w.payload.name, w.payload.plugin, w.payload.meta) /\ w.payload.at = w.at
    [] OTHER -> ValidEvents(w, w.payload)

LogDocument(e) == [at |-> e.at, level |-> e.level, service |-> e.service, module |-> e.module,
                   message |-> e.message, fields |-> Restrict(e.fields, DOMAIN e.fields \ Core)]
EventDocument(i) == [at |-> i.ms, name |-> i.name, plugin |-> i.target, meta |-> MetadataFromBatch(i.dimension)]

Documents(w) ==
  CASE w.type = "logs" /\ Single(w) -> <<LogDocument(w.payload)>>
    [] w.type = "logs" -> [i \in DOMAIN w.payload.data |-> LogDocument(w.payload.data[i])]
    [] Single(w) -> <<w.payload>>
    [] OTHER -> [i \in DOMAIN w.payload.data |-> EventDocument(w.payload.data[i])]

\* As it would be if every item took the identity of its record.
SameIds(docs) == [i \in DOMAIN docs |-> [id |-> 0, date |-> Day(docs[i].at), doc |-> docs[i]]]

\* One write keeps the record's identity, several are numbered.
WriteItems(docs) == [i \in DOMAIN docs |-> [id |-> IF Len(docs) > 1 THEN i ELSE 0, date |-> Day(docs[i].at), doc |-> docs[i]]]

Rejected(code) == out' = [st |-> "rejected", code |-> code] /\ UNCHANGED <<now, ahead, sent, wire>>

\* Decode, then Transform: the first objection is permanent, and the whole record goes.
Consume ==
  /\ out.st = "kafka"
  /\ IF wire.at > now + DecodeSkew THEN Rejected("timestamp_too_far_future")
     ELSE IF ~ValidPayload(wire) THEN Rejected("invalid_payload")
     ELSE IF \E d \in Range(Documents(wire)) : ExpiredTimestamp(d.at) THEN Rejected("retention_expired")
     ELSE out' = [st |-> "stored", items |-> WriteItems(Documents(wire))] /\ UNCHANGED <<now, ahead, sent, wire>>

Tick == now < MaxTime /\ out.st \in {"idle", "kafka"} /\ now' = now + 1 /\ UNCHANGED <<ahead, sent, wire, out>>

Pairs == {<<Event(r, "redis-exporter", t), Event(r, "redis-exporter", u)>> :
            r \in {x \in Reports : x[1] \in Transitions}, t \in 1 .. Monitor, u \in {Monitor - 1, Monitor}}
Next ==
  \/ \E l \in Lines : IngestLog(l) \/ IngestFlat(l)
  \/ \E r \in Reports, p \in {"redis-exporter", "node-exporter"} :
       RecordEvent(Event(r, p, Monitor)) \/ RecordLegacy(Event(r, p, Monitor))
  \/ \E es \in Pairs : SendBatch(es)
  \/ Consume \/ Tick

Spec == Init /\ [][Next]_vars

-----------------------------------------------------------------------------
(* Properties                                                               *)

\* The state is well formed.
TypeOK == /\ now \in Start .. MaxTime /\ ahead \in Ahead
          /\ out.st \in {"idle", "kafka", "refused by monitor", "rejected", "stored"}
          /\ (out.st = "idle") = (sent = <<>>)

Meant(o) == IF wire.type = "logs" THEN LogDocument(o) ELSE IF Single(wire) THEN o ELSE [o EXCEPT !.at = Ms(@)]

\* Whatever Monitor took is stored as it was written, to the millisecond for events, each
\* observation under an identity and a day of its own; a record that was rejected was too
\* old, was written when the clocks were further apart than the Marshaller allows, or bears
\* a time before the first second or millisecond of the epoch.
TakenIsStored ==
  /\ out.st = "stored" => /\ Len(out.items) = Len(sent)
                          /\ Cardinality({<<i.id, i.date>> : i \in Range(out.items)}) = Len(out.items)
                          /\ \A n \in DOMAIN sent :
                               /\ out.items[n].doc = Meant(sent[n])
                               /\ out.items[n].date = Day(sent[n].at)
  /\ out.st = "rejected" =>
       \/ out.code = "retention_expired" /\ \E o \in Range(sent) : Day(o.at) + RetentionDays <= Day(now)
       \/ out.code = "timestamp_too_far_future" /\ ahead + (IF wire.type = "logs" THEN LogSkew ELSE 0) > DecodeSkew
       \/ out.code = "invalid_payload" /\ \E o \in Range(sent) : Unix(o.at) = 0

\* Nothing outlives its day: what is stored is young enough to be kept that day.
StoredIsYoung == out.st = "stored" => \A i \in Range(out.items) : i.date + RetentionDays > Day(now)

\* The only reports of the plugin runtime and the collector that Monitor's own contract
\* drops are those of the node exporter, which it does not list.
OnlyNodeIsDropped ==
  out.st = "refused by monitor" /\ "plugin" \in DOMAIN sent[1] => sent[1].plugin = "node-exporter"
===============================================================================
