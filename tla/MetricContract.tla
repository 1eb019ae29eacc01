---------------------------- MODULE MetricContract ----------------------------
(***************************************************************************)
(* A scrape from the exporter's page to the series in the store: Monitor   *)
(* parses the families, checks the samples against the transport contract  *)
(* and groups them into a batch that no longer names their kinds; the      *)
(* Marshaller takes the kind from the name, checks the contract again and  *)
(* writes series and descriptors.  Records of earlier Monitors, which      *)
(* still named kinds and producers, may be in Kafka.                       *)
(*                                                                         *)
(* A value is in halves, so that an odd one is not whole.  A name is the   *)
(* sequence of its parts: <<"x", "_count">> is x_count.                    *)
(***************************************************************************)
EXTENDS Integers, Sequences, FiniteSets, SequencesExt

CONSTANTS Sources,      \* exporters
          MaxSamples,   \* metriccontract.MaxSamples, made small
          MaxFamilies   \* bound: families of a page beside the one named up

VARIABLES sent,   \* what the page said: status and samples
          wire,   \* the record in Kafka
          out     \* its fate

vars == <<sent, wire, out>>

None == "none"
Nothing == [source |-> None]
Init == sent = Nothing /\ wire = Nothing /\ out = [st |-> "idle"]

-----------------------------------------------------------------------------
(* metriccontract                                                           *)

\* le and quantile are 0 where the label is missing; le 9 is +Inf.
Plain == [le |-> 0, quantile |-> 0, db |-> "0"]
Sample(name, kind, labels, value) == [name |-> name, kind |-> kind, labels |-> labels, value |-> value]
Whole(v) == v % 2 = 0
Suffix(name) == Last(name)

ValidateSample(s) ==
  /\ s.kind \in {"gauge", "counter"} /\ (s.kind = "counter" => s.value >= 0)
  /\ s.labels.quantile \in 0 .. 2
  /\ Suffix(s.name) = "_bucket" => s.labels.le # 0 /\ s.kind = "counter" /\ Whole(s.value)

\* The other series of the same summary or histogram.
Without(labels) == [labels EXCEPT !.le = 0, !.quantile = 0]
Companion(samples, stem, suffix, labels) ==
  {s \in samples : s.name = Append(stem, suffix) /\ s.labels = labels}
CountOf(samples, stem, labels) ==
  {s \in Companion(samples, stem, "_count", labels) : s.kind = "counter" /\ Whole(s.value)}

ValidateSummaries(samples) ==
  \A s \in {x \in samples : x.labels.quantile # 0} :
    LET rest == [s.labels EXCEPT !.quantile = 0]
    IN s.kind = "gauge" /\ CountOf(samples, s.name, rest) # {} /\ Companion(samples, s.name, "_sum", rest) # {}

ValidateBuckets(samples) ==
  LET buckets == {x \in samples : Suffix(x.name) = "_bucket"} IN
  \A s \in buckets :
    LET stem == Front(s.name)
        rest == [s.labels EXCEPT !.le = 0]
        group == {b \in buckets : b.name = s.name /\ [b.labels EXCEPT !.le = 0] = rest}
    IN /\ Companion(samples, stem, "_sum", rest) # {}
       /\ \E c \in CountOf(samples, stem, rest) : \E b \in group : b.labels.le = 9 /\ b.value = c.value
       /\ \A b, d \in group : b.labels.le < d.labels.le => b.value <= d.value

\* Of a set of samples; that none came twice is for Unique to say.
Validate(samples) ==
  /\ samples # {} /\ Cardinality(samples) <= MaxSamples
  /\ \A s \in samples : ValidateSample(s)
  /\ \A s, t \in samples : s.name = t.name => s.kind = t.kind /\ (s.labels = t.labels => s = t)
  /\ ValidateSummaries(samples) /\ ValidateBuckets(samples)
Unique(samples) == Cardinality(Range(samples)) = Len(samples)
Valid(samples) == Unique(samples) /\ Validate(Range(samples))

-----------------------------------------------------------------------------
(* Monitor                                                                  *)

\* parseExposition: a family of the page, as samples.
Expand(f) ==
  LET count == Sample(Append(f.name, "_count"), "counter", Plain, 4)
      sum == Sample(Append(f.name, "_sum"), "gauge", Plain, f.value)
      bucket(le, v) == Sample(Append(f.name, "_bucket"), "counter", [Plain EXCEPT !.le = le], v)
  IN CASE f.type = "counter" -> <<Sample(f.name, "counter", Plain, f.value)>>
       [] f.type \in {"gauge", "untyped"} -> <<Sample(f.name, "gauge", Plain, f.value)>>
       [] f.type = "histogram" -> <<bucket(1, 2), bucket(9, 4), count, sum>>
       [] f.type = "summary" -> <<Sample(f.name, "gauge", [Plain EXCEPT !.quantile = 1], f.value), count, sum>>

Page(families) == FlattenSeq([i \in DOMAIN families |-> Expand(families[i])])

Up == <<"up">>
UpSample(value) == Sample(Up, "gauge", Plain, value)
UpFamily(value) == [name |-> Up, type |-> "gauge", value |-> value]

\* parseSource: 200 is up, 503 says that the target is down and nothing else.
Agrees(status, samples) ==
  /\ status = "target_unavailable" => Len(samples) = 1
  /\ SelectSeq(samples, LAMBDA s : s.name = Up) = <<UpSample(IF status = "success" THEN 2 ELSE 0)>>

\* NewSource: one item for each set of labels, kinds are left out.
Batch(samples) ==
  LET item(labels) == [dimension |-> labels,
                       metrics |-> {[name |-> s.name, value |-> s.value] : s \in {x \in Range(samples) : x.labels = labels}}]
  IN {item(s.labels) : s \in Range(samples)}

Record(schema, source, payload) == [schema |-> schema, source |-> source, payload |-> payload]

Scrape(source, status, families) ==
  LET samples == Page(families) IN
  /\ sent' = [source |-> source, status |-> status, samples |-> samples]
  /\ IF Valid(samples) /\ Agrees(status, samples)
       THEN wire' = Record(2, source, [shape |-> "batch", data |-> Batch(samples)]) /\ out' = [st |-> "kafka"]
       ELSE out' = [st |-> "refused by monitor"] /\ UNCHANGED wire

\* Before the batch: identity by plugin (schema 1, redis only) or by producer.
SendLegacy(schema, producer, source, status, families) ==
  LET samples == Page(families)
      target == IF producer = "component" THEN "own target" ELSE "exporter-local"
  IN /\ sent' = [source |-> source, status |-> status, samples |-> samples]
     /\ wire' = Record(schema, source, [shape |-> "samples", producer |-> producer, target |-> target,
                                        status |-> status, samples |-> samples])
     /\ out' = [st |-> "kafka"]

-----------------------------------------------------------------------------
(* The Marshaller                                                           *)

MetricKind(name) == IF Suffix(name) \in {"_total", "_count", "_bucket"} THEN "counter" ELSE "gauge"

\* As it would be if a summary's or histogram's count were not thought of.
MetricKindTotal(name) == IF Suffix(name) = "_total" THEN "counter" ELSE "gauge"

\* validateMetricsPayload: the samples of a batch.
Samples(data) ==
  UNION {{Sample(m.name, MetricKind(m.name), i.dimension, m.value) : m \in i.metrics} :
         i \in data}

\* As it would be if the producer's name were taken from the record where it is set.
IdentityOf(w) ==
  [source |-> w.source,
   target |-> IF w.payload.shape = "batch" THEN "exporter-local" ELSE w.payload.target,
   producer |-> IF w.payload.shape = "batch" THEN "exporter_plugin" ELSE w.payload.producer]

\* identityFor, writeIdentityLabels: redis was there before producers had names.
Identity(w) ==
  [source |-> w.source,
   target |-> IF w.payload.shape = "batch" THEN "exporter-local" ELSE w.payload.target,
   producer |-> IF w.source = "redis" THEN None
                ELSE IF w.payload.shape = "batch" \/ w.payload.producer = "plugin" THEN "exporter_plugin"
                ELSE w.payload.producer]

\* validateTransport
LegacyFits(p) ==
  /\ Valid(p.samples)
  /\ IF p.producer = "component" THEN p.status = "success" ELSE Agrees(p.status, p.samples)

Accepts(w) == IF w.payload.shape = "batch" THEN Validate(Samples(w.payload.data)) ELSE LegacyFits(w.payload)
Written(w) == IF w.payload.shape = "batch" THEN Samples(w.payload.data) ELSE Range(w.payload.samples)

\* Transform: one series per sample, one descriptor per metric.
Consume ==
  /\ out.st = "kafka"
  /\ out' = IF Accepts(wire)
              THEN [st |-> "stored", identity |-> Identity(wire),
                    series |-> {[name |-> s.name, labels |-> s.labels, value |-> s.value] : s \in Written(wire)},
                    descriptors |-> {[name |-> s.name, kind |-> s.kind] : s \in Written(wire)}]
              ELSE [st |-> "rejected"]
  /\ UNCHANGED <<sent, wire>>

-----------------------------------------------------------------------------
Menu == [name : {<<"x">>, <<"x", "_count">>, <<"x", "_total">>, <<"x", "_sum">>, <<"x", "_bucket">>},
         type : {"counter", "gauge", "untyped", "histogram", "summary"}, value : {-2, 3}]
Pages == {<<UpFamily(v)>> \o fs : v \in {0, 2}, fs \in UNION {[1 .. n -> Menu] : n \in 0 .. MaxFamilies}}

\* Pages that the Monitor of an earlier version, or a component, would have sent on.
GoodPages(producer, status) ==
  {p \in Pages : Valid(Page(p)) /\ (producer = "component" \/ Agrees(status, Page(p)))}

Send ==
  \/ \E source \in Sources, status \in {"success", "target_unavailable"}, families \in Pages :
       Scrape(source, status, families)
  \/ \E producer \in {"plugin", "exporter_plugin"}, source \in Sources, status \in {"success", "target_unavailable"} :
       \E families \in GoodPages(producer, status) : SendLegacy(2, producer, source, status, families)
  \/ \E families \in GoodPages("plugin", "success") : SendLegacy(1, "plugin", "redis", "success", families)
  \/ \E families \in GoodPages("component", "success") : SendLegacy(2, "component", "mysql", "success", families)

Next == (out.st = "idle" /\ Send) \/ Consume

Spec == Init /\ [][Next]_vars

-----------------------------------------------------------------------------
(* Properties                                                               *)

TypeOK == /\ out.st \in {"idle", "kafka", "refused by monitor", "stored", "rejected"}
          /\ (out.st = "idle") = (sent = Nothing)

\* Samples whose name does not tell their kind.
Misnamed(samples) ==
  {s \in Range(samples) : (s.kind = "counter") # (Suffix(s.name) \in {"_total", "_count", "_bucket"})}

\* What Monitor sends is stored: the same series with the same values, and exactly one
\* descriptor for each metric.  A kind that the name does not tell is turned into the one
\* the name tells (a gauge called *_count, a counter without a suffix), and only a page
\* with such a name can be rejected by the Marshaller after Monitor accepted it.
ScrapesAreKept ==
  /\ out.st = "stored" =>
       /\ out.series = {[name |-> s.name, labels |-> s.labels, value |-> s.value] : s \in Range(sent.samples)}
       /\ Cardinality(out.descriptors) = Cardinality({s.name : s \in Range(sent.samples)})
       /\ \A s \in Range(sent.samples) :
            [name |-> s.name, kind |-> s.kind] \in out.descriptors \/ s \in Misnamed(sent.samples)
  /\ out.st = "rejected" => Misnamed(sent.samples) # {}

\* A series goes on under the same identity whichever version of Monitor sent it, so that a
\* rolling update starts no second series; only a component's own metrics differ.
SeriesGoOn ==
  out.st = "stored" /\ ~(wire.payload.shape = "samples" /\ wire.payload.producer = "component") =>
    out.identity = [source |-> sent.source, target |-> "exporter-local",
                    producer |-> IF sent.source = "redis" THEN None ELSE "exporter_plugin"]
===============================================================================
