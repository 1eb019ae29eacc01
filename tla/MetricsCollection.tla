-------------------------- MODULE MetricsCollection --------------------------
(***************************************************************************)
(* The collector of one exporter: rounds of scraping and publishing, what  *)
(* they write in the plugin's status, and the two kinds of episodes (a     *)
(* failing collection, an unavailable target) that are reported as events  *)
(* when they begin and when they end.  The plugin runtime enables it when  *)
(* a process runs and disables it before the process is stopped; disabling *)
(* cancels the round and waits for it, at most a given time.               *)
(***************************************************************************)
EXTENDS Naturals, Sequences, FiniteSets

CONSTANTS MaxRounds,   \* bound: rounds of collection
          MaxEnables   \* bound: times the collector is enabled

VARIABLES
  on,          \* cancel # nil: a run goroutine exists
  cancelled,   \* its context is cancelled
  round,       \* the round: "none", "fetch", "publish" or "report", with results
  failureActive, targetUnavailable,
  caller,      \* the runtime: "idle", "disabling", or "enabling" (waits for ever)
  process,     \* what the runtime believes: "running" or "stopped"
  error,       \* the plugin status: the last error, "none" when the last round was good
  events,      \* events recorded since the collector was enabled
  late,        \* a Disable has given up, and none has succeeded since
  stamp,       \* number of the enabling whose round wrote the status last
  count        \* rounds and enables so far

vars == <<on, cancelled, round, failureActive, targetUnavailable, caller,
          process, error, events, late, stamp, count>>

NoRound == [at |-> "none", result |-> "none"]
Errors == {"timeout", "network", "http", "content", "too_large", "parse", "contract"}

-----------------------------------------------------------------------------
(* What a response is worth.  A sample is <<name, kind, labelled, value>>.  *)

Responses == [http : {200, 404, 503},
              samples : {<<>>,
                         <<[up |-> TRUE, value |-> 1]>>,
                         <<[up |-> TRUE, value |-> 0]>>,
                         <<[up |-> TRUE, value |-> 1], [up |-> FALSE, value |-> 7]>>,
                         <<[up |-> TRUE, value |-> 0], [up |-> FALSE, value |-> 7]>>,
                         <<[up |-> TRUE, value |-> 1], [up |-> TRUE, value |-> 1]>>},
              wellFormed : BOOLEAN]

Ups(r) == {i \in DOMAIN r.samples : r.samples[i].up}

\* parseSource: 200 with exactly one up gauge of value 1, or 503 with nothing but
\* one up gauge of value 0; anything else is an error.
Parse(r) ==
  IF r.http \notin {200, 503} THEN "http"
  ELSE IF ~r.wellFormed THEN "parse"
  ELSE IF r.http = 503 /\ Len(r.samples) # 1 THEN "contract"
  ELSE IF Cardinality(Ups(r)) # 1
          \/ \E i \in Ups(r) : r.samples[i].value # IF r.http = 200 THEN 1 ELSE 0
       THEN "contract"
  ELSE IF r.http = 200 THEN "success" ELSE "target_unavailable"

-----------------------------------------------------------------------------
Init ==
  /\ on = FALSE /\ cancelled = FALSE /\ round = NoRound
  /\ failureActive = FALSE /\ targetUnavailable = FALSE
  /\ caller = "idle" /\ process = "stopped" /\ error = "none" /\ events = <<>>
  /\ late = FALSE /\ stamp = 0 /\ count = [rounds |-> 0, enables |-> 0]

\* The runtime observes a new process, after a stop, or when an operation restores
\* the plugin after a stop that failed.  Enable first disables without a deadline.
Observe ==
  /\ caller = "idle" /\ count.enables < MaxEnables
  /\ process = "stopped" \/ late
  /\ caller' = "enabling" /\ process' = "running" /\ error' = "none"
  /\ cancelled' = on
  /\ UNCHANGED <<on, round, failureActive, targetUnavailable, events, late, stamp, count>>

\* The rest of Enable, once the goroutine of the previous run has ended.
Enable ==
  /\ caller = "enabling" /\ ~on
  /\ on' = TRUE /\ cancelled' = FALSE /\ caller' = "idle"
  /\ failureActive' = FALSE /\ targetUnavailable' = FALSE
  /\ events' = <<>>
  /\ round' = [NoRound EXCEPT !.at = "fetch"]
  /\ count' = [rounds |-> count.rounds + 1, enables |-> count.enables + 1]
  /\ UNCHANGED <<process, error, late, stamp>>

\* The runtime stops the process, or has seen it exit: Disable cancels first.
Disable ==
  /\ caller = "idle" /\ process = "running"
  /\ caller' = "disabling" /\ cancelled' = on
  /\ UNCHANGED <<on, round, failureActive, targetUnavailable, process, error,
                 events, late, stamp, count>>

\* As it would be without waiting for the run.
DisabledAtOnce ==
  /\ caller = "disabling"
  /\ caller' = "idle" /\ process' = "stopped" /\ error' = "none" /\ late' = FALSE
  /\ UNCHANGED <<on, cancelled, round, failureActive, targetUnavailable, events,
                 stamp, count>>

\* Disable returns because the run has ended; the process may be stopped now.
Disabled ==
  /\ caller = "disabling" /\ ~on
  /\ caller' = "idle" /\ process' = "stopped" /\ error' = "none" /\ late' = FALSE
  /\ UNCHANGED <<on, cancelled, round, failureActive, targetUnavailable, events,
                 stamp, count>>

\* Disable gives up: the operation fails, the run stays cancelled.
DisableTimesOut ==
  /\ caller = "disabling" /\ on
  /\ caller' = "idle" /\ late' = TRUE
  /\ UNCHANGED <<on, cancelled, round, failureActive, targetUnavailable, process,
                 error, events, stamp, count>>

\* run: the ticker starts a round, unless the context is done.
Tick ==
  /\ on /\ ~cancelled /\ round.at = "none" /\ count.rounds < MaxRounds
  /\ round' = [NoRound EXCEPT !.at = "fetch"]
  /\ count' = [count EXCEPT !.rounds = @ + 1]
  /\ UNCHANGED <<on, cancelled, failureActive, targetUnavailable, caller, process,
                 error, events, late, stamp>>

\* run returns when its context is done and no round is under way.
RunEnds ==
  /\ on /\ cancelled /\ round.at = "none"
  /\ on' = FALSE /\ cancelled' = FALSE
  /\ UNCHANGED <<round, failureActive, targetUnavailable, caller, process, error,
                 events, late, stamp, count>>

Update(code) == error' = code /\ stamp' = count.enables

RecordCollectionFailure ==
  /\ failureActive' = TRUE
  /\ events' = IF failureActive THEN events ELSE Append(events, "collection_failed")
  /\ UNCHANGED targetUnavailable

\* What is reported of a published round: first the end of a failing episode, then
\* what has become of the target.
Told(status) ==
  LET ended == IF failureActive THEN Append(events, "collection_recovered") ELSE events IN
  CASE status = "target_unavailable" /\ ~targetUnavailable ->
         Append(ended, "target_unavailable")
    [] status = "success" /\ targetUnavailable -> Append(ended, "target_recovered")
    [] OTHER -> ended

\* As it would be if the state followed the kind that failed last.
RecordPublishedOnce(status) ==
  /\ failureActive' = FALSE
  /\ targetUnavailable' = (targetUnavailable \/ status = "target_unavailable")
  /\ events' = Told(status)

RecordPublished(status) ==
  /\ failureActive' = FALSE
  /\ targetUnavailable' = (status = "target_unavailable")
  /\ events' = Told(status)

Unrecorded == UNCHANGED <<failureActive, targetUnavailable, events, error, stamp>>

\* As it would be if a cancelled request were made again.
TryAgain == UNCHANGED round /\ Unrecorded

\* scrape returns: the context is done.
Drop == round' = NoRound /\ Unrecorded

\* fetch and parse: the answer to a request that was made before a cancellation
\* may still arrive, and is then dropped.
Fetch ==
  /\ round.at = "fetch"
  /\ \E result \in {Parse(r) : r \in Responses} \cup Errors :
       IF cancelled THEN Drop
       ELSE IF result \in {"success", "target_unavailable"}
         THEN round' = [at |-> "publish", result |-> result] /\ Unrecorded
         ELSE round' = NoRound /\ Update(result) /\ RecordCollectionFailure
  /\ UNCHANGED <<on, cancelled, caller, process, late, count>>

\* Publish hands the message to the spool.  An error of a cancelled round is
\* dropped; a message that went through counts even then.
Publish ==
  /\ round.at = "publish"
  /\ \/ /\ round' = [round EXCEPT !.at = "report"] /\ Unrecorded
     \/ /\ round' = NoRound
        /\ IF cancelled THEN Unrecorded
           ELSE Update("publish_failed") /\ RecordCollectionFailure
  /\ UNCHANGED <<on, cancelled, caller, process, late, count>>

Report ==
  /\ round.at = "report"
  /\ Update(IF round.result = "success" THEN "none" ELSE "target_unavailable")
  /\ RecordPublished(round.result)
  /\ round' = NoRound
  /\ UNCHANGED <<on, cancelled, caller, process, late, count>>

Round == Fetch \/ Publish \/ Report
Next == Observe \/ Enable \/ Disable \/ Disabled \/ DisableTimesOut \/ Tick
        \/ RunEnds \/ Round

Spec == Init /\ [][Next]_vars

\* Requests have timeouts, so that a round ends; Enable and Disable return.
Fairness == WF_vars(Round) /\ WF_vars(RunEnds) /\ WF_vars(Enable)

-----------------------------------------------------------------------------
TypeOK ==
  /\ {on, cancelled, failureActive, targetUnavailable, late} \subseteq BOOLEAN
  /\ round \in [at : {"none", "fetch", "publish", "report"},
                result : {"none", "success", "target_unavailable"}]
  /\ caller \in {"idle", "enabling", "disabling"} /\ process \in {"running", "stopped"}
  /\ events \in Seq({"collection_failed", "collection_recovered",
                     "target_unavailable", "target_recovered"})
  /\ count \in [rounds : Nat, enables : Nat] /\ stamp \in Nat
  /\ round.at # "none" => on
  /\ round.at \in {"publish", "report"} => round.result # "none"

\* After the first n events an episode is under way: begin was the last of the two.
UnderWay(s, n, begin, end) ==
  \E i \in 1 .. n : s[i] = begin /\ \A k \in (i + 1) .. n : s[k] \notin {begin, end}

\* An episode begins only when none is under way, and ends only when one is.
InTurn(s, begin, end) ==
  \A i \in DOMAIN s : /\ s[i] = begin => ~UnderWay(s, i - 1, begin, end)
                      /\ s[i] = end => UnderWay(s, i - 1, begin, end)

\* Between one enabling and the next, every episode is reported once when it
\* begins and once when it ends, in turn, whatever the two kinds do to each
\* other and whichever rounds are cancelled.
EpisodesAlternate ==
  /\ InTurn(events, "collection_failed", "collection_recovered")
  /\ InTurn(events, "target_unavailable", "target_recovered")

\* A stopped plugin is left alone: once Disable has succeeded no round of an
\* earlier run writes the status, and a new process never shows the result of
\* a round of the process before it, unless a Disable had given up.
StoppedIsQuiet ==
  /\ process = "stopped" => ~on /\ error = "none"
  /\ (on /\ ~cancelled /\ ~late /\ error # "none") => stamp = count.enables

\* A process that is observed is collected in the end: a round that does not
\* end cannot keep Enable, and with it the plugin's lock, for ever.
EnableReturns == (caller = "enabling") ~> (caller = "idle")
=============================================================================
