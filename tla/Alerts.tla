------------------------------- MODULE Alerts -------------------------------
(***************************************************************************)
(* One alert rule: evaluations by the schedulers of several replicas under *)
(* a lease in MySQL, the pending time a condition must last, the incident  *)
(* that a trigger opens, and the administrators who edit, disable, enable  *)
(* and delete the rule meanwhile.                                          *)
(*                                                                         *)
(* Times are kept as what is left (lease, next evaluation) or as ages, in  *)
(* units of thirty seconds, the interval of evaluation.  The age of an     *)
(* evaluation is that of its cutoff.  Replicas share MySQL's clock here.   *)
(***************************************************************************)
EXTENDS Integers, Sequences, FiniteSets, FiniteSetsExt, SequencesExt

CONSTANTS Replicas,
          For,        \* time the condition must last
          Gap,        \* longest time between two evaluations of one pending run
          Late,       \* bound: age at which an evaluation has ended
          MaxEdits    \* bound: changes of the rule by administrators

VARIABLES
  rule,      \* alert_rules: revision, enabled, live
  state,     \* alert_rule_states: state, data_status, active (an incident is named),
             \* pending (age of pending_since), last (age of last_evaluated_at)
  lease,     \* owner and what is left of it
  due,       \* time until next_evaluation_at
  incident,  \* the latest incident: none, firing, recovered, closed
  eval,      \* evaluation of each replica: step, revision, age of its cutoff, verdict
  seen,      \* history: applied evaluations of the revision, by the age of their cutoff
  edits

vars == <<rule, state, lease, due, incident, eval, seen, edits>>

Old == For + Gap + Late + 1     \* an age that no comparison tells from a greater one

\* Reduce: no value without a fresh last sample; a counter needs two samples, and one
\* that is below its predecessor began again from zero.
Absent == -1
Increase(points) ==
  FoldLeft(LAMBDA sum, i : sum + IF points[i + 1] < points[i] THEN points[i + 1]
                                 ELSE points[i + 1] - points[i],
           0, [i \in 1..(Len(points) - 1) |-> i])
Reduce(points, fresh, reducer) ==
  IF points = <<>> \/ ~fresh \/ (reducer = "increase" /\ Len(points) < 2) THEN Absent
  ELSE CASE reducer = "last" -> Last(points)
         [] reducer = "min" -> Min(Range(points))
         [] reducer = "max" -> Max(Range(points))
         [] reducer = "increase" -> Increase(points)

\* The condition is value > 0; the source may also fail.
Verdict(value) == IF value = Absent THEN "unknown" ELSE IF value > 0 THEN "true" ELSE "false"
Samples == UNION {[1..n -> 0..1] : n \in 0..2}
Verdicts == {Verdict(Reduce(s, fresh, r)) :
               s \in Samples, fresh \in BOOLEAN, r \in {"last", "min", "max", "increase"}}
NoOne == "no one"
NoEval == [at |-> "idle", rev |-> 0, age |-> 0, verdict |-> "unknown"]
Normal == [is |-> "normal", data |-> "unknown", active |-> FALSE, pending |-> -1, last |-> -1]

\* Mutate, create: the state row is due at once.
Init ==
  /\ rule = [rev |-> 1, enabled |-> TRUE, live |-> TRUE]
  /\ state = Normal
  /\ lease = [owner |-> NoOne, left |-> 0] /\ due = 0
  /\ incident = "none"
  /\ eval = [p \in Replicas |-> NoEval]
  /\ seen = {} /\ edits = 0

-----------------------------------------------------------------------------
Older(age) == IF age \in 0..(Old - 1) THEN age + 1 ELSE age
Less(left) == IF left > 0 THEN left - 1 ELSE 0

\* Time passes; an evaluation that is Late has given up before.
Tick ==
  /\ \A p \in Replicas : eval[p].age < Late
  /\ state' = [state EXCEPT !.pending = Older(@), !.last = Older(@)]
  /\ lease' = [lease EXCEPT !.left = Less(@)]
  /\ due' = Less(due)
  /\ eval' = [p \in Replicas |->
                [eval[p] EXCEPT !.age = IF eval[p].at = "idle" THEN @ ELSE @ + 1]]
  /\ seen' = {[s EXCEPT !.age = @ + 1] : s \in {t \in seen : t.age < Old}}
  /\ UNCHANGED <<rule, incident, edits>>

-----------------------------------------------------------------------------
(* evaluate.                                                                *)

\* As it would be if a rule were taken without looking at its lease.
Unclaimed(p) == TRUE

\* The lease of the row is free; the same condition selects the rules of a round.
Free(p) == lease.left = 0

\* The claim is one conditional update; Get reads the rule after it.
Claim(p) ==
  /\ eval[p].at = "idle"
  /\ rule.live /\ rule.enabled /\ due = 0 /\ Free(p)
  /\ lease' = [owner |-> p, left |-> 1]
  /\ eval' = [eval EXCEPT ![p] = [NoEval EXCEPT !.at = "claimed"]]
  /\ UNCHANGED <<rule, state, due, incident, seen, edits>>

ReadRule(p) ==
  /\ eval[p].at = "claimed"
  /\ eval' = [eval EXCEPT ![p] = IF rule.live THEN [@ EXCEPT !.at = "fetch", !.rev = rule.rev]
                                              ELSE NoEval]
  /\ UNCHANGED <<rule, state, lease, due, incident, seen, edits>>

\* value: a sample that is missing, late or not comparable is unknown, as is an
\* adapter that fails or panics.
Fetch(p) ==
  /\ eval[p].at = "fetch"
  /\ \E v \in Verdicts : eval' = [eval EXCEPT ![p].at = "apply", ![p].verdict = v]
  /\ UNCHANGED <<rule, state, lease, due, incident, seen, edits>>

\* The evaluation's or the round's time is over, MySQL fails, or the replica dies:
\* the lease stays until it runs out.
GiveUp(p) ==
  /\ eval[p].at # "idle"
  /\ eval' = [eval EXCEPT ![p] = NoEval]
  /\ UNCHANGED <<rule, state, lease, due, incident, seen, edits>>

\* As it would be without comparing revisions.
HoldsAnyRevision(p) ==
  /\ rule.live /\ rule.enabled
  /\ lease.owner = p /\ lease.left > 0

\* apply, under the locks of both rows: the lease is still this evaluation's, and
\* the rule is enabled and as it was read.
Holds(p) ==
  /\ rule.live /\ rule.enabled /\ rule.rev = eval[p].rev
  /\ lease.owner = p /\ lease.left > 0

\* As it would be if a gap did not matter.
SinceFirst(age) == IF state.pending < 0 THEN age ELSE state.pending

\* The age of pending_since after a true evaluation: a gap starts the time again.
Since(age) ==
  IF state.pending < 0 \/ state.last < 0 \/ state.last - age > Gap THEN age ELSE state.pending

\* The row that an evaluation leaves, and what becomes of the incident.
Unknown(age) ==
  /\ state' = IF state.is = "firing" THEN [state EXCEPT !.data = "stale", !.last = age]
              ELSE [state EXCEPT !.is = "normal", !.data = "unknown", !.pending = -1, !.last = age]
  /\ UNCHANGED incident

Clear(age) ==
  /\ incident' = IF state.active THEN "recovered" ELSE incident
  /\ state' = [is |-> "normal", data |-> "ok", active |-> FALSE, pending |-> -1, last |-> age]

Condition(age) ==
  IF state.is = "firing"
    THEN /\ state' = [state EXCEPT !.data = "ok", !.last = age]
         /\ UNCHANGED incident
  ELSE IF Since(age) - age >= For
    THEN /\ incident # "firing"          \* the unique key of a rule's firing incident
         /\ incident' = "firing"
         /\ state' = [is |-> "firing", data |-> "ok", active |-> TRUE, pending |-> -1, last |-> age]
    ELSE /\ state' = [state EXCEPT !.is = "pending", !.data = "ok",
                                   !.pending = Since(age), !.last = age]
         /\ UNCHANGED incident

Apply(p) ==
  /\ eval[p].at = "apply" /\ Holds(p)
  /\ CASE eval[p].verdict = "unknown" -> Unknown(eval[p].age)
       [] eval[p].verdict = "false" -> Clear(eval[p].age)
       [] eval[p].verdict = "true" -> Condition(eval[p].age)
  /\ seen' = seen \cup {[age |-> eval[p].age, verdict |-> eval[p].verdict, rev |-> eval[p].rev]}
  /\ lease' = [owner |-> NoOne, left |-> 0] /\ due' = 1
  /\ eval' = [eval EXCEPT ![p] = NoEval]
  /\ UNCHANGED <<rule, edits>>

\* Another owner, a lease that ran out, or another revision: nothing is written.
Refused(p) ==
  /\ eval[p].at = "apply" /\ ~Holds(p)
  /\ eval' = [eval EXCEPT ![p] = NoEval]
  /\ UNCHANGED <<rule, state, lease, due, incident, seen, edits>>

-----------------------------------------------------------------------------
(* Mutate: update, enable, disable and delete, with the expected revision.  *)

\* closeIncident: only an incident that is firing is named.
Closed == IF state.active THEN "closed" ELSE incident

\* As it would be if enabling a rule always began anew.
KeepsNothing == FALSE

\* Enabling a rule that is firing leaves its incident.
KeepsIncident == state.is = "firing"

Mutate(action) ==
  /\ rule.live /\ edits < MaxEdits /\ edits' = edits + 1
  /\ LET enabled == IF action = "update" THEN rule.enabled ELSE action = "enable" IN
       /\ rule' = [rev |-> rule.rev + 1, enabled |-> enabled, live |-> action # "delete"]
       /\ incident' = IF action # "enable" THEN Closed ELSE incident
       /\ state' = IF action = "enable" /\ KeepsIncident THEN state
                   ELSE [Normal EXCEPT !.is = IF enabled THEN "normal" ELSE "disabled"]
  /\ lease' = [owner |-> NoOne, left |-> 0] /\ due' = 0
  /\ seen' = {}
  /\ UNCHANGED eval

Evaluate(p) == Claim(p) \/ ReadRule(p) \/ Fetch(p) \/ Apply(p) \/ Refused(p)

Next ==
  \/ Tick
  \/ \E p \in Replicas : Evaluate(p) \/ GiveUp(p)
  \/ \E a \in {"update", "enable", "disable", "delete"} : Mutate(a)

Spec == Init /\ [][Next]_vars

Claims == \E p \in Replicas : Claim(p)
InTime(p) == lease.owner = p /\ lease.left > 0
Reads == \E p \in Replicas : InTime(p) /\ ReadRule(p)
Fetches == \E p \in Replicas : InTime(p) /\ Fetch(p)
Applies == \E p \in Replicas : Apply(p)
TimedOut == \E p \in Replicas : eval[p].age = Late /\ GiveUp(p)

\* Rounds follow each other, time passes, and an evaluation's time ends; evaluations
\* that fail, or outlive their lease, do not do so for ever.
Fairness == /\ WF_vars(Tick) /\ WF_vars(Claims) /\ WF_vars(TimedOut)
            /\ SF_vars(Reads) /\ SF_vars(Fetches) /\ SF_vars(Applies)
-----------------------------------------------------------------------------
TypeOK ==
  /\ rule \in [rev : 1..(MaxEdits + 1), enabled : BOOLEAN, live : BOOLEAN]
  /\ state \in [is : {"normal", "pending", "firing", "disabled"}, data : {"unknown", "ok", "stale"},
                active : BOOLEAN, pending : -1..Old, last : -1..Old]
  /\ lease \in [owner : Replicas \cup {NoOne}, left : 0..1] /\ due \in 0..1
  /\ incident \in {"none", "firing", "recovered", "closed"}
  /\ eval \in [Replicas -> [at : {"idle", "claimed", "fetch", "apply"}, rev : 0..(MaxEdits + 1),
                            age : 0..Late, verdict : Verdicts]]

\* The rule's state and its incident agree through edits, deletions and evaluations
\* that end late: an incident fires exactly while its rule is live and says so.
IncidentAgrees ==
  /\ (incident = "firing") <=> state.active
  /\ state.active <=> (state.is = "firing")
  /\ state.is = "firing" => rule.live /\ rule.enabled

\* A trigger rests on evaluations of the present revision only, that cover the required
\* time, were all true, and followed each other within the gap.
TriggerEarned ==
  incident # "firing" /\ incident' = "firing" =>
    \E s \in seen' :
      LET run == {t \in seen' : t.rev = rule.rev /\ t.age <= s.age} IN
        /\ s.age - Min({t.age : t \in run}) >= For
        /\ \A t \in run : t.verdict = "true"
        /\ \A t \in run : t # s => \E u \in run : u.age > t.age /\ u.age - t.age <= Gap
TriggerDeserved == [][TriggerEarned]_vars

\* Whoever gives up or dies with the lease, a live and enabled rule is evaluated in the
\* end, or an administrator disables it.
RuleEvaluated ==
  (rule.live /\ rule.enabled /\ due = 0) ~> (due > 0 \/ ~rule.enabled)
=============================================================================
