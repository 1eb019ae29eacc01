------------------------------ MODULE MCBusiness ------------------------------
(***************************************************************************)
(* Components of the business service, their safety.  Each behaviour belongs to *)
(* one component: `part` says which.  The dispatcher's loop has the         *)
(* variables v1, v2, ..., the others have variables of their own.          *)
(***************************************************************************)
EXTENDS MCEventRetention

CONSTANTS Writers, Clients, Digests, MaxOpen,                 \* those of PostCommands
          MaxCommands, MaxRevision, MaxEpochs, CommandFaults

\* PostCommands: a post starts in revision 1, the environment in epoch 1.
ASSUME CommandsAssumption ==
  /\ MaxOpen \in Nat /\ MaxCommands \in Nat /\ CommandFaults \in Nat
  /\ MaxRevision \in Nat \ {0} /\ MaxEpochs \in Nat \ {0}

CONSTANTS Evaluators, LastFor, MaxGap, LateAge, RuleEdits   \* those of Alerts

\* The "for" and the gap of a rule are lengths of time.
ASSUME AlertsAssumption ==
  LastFor \in Nat /\ MaxGap \in Nat /\ LateAge \in Nat /\ RuleEdits \in Nat

CONSTANTS Readers, MaxActiveKeys, MaxExecutors, MaxWaitersPerKey, MaxRegisteredWaiters,
          WaiterSlots, RebuildSlots, DatabaseSlots, MaxAgain, ReadFaults   \* those of PostReads

\* rebuild.go: a limit that is not positive is replaced by a default.
ASSUME ReadsAssumption ==
  /\ IsFiniteSet(Readers)
  /\ MaxActiveKeys \in Nat \ {0} /\ MaxExecutors \in Nat \ {0}
  /\ MaxWaitersPerKey \in Nat \ {0} /\ MaxRegisteredWaiters \in Nat \ {0}
  /\ WaiterSlots \in Nat /\ RebuildSlots \in Nat /\ DatabaseSlots \in Nat
  /\ MaxAgain \in Nat /\ ReadFaults \in Nat

VARIABLE part   \* the component of this behaviour
VARIABLES v1, v2, v3, v4, v5, v6, v7, v8, v9, v10, v11, v12   \* its variables, in the order of its module
VARIABLES environment, posts, commands, postEvents, openNeeds, openCount,
          legacyRows, writer, answers, commandFaults   \* those of PostCommands
VARIABLES alertRule, alertState, alertLease, nextDue, incident, evaluation,
          applied, ruleEdits   \* those of Alerts
VARIABLES readEnv, current, texts, cached, reader, entry, executors, slots,
          again, readFaults    \* those of PostReads

\* The processes of every component are interchangeable: publishers and readers are
\* named as the replicas are, and Interchangeable is a symmetry of all of them.
Loop == INSTANCE DispatcherLoop WITH
       queue <- v1, worker <- v2, done <- v3, pending <- v4, inFlight <- v5,
       loop <- v6, timer <- v7, nextClaim <- v8, ticked <- v9, lease <- v10,
       late <- v11, luck <- v12, Batch <- 2, Publishers <- Replicas,
       PublishTimeout <- 1, DatabaseTimeout <- 2, PollInterval <- 1,
       Backoff <- 1, Margin <- 1, Luck <- 2
Reads == INSTANCE PostReads WITH
       env <- readEnv, post <- current, cache <- cached, asked <- again,
       faults <- readFaults, MaxFaults <- ReadFaults
Commands == INSTANCE PostCommands WITH
       env <- environment, events <- postEvents, needs <- openNeeds,
       open <- openCount, legacy <- legacyRows, tx <- writer, told <- answers,
       faults <- commandFaults, Txs <- Writers, MaxFaults <- CommandFaults
Rules == INSTANCE Alerts WITH
       rule <- alertRule, state <- alertState, lease <- alertLease, due <- nextDue,
       eval <- evaluation, seen <- applied, edits <- ruleEdits, Replicas <- Evaluators,
       For <- LastFor, Gap <- MaxGap, Late <- LateAge, MaxEdits <- RuleEdits

shared == <<v1, v2, v3, v4, v5, v6, v7, v8, v9, v10, v11, v12>>
commandVars == <<environment, posts, commands, postEvents, openNeeds, openCount,
                 legacyRows, writer, answers, commandFaults>>
alertVars == <<alertRule, alertState, alertLease, nextDue, incident, evaluation,
               applied, ruleEdits>>
readVars == <<readEnv, current, texts, cached, reader, entry, executors, slots,
              again, readFaults>>
allVars == <<vars, part, shared, commandVars, alertVars, readVars>>

Unused == /\ v1 = 0 /\ v2 = 0 /\ v3 = 0 /\ v4 = 0 /\ v5 = 0 /\ v6 = 0
          /\ v7 = 0 /\ v8 = 0 /\ v9 = 0 /\ v10 = 0 /\ v11 = 0 /\ v12 = 0

AllInit ==
  /\ Init /\ Commands!Init /\ Rules!Init /\ Reads!Init
  /\ part = "commands" \/ environment.mode = "v2"
  /\ \/ part \in {"retention", "commands", "alerts", "reads"} /\ Unused
     \/ part = "loop" /\ Loop!Init

AllNext ==
  \/ part = "retention" /\ Next /\ UNCHANGED <<part, shared, commandVars, alertVars, readVars>>
  \/ part = "commands" /\ Commands!Next /\ UNCHANGED <<part, shared, vars, alertVars, readVars>>
  \/ part = "alerts" /\ Rules!Next /\ UNCHANGED <<part, shared, vars, commandVars, readVars>>
  \/ part = "reads" /\ Reads!Next /\ UNCHANGED <<part, shared, vars, commandVars, alertVars>>
  \/ part = "loop" /\ Loop!Next /\ UNCHANGED <<part, vars, commandVars, alertVars, readVars>>

AllSpec == AllInit /\ [][AllNext]_allVars

-----------------------------------------------------------------------------

\* rebuild.go, service.go: a cached body is that of its revision, the slots in use are those
\* of live registrations and tasks, and a post is served as the database holds it.
ReadsSafe ==
  /\ [](Reads!TypeOK /\ Reads!CacheTrue /\ Reads!SlotsBalance)
  /\ [][Reads!ServesCurrent]_allVars

\* repository.go, commands.go: one key makes one post, the events of a post tell its row,
\* the budget counts open requirements, and no event is committed outside its epoch.
CommandsSafe ==
  /\ [](Commands!TypeOK /\ Commands!OncePerKey /\ Commands!EventsTellThePost /\ Commands!OpenExact)
  /\ [][Commands!CommitsInEpoch]_allVars

\* scheduler.go, repository.go: incidents and states agree, and a trigger needs the condition
\* to have lasted, evaluated without a gap, under the revision it was configured with.
AlertsSafe ==
  /\ [](Rules!TypeOK /\ Rules!IncidentAgrees)
  /\ [][Rules!TriggerEarned]_allVars

=============================================================================
