---------------------------- MODULE PluginRuntime ----------------------------
(***************************************************************************)
(* The plugin runtime of Monitor, for one plugin: revisions on the volume, *)
(* the commit file active.json, the exporter process and its record, the   *)
(* metrics collector that follows the process, the watcher that notices an *)
(* exit, restarts of Monitor, and the offline import that shares the       *)
(* volume through a lease and a pending marker.                            *)
(*                                                                         *)
(* A process exits, Monitor dies, and a write or a stop fails, between any *)
(* two steps of an operation.  The kernel sends SIGTERM to the exporter    *)
(* when Monitor dies (Pdeathsig); SIGKILL always succeeds.                 *)
(***************************************************************************)
EXTENDS Naturals, FiniteSets

CONSTANTS Versions,      \* release versions of schema 2 in the image catalog
          MaxRevs,       \* bound: revisions written by operations
          MaxProcs,      \* bound: exporter processes started; an operation starts two at most
          MaxRestarts,   \* bound: starts of Monitor
          MaxFaults      \* bound: failed writes, stops and starts, sudden exits

VARIABLES
  active,     \* durable: the revision active.json names, NoRev without the file
  disk,       \* durable: the revisions whose files are complete
  record,     \* durable: the process that runtime/process.json names, 0 if none
  legacy,     \* durable: the entry of a version 1 registry, NoRev if none
  import,     \* durable: "none", "partial" or "whole": what an import left
  pending,    \* durable: the marker of an unfinished import exists
  lease,      \* who holds .operation.lock: "free", "monitor" or "transfer"
  slot,       \* Monitor's memory of the plugin: revision, process, status
  scraping,   \* the collector: "off", "on", or "stopping" (cancelled, running)
  op,         \* the operation that holds the slot's lock
  closed,     \* the manager's shutdown has passed this plugin
  procs,      \* every process started, by number
  tested,     \* the payloads that ran, or that an import brought
  count       \* revisions, processes, restarts and faults so far

vars == <<active, disk, record, legacy, import, pending, lease, slot, scraping,
          op, closed, procs, tested, count>>

NoRev == [id |-> 0, v |-> 0, c |-> 0, desired |-> "stopped"]
Payload(r) == [v |-> r.v, c |-> r.c]
Revs == [id : 0..(MaxRevs + 2), v : Versions \cup {0}, c : 0..(MaxRevs + 2),
         desired : {"running", "stopped"}]

EmptySlot == [active |-> NoRev, proc |-> 0, status |-> "none", blocked |-> FALSE]
Idle == [kind |-> "none", pc |-> "idle", old |-> NoRev, next |-> NoRev,
         rev |-> NoRev, mode |-> "plain", onfail |-> "none", rp |-> 0]
NoProc == [st |-> "none", rev |-> 0, intent |-> FALSE, watched |-> FALSE]

Transactions == {"install", "configure", "update"}
Running(p) == p # 0 /\ procs[p].st \in {"alive", "term"}
Up == lease = "monitor"

LegacyRev == [id |-> MaxRevs + 1, v |-> 0, c |-> MaxRevs + 1, desired |-> "running"]
ImportRev == [id |-> MaxRevs + 2, v |-> 1, c |-> MaxRevs + 2, desired |-> "running"]

Init ==
  /\ active = NoRev /\ disk = {} /\ record = 0 /\ pending = FALSE
  /\ legacy \in {NoRev, LegacyRev}
  /\ import = "none" /\ lease = "free"
  /\ slot = EmptySlot /\ scraping = "off" /\ op = Idle /\ closed = FALSE
  /\ procs = [p \in 1..MaxProcs |-> NoProc]
  /\ tested = {Payload(legacy)}
  /\ count = [revs |-> 0, procs |-> 0, starts |-> 0, faults |-> 0]

Fault == /\ count.faults < MaxFaults
         /\ count' = [count EXCEPT !.faults = @ + 1]

Kill(ps) == [p \in DOMAIN procs |->
               IF p \in ps /\ procs[p].st # "none"
               THEN [procs[p] EXCEPT !.st = "dead", !.intent = TRUE] ELSE procs[p]]

\* As it would be if only the record were removed.
CleanNothing == procs

\* cleanRecord: the process on record is ended; the goroutine that watches it is
\* not told that this was intended.
Clean == [p \in DOMAIN procs |->
            IF p = record THEN [procs[p] EXCEPT !.st = "dead"] ELSE procs[p]]

-----------------------------------------------------------------------------
(* Start of Monitor.                                                        *)

\* newRuntimeCore: the lease, the refusal of an unfinished import, then the
\* committed revision is restored, or the version 1 entry migrated, or an
\* unowned record cleaned.
StartMonitor ==
  /\ lease = "free" /\ ~pending
  /\ count.starts < MaxRestarts /\ count.procs < MaxProcs
  /\ count' = [count EXCEPT !.starts = @ + 1]
  /\ lease' = "monitor"
  /\ slot' = [EmptySlot EXCEPT !.active = active]
  /\ scraping' = "off" /\ closed' = FALSE
  /\ op' = IF active # NoRev
             THEN [Idle EXCEPT !.kind = "boot", !.pc = "restore", !.rev = active,
                               !.mode = "restore", !.onfail = "block"]
           ELSE IF legacy # NoRev
             THEN [Idle EXCEPT !.kind = "migrate", !.pc = "prepare",
                               !.next = legacy, !.onfail = "block"]
           ELSE [Idle EXCEPT !.kind = "clean", !.pc = "restore", !.onfail = "block"]
  /\ UNCHANGED <<active, disk, record, legacy, import, pending, procs, tested>>

-----------------------------------------------------------------------------
(* Requests: each takes the slot's lock.                                    *)

Begin(kind, next, pc) ==
  op' = [Idle EXCEPT !.kind = kind, !.pc = pc, !.old = slot.active, !.next = next]

CanBegin == Up /\ op = Idle /\ ~slot.blocked /\ ~closed /\ count.procs + 2 <= MaxProcs

NewRev(next) == /\ count.revs < MaxRevs
                /\ next.id = count.revs + 1
                /\ count' = [count EXCEPT !.revs = @ + 1]

\* configure(install = TRUE): only when nothing is installed; the current release.
Install ==
  /\ CanBegin /\ slot.active = NoRev
  /\ LET n == [id |-> count.revs + 1, v |-> 1, c |-> count.revs + 1, desired |-> "running"]
     IN NewRev(n) /\ Begin("install", n, "prepare")
  /\ UNCHANGED <<active, disk, record, legacy, import, pending, lease, slot,
                 scraping, closed, procs, tested>>

\* configure(install = FALSE): a schema 1 release must be updated first.
Configure ==
  /\ CanBegin /\ slot.active # NoRev /\ slot.active.v # 0
  /\ LET n == [slot.active EXCEPT !.id = count.revs + 1, !.c = count.revs + 1]
     IN NewRev(n) /\ Begin("configure", n, "prepare")
  /\ UNCHANGED <<active, disk, record, legacy, import, pending, lease, slot,
                 scraping, closed, procs, tested>>

\* update: the uploaded release must be in the catalog and newer.
Update ==
  /\ CanBegin /\ slot.active # NoRev
  /\ \E v \in Versions :
       /\ v > slot.active.v
       /\ LET n == [slot.active EXCEPT !.id = count.revs + 1, !.v = v]
          IN NewRev(n) /\ Begin("update", n, "prepare")
  /\ UNCHANGED <<active, disk, record, legacy, import, pending, lease, slot,
                 scraping, closed, procs, tested>>

\* setDesired with a new desired state writes a revision first.
SetDesired(desired) ==
  /\ CanBegin /\ slot.active # NoRev /\ slot.active.desired # desired
  /\ LET n == [slot.active EXCEPT !.id = count.revs + 1, !.desired = desired]
     IN NewRev(n) /\ Begin(IF desired = "running" THEN "start" ELSE "stop", n, "prepare")
  /\ UNCHANGED <<active, disk, record, legacy, import, pending, lease, slot,
                 scraping, closed, procs, tested>>

\* setDesired with the same desired state: stop again, or start a missing process.
Repeat ==
  /\ CanBegin /\ slot.active # NoRev
  /\ op' = IF slot.active.desired = "stopped"
             THEN [Idle EXCEPT !.kind = "restop", !.pc = "stop", !.old = slot.active]
             ELSE [Idle EXCEPT !.kind = "restart", !.pc = "restore",
                               !.rev = slot.active, !.mode = "restore", !.onfail = "return"]
  /\ slot.active.desired = "stopped" \/ slot.proc = 0
  /\ UNCHANGED <<active, disk, record, legacy, import, pending, lease, slot,
                 scraping, closed, procs, tested, count>>

-----------------------------------------------------------------------------
(* The steps of an operation.                                               *)

\* prepare: the files of the new revision, none of which is the commit.
Prepare ==
  /\ op.pc = "prepare"
  /\ \/ /\ disk' = disk \cup {op.next}
        /\ op' = [op EXCEPT !.pc = IF op.kind \in Transactions THEN "validate"
                                   ELSE IF op.kind = "stop" THEN "stop"
                                   ELSE IF op.kind = "migrate" /\ Running(record)
                                   THEN "clean" ELSE "launch",
                            !.rev = op.next,
                            !.mode = IF op.kind = "start" THEN "plain" ELSE "trial"]
        /\ UNCHANGED <<slot, count>>
     \/ /\ Fault
        /\ op' = Idle
        /\ slot' = IF op.kind = "migrate"
                   THEN [slot EXCEPT !.active = op.next, !.blocked = TRUE, !.status = "failed"]
                   ELSE slot
        /\ UNCHANGED disk
  /\ UNCHANGED <<active, record, legacy, import, pending, lease, scraping, closed,
                 procs, tested>>

\* cleanRecord of a migration: the process an earlier Monitor left is ended.
CleanForMigration ==
  /\ op.pc = "clean"
  /\ procs' = Clean /\ record' = 0
  /\ op' = [op EXCEPT !.pc = "launch"]
  /\ UNCHANGED <<active, disk, legacy, import, pending, lease, slot, scraping,
                 closed, tested, count>>

\* validateCandidate: an exporter that rejects the configuration discards it.
Validate ==
  /\ op.pc = "validate"
  /\ \/ op' = [op EXCEPT !.pc = "stop"] /\ UNCHANGED disk
     \/ op' = Idle /\ disk' = disk \ {op.next}
  /\ UNCHANGED <<active, record, legacy, import, pending, lease, slot, scraping,
                 closed, procs, tested, count>>

AfterStop == IF op.kind \in Transactions THEN [op EXCEPT !.pc = "launch"]
             ELSE IF op.kind = "stop" THEN [op EXCEPT !.pc = "commit"] ELSE Idle
Recover == [op EXCEPT !.pc = "restore", !.rev = active, !.mode = "restore",
                      !.onfail = "status", !.rp = 0]

\* stopProcess: the collector first, then the process, then its record.
Stop ==
  /\ op.pc = "stop" /\ scraping # "stopping"
  /\ scraping' = "off"
  /\ procs' = Kill({slot.proc, record})
  /\ record' = 0
  /\ slot' = [slot EXCEPT !.proc = 0,
                          !.status = IF op.kind = "restop" THEN "stopped" ELSE @]
  /\ op' = AfterStop
  /\ UNCHANGED <<active, disk, legacy, import, pending, lease, closed, tested, count>>

\* stopProcess fails: the collector does not end in time, or the process had to
\* be killed, which is an error too.  A transaction returns at once and leaves
\* slot.process and the status; setDesired reads active.json and restores.
StopFails ==
  /\ op.pc = "stop"
  /\ Fault
  /\ \/ scraping \in {"on", "stopping"} /\ scraping' = "stopping" /\ UNCHANGED procs
     \/ /\ Running(slot.proc) /\ scraping # "stopping"
        /\ scraping' = "off" /\ procs' = Kill({slot.proc})
  /\ op' = IF op.kind = "stop" THEN Recover ELSE Idle
  /\ slot' = IF op.kind = "stop" THEN [slot EXCEPT !.active = active] ELSE slot
  /\ UNCHANGED <<active, disk, record, legacy, import, pending, lease, closed, tested>>

\* startProcess up to the saved record.
Launch ==
  /\ op.pc = "launch"
  /\ LET p == count.procs + 1 IN
       /\ procs' = [procs EXCEPT ![p] = [NoProc EXCEPT !.st = "alive", !.rev = op.rev.id]]
       /\ record' = p
       /\ op' = [op EXCEPT !.rp = p, !.pc = "starting"]
       /\ count' = [count EXCEPT !.procs = p]
  /\ UNCHANGED <<active, disk, legacy, import, pending, lease, slot, scraping,
                 closed, tested>>

\* The health check passes, and for a trial the snapshot is valid.  A trial of a
\* revision that should be stopped ends its process.  observe() follows a restore.
Healthy ==
  /\ op.pc = "starting" /\ procs[op.rp].st = "alive"
  /\ tested' = tested \cup {Payload(op.rev)}
  /\ IF op.mode = "trial" /\ op.rev.desired = "stopped"
       THEN /\ procs' = Kill({op.rp})
            /\ op' = [op EXCEPT !.rp = 0, !.pc = "commit"]
       ELSE /\ op' = [op EXCEPT !.pc = IF op.mode = "restore" THEN "observe" ELSE "commit"]
            /\ UNCHANGED procs
  /\ UNCHANGED <<active, disk, record, legacy, import, pending, lease, slot,
                 scraping, closed, count>>

\* What each caller does with a launch that failed.
FailedLaunch ==
  CASE op.mode = "restore" /\ op.onfail = "block" ->
         /\ slot' = [slot EXCEPT !.blocked = TRUE, !.status = "failed"]
         /\ op' = Idle /\ UNCHANGED disk
    [] op.mode = "restore" /\ op.onfail = "status" ->
         /\ slot' = [slot EXCEPT !.status = "failed"]
         /\ op' = Idle
         /\ disk' = IF op.kind \in Transactions THEN disk \ {op.next} ELSE disk
    [] op.mode = "restore" /\ op.onfail \in {"return", "ignore"} ->
         op' = Idle /\ UNCHANGED <<slot, disk>>
    [] op.kind = "migrate" ->
         /\ slot' = [slot EXCEPT !.active = op.next, !.blocked = TRUE, !.status = "failed"]
         /\ op' = Idle /\ UNCHANGED disk
    [] op.mode # "restore" /\ op.kind \in Transactions /\ op.old = NoRev ->
         op' = Idle /\ disk' = disk \ {op.next} /\ UNCHANGED slot
    [] op.mode # "restore" /\ op.kind \in Transactions /\ op.old # NoRev ->
         op' = [Recover EXCEPT !.rev = op.old] /\ UNCHANGED <<slot, disk>>
    [] op.mode # "restore" /\ op.kind = "start" ->
         op' = Recover /\ slot' = [slot EXCEPT !.active = active] /\ UNCHANGED disk

\* The process exits during startup, is not healthy in time, or its snapshot is
\* refused (the configuration is wrong): it is ended and its record removed.  A
\* revision that ran before fails again only when its process exits.
LaunchFails ==
  /\ op.pc = "starting"
  /\ procs' = Kill({op.rp}) /\ record' = 0
  /\ op.mode = "restore" => procs[op.rp].st # "alive"
  /\ FailedLaunch
  /\ UNCHANGED <<active, legacy, import, pending, lease, scraping, closed, tested, count>>

\* The release is damaged or the process cannot be started.
LaunchRefused ==
  /\ op.pc = "launch" /\ Fault
  /\ FailedLaunch
  /\ UNCHANGED <<active, record, legacy, import, pending, lease, scraping, closed,
                 procs, tested>>

\* commit, then observe() or the status of a stopped plugin.
Commit ==
  /\ op.pc = "commit"
  /\ active' = op.next
  /\ slot' = [slot EXCEPT !.active = op.next,
                          !.status = IF op.rp = 0 THEN "stopped" ELSE @]
  /\ record' = IF op.rp = 0 THEN 0 ELSE record
  /\ op' = IF op.rp = 0 THEN Idle ELSE [op EXCEPT !.pc = "observe"]
  /\ UNCHANGED <<disk, legacy, import, pending, lease, scraping, closed, procs,
                 tested, count>>

\* As it would be if a failed write were taken for one without effect.
ReadBackOld(written) == active

\* What reading active.json again tells.
ReadBack(written) == IF written THEN op.next ELSE active

\* The write of active.json fails, before the rename or after it: the file alone
\* says which.  The new process is ended and what the file names is restored.
CommitFails ==
  /\ op.pc = "commit" /\ Fault
  /\ \E written \in BOOLEAN :
       LET truth == ReadBack(written) IN
         /\ active' = IF written THEN op.next ELSE active
         /\ CASE op.kind = "migrate" ->
                   /\ slot' = [slot EXCEPT !.active = op.next, !.blocked = TRUE,
                                           !.status = "failed"]
                   /\ op' = Idle
              [] op.kind # "migrate" /\ truth = NoRev ->
                   op' = Idle /\ UNCHANGED slot
              [] op.kind # "migrate" /\ truth # NoRev ->
                   /\ slot' = [slot EXCEPT !.active = truth]
                   /\ op' = [op EXCEPT !.pc = "restore", !.rev = truth,
                                       !.mode = "restore", !.rp = 0,
                                       !.onfail = IF op.kind \in Transactions
                                                  THEN "ignore" ELSE "status"]
  /\ procs' = Kill({op.rp})
  /\ UNCHANGED <<disk, record, legacy, import, pending, lease, scraping, closed, tested>>

\* restore: clean the record, then stay stopped or launch.  discardCandidates
\* follows a restore at start.
Restore ==
  /\ op.pc = "restore"
  /\ procs' = Clean /\ record' = 0
  /\ IF op.kind # "clean" /\ op.rev.desired = "running"
       THEN /\ op' = [op EXCEPT !.pc = "launch"]
            /\ UNCHANGED <<slot, disk>>
       ELSE /\ op' = Idle
            /\ slot' = [slot EXCEPT !.status = IF op.kind = "clean" THEN @ ELSE "stopped"]
            /\ disk' = IF op.kind \in {"boot", "clean"} THEN disk \cap {active}
                       ELSE IF op.kind \in Transactions /\ op.onfail = "status"
                       THEN disk \ {op.next} ELSE disk
  /\ UNCHANGED <<active, legacy, import, pending, lease, scraping, closed, tested, count>>

\* observe: Enable waits until the collector's last round has ended.
Observe ==
  /\ op.pc = "observe" /\ scraping # "stopping"
  /\ slot' = [slot EXCEPT !.proc = op.rp, !.status = "running"]
  /\ procs' = [procs EXCEPT ![op.rp].watched = TRUE]
  /\ scraping' = "on"
  /\ disk' = IF op.kind \in {"boot", "migrate"} THEN disk \cap {active}
             ELSE IF op.mode = "restore" /\ op.onfail = "status" /\ op.kind \in Transactions
             THEN disk \ {op.next} ELSE disk
  /\ op' = Idle
  /\ UNCHANGED <<active, record, legacy, import, pending, lease, closed, tested, count>>

-----------------------------------------------------------------------------
(* What runs beside the operations.                                         *)

ScrapeEnds ==
  /\ scraping = "stopping" /\ scraping' = "off"
  /\ UNCHANGED <<active, disk, record, legacy, import, pending, lease, slot, op,
                 closed, procs, tested, count>>

\* A process exits by itself, or on the SIGTERM that followed Monitor's death.
Exit(p) ==
  /\ \/ procs[p].st = "term" /\ UNCHANGED count
     \/ procs[p].st = "alive" /\ Fault
  /\ procs' = [procs EXCEPT ![p].st = "dead"]
  /\ UNCHANGED <<active, disk, record, legacy, import, pending, lease, slot,
                 scraping, op, closed, tested>>

\* As it would be if the exit were dropped while an operation holds the lock.
WatchWithoutLock(p) ==
  /\ Up /\ procs[p].st = "dead" /\ procs[p].watched
  /\ procs' = [procs EXCEPT ![p].watched = FALSE]
  /\ IF ~procs[p].intent /\ slot.proc = p /\ op = Idle
       THEN /\ slot' = [slot EXCEPT !.proc = 0, !.status = "failed"]
            /\ scraping' = IF scraping = "on" THEN "off" ELSE scraping
       ELSE UNCHANGED <<slot, scraping>>
  /\ UNCHANGED <<active, disk, record, legacy, import, pending, lease, op, closed,
                 tested, count>>

\* The goroutine of observe: unless the exit was intended, and if the slot still
\* holds this process, it is forgotten, and reported as failed.
Watch(p) ==
  /\ Up /\ op = Idle
  /\ procs[p].st = "dead" /\ procs[p].watched
  /\ procs' = [procs EXCEPT ![p].watched = FALSE]
  /\ IF ~procs[p].intent /\ slot.proc = p
       THEN /\ slot' = [slot EXCEPT !.proc = 0, !.status = "failed"]
            /\ scraping' = IF scraping = "on" THEN "off" ELSE scraping
       ELSE UNCHANGED <<slot, scraping>>
  /\ UNCHANGED <<active, disk, record, legacy, import, pending, lease, op, closed,
                 tested, count>>

Watchers == \E p \in 1..MaxProcs : Watch(p)

\* shutdown of the plugin: after the HTTP server has drained its handlers.
Shutdown ==
  /\ Up /\ op = Idle /\ ~closed /\ ~slot.blocked /\ scraping # "stopping"
  /\ closed' = TRUE
  /\ scraping' = "off"
  /\ procs' = Kill({slot.proc, record}) /\ record' = 0
  /\ slot' = [slot EXCEPT !.proc = 0]
  /\ UNCHANGED <<active, disk, legacy, import, pending, lease, op, tested, count>>

\* Monitor ends, in order or not: memory, the lease and the goroutines go, and
\* the exporter receives SIGTERM.
MonitorEnds ==
  /\ Up
  /\ lease' = "free"
  /\ slot' = EmptySlot /\ op' = Idle /\ scraping' = "off" /\ closed' = FALSE
  /\ procs' = [p \in DOMAIN procs |->
                 [procs[p] EXCEPT !.st = IF @ = "alive" THEN "term" ELSE @,
                                  !.watched = FALSE, !.intent = FALSE]]
  /\ UNCHANGED <<active, disk, record, legacy, import, pending, tested, count>>

-----------------------------------------------------------------------------
(* importPortable: offline, under the lease, into an empty root.            *)

ImportBegin ==
  /\ lease = "free" /\ ~pending /\ import = "none"
  /\ active = NoRev /\ disk = {} /\ record = 0 /\ legacy = NoRev
  /\ lease' = "transfer" /\ pending' = TRUE /\ import' = "partial"
  /\ UNCHANGED <<active, disk, record, legacy, slot, scraping, op, closed, procs,
                 tested, count>>

\* As it would be with the commit before the files.
ImportWriteSwapped ==
  /\ lease = "transfer" /\ pending /\ import = "partial"
  /\ IF active = NoRev
     THEN active' = ImportRev /\ tested' = tested \cup {Payload(ImportRev)} /\ UNCHANGED disk
     ELSE disk = {} /\ disk' = {ImportRev} /\ UNCHANGED <<active, tested>>
  /\ UNCHANGED <<record, legacy, import, pending, lease, slot, scraping, op, closed,
                 procs, count>>

\* prepare, then commit, of this plugin among those of the export.
ImportWrite ==
  /\ lease = "transfer" /\ pending /\ import = "partial"
  /\ IF disk = {} THEN disk' = {ImportRev} /\ UNCHANGED <<active, tested>>
     ELSE /\ active = NoRev /\ active' = ImportRev
          /\ tested' = tested \cup {Payload(ImportRev)} /\ UNCHANGED disk
  /\ UNCHANGED <<record, legacy, import, pending, lease, slot, scraping, op, closed,
                 procs, count>>

\* Every plugin is committed: the marker goes, and the lease with the process.
ImportEnd ==
  /\ lease = "transfer" /\ pending /\ active # NoRev
  /\ import' = "whole" /\ pending' = FALSE /\ lease' = "free"
  /\ UNCHANGED <<active, disk, record, legacy, slot, scraping, op, closed, procs,
                 tested, count>>

\* As it would be if the marker were removed whatever the cleanup says.
ImportFailsClearing ==
  /\ lease = "transfer" /\ pending
  /\ Fault
  /\ lease' = "free" /\ pending' = FALSE
  /\ \/ active' = NoRev /\ disk' = {} /\ import' = "none"
     \/ UNCHANGED <<active, disk, import>>
  /\ UNCHANGED <<record, legacy, slot, scraping, op, closed, procs, tested>>

\* A step fails: what was written is removed, and the marker only if all of it is.
ImportFails ==
  /\ lease = "transfer" /\ pending
  /\ Fault
  /\ lease' = "free"
  /\ \/ active' = NoRev /\ disk' = {} /\ pending' = FALSE /\ import' = "none"
     \/ \* the cleanup fails, or the process dies: the marker stays
        UNCHANGED <<active, disk, pending, import>>
  /\ UNCHANGED <<record, legacy, slot, scraping, op, closed, procs, tested>>

-----------------------------------------------------------------------------
Step == \/ Prepare \/ CleanForMigration \/ Validate \/ Stop \/ StopFails
        \/ Launch \/ Healthy \/ LaunchFails \/ LaunchRefused
        \/ Commit \/ CommitFails \/ Restore \/ Observe

Next == \/ StartMonitor \/ Install \/ Configure \/ Update
        \/ \E d \in {"running", "stopped"} : SetDesired(d)
        \/ Repeat \/ Step
        \/ ScrapeEnds \/ Shutdown \/ MonitorEnds
        \/ \E p \in 1..MaxProcs : Exit(p)
        \/ Watchers
        \/ ImportBegin \/ ImportWrite \/ ImportEnd \/ ImportFails

Spec == Init /\ [][Next]_vars

\* Operations run under deadlines, the watcher is a goroutine that waits for the
\* lock, and a cancelled collection round ends.
Fairness == WF_vars(Step) /\ WF_vars(ScrapeEnds)
            /\ WF_vars(Watchers)

-----------------------------------------------------------------------------
TypeOK ==
  /\ active \in Revs /\ disk \subseteq Revs /\ legacy \in Revs
  /\ record \in 0..MaxProcs
  /\ import \in {"none", "partial", "whole"} /\ pending \in BOOLEAN
  /\ lease \in {"free", "monitor", "transfer"}
  /\ slot \in [active : Revs, proc : 0..MaxProcs,
               status : {"none", "running", "stopped", "failed"}, blocked : BOOLEAN]
  /\ scraping \in {"off", "on", "stopping"}
  /\ op.rp \in 0..MaxProcs /\ op.next \in Revs /\ op.old \in Revs /\ op.rev \in Revs
  /\ closed \in BOOLEAN
  /\ procs \in [1..MaxProcs -> [st : {"none", "alive", "term", "dead"},
                                rev : 0..(MaxRevs + 2), intent : BOOLEAN, watched : BOOLEAN]]

\* At most one exporter process runs that nobody has told to end: a launch never
\* overlaps the process of an earlier revision, through failures and restarts.
SingleProcess == Cardinality({p \in 1..MaxProcs : procs[p].st = "alive"}) <= 1

\* What active.json names can always be restored: its files are complete, and
\* its release and configuration have run or came with an import.
CommittedRecoverable ==
  active # NoRev => active \in disk /\ Payload(active) \in tested

\* Between operations memory, commit file and processes agree: the slot holds
\* the committed revision; a running process is the slot's and runs the committed
\* payload; a plugin shown as stopped should be stopped and is; after the
\* manager's shutdown nothing runs.
QuietAgrees ==
  Up /\ op = Idle /\ ~slot.blocked =>
    /\ slot.active = active
    /\ slot.status = "stopped" => active.desired = "stopped"
    /\ \A p \in 1..MaxProcs : procs[p].st = "alive" =>
         /\ p = slot.proc /\ ~closed
         /\ active.desired = "running"
         /\ \E r \in disk : r.id = procs[p].rev /\ Payload(r) = Payload(active)

\* Monitor never runs on a volume that an import has filled in part, whatever
\* step of the import failed.
NoHalfImport == Up => import # "partial"

\* "Actual state of the installed plugins" (the administration view's words): a
\* plugin shown as running has its process, or its exit is yet to be noticed.
\* A failed stop inside a transaction, or a restore whose error is dropped,
\* leaves the status "running" without either.
ShownRunningRuns ==
  Up /\ op = Idle /\ ~closed /\ slot.status = "running" =>
    \E p \in 1..MaxProcs : /\ p = slot.proc
                           /\ Running(p) \/ (procs[p].watched /\ ~procs[p].intent)

\* A process that exits by itself does not stay the slot's process: the watcher
\* reports it, or an operation replaces it.
ExitNoticed ==
  \A p \in 1..MaxProcs :
    (slot.proc = p /\ procs[p].st = "dead" /\ ~procs[p].intent) ~> (slot.proc # p)
=============================================================================
