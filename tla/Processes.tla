----------------------------- MODULE Processes -----------------------------
(***************************************************************************)
(* The life of a process: what its main function opens and starts, what it *)
(* defers, and how it ends after a signal, after its server failed, or     *)
(* when a step of the start fails.                                         *)
(*                                                                         *)
(* Each process is a table of steps, one per call of its main function     *)
(* that the order matters for; a step carries the steps it defers.  Tasks  *)
(* are goroutines, resources are what must be closed.  Time passes only    *)
(* while the main function waits.                                          *)
(***************************************************************************)
EXTENDS Integers, Sequences, FiniteSets

CONSTANTS
  Kinds,                \* the processes looked at
  Two, Three, Five, Ten \* seconds: the waits of the code, which an instance scales down

VARIABLES
  proc,     \* the process
  phase,    \* "starting", "serving", "stopping", "ended" or "killed"
  cause,    \* why it stops: "none", "signal", "failed" or "start"
  todo,     \* the steps ahead
  deferred, \* the steps deferred, the last first
  held,     \* resources that are open
  lost,     \* resources that have been closed
  tasks,    \* task -> "no", "runs", "cancelled" or "ended"
  gaveUp,   \* tasks whose end was awaited in vain
  root,     \* "alive" or "cancelled": the context of the process
  signals,  \* "default" or "caught"
  ready,    \* "no", "started" or "stopped": the probes
  budget,   \* what is left of the shared budget, Unbound or Whole
  waited,   \* how long the step at hand has waited
  elapsed   \* how long the process has waited since it began to stop

vars == <<proc, phase, cause, todo, deferred, held, lost, tasks, gaveUp, root,
          signals, ready, budget, waited, elapsed>>

Unbound == -2 \* no budget is bound
Whole == -1   \* a budget is bound and has not begun
Shared == -1  \* a wait that spends the shared budget

-----------------------------------------------------------------------------
(* Steps.                                                                   *)

Step(call, of, within, later) == [call |-> call, of |-> of, within |-> within, later |-> later]

Bind == Step("bind", {}, 0, <<>>)
Started == Step("started", {}, 0, <<>>)
Withdraw == Step("withdraw", {}, 0, <<>>)
CancelRoot == Step("cancel root", {}, 0, <<>>)
Notify == Step("notify", {}, 0, <<CancelRoot>>)
Serve == Step("serve", {"server"}, 0, <<>>)
Consume == Step("serve", {}, 0, <<>>)
Cancel(t) == Step("cancel", {t}, 0, <<>>)
Await(t, within) == Step("await", {t}, within, <<>>)
Close(r) == Step("close", {r}, 0, <<>>)
Go(t, later) == Step("go", {t}, 0, later)
Open(r, later) == Step("open", {r}, 0, later)
OpenAndClose(r) == Open(r, <<Close(r)>>)

\* A mistake: the task is told to end and not awaited.
CloseAtOnce(r, t, within) == <<Cancel(t), Close(r)>>

\* Closes a resource that has a task of its own, which ends within the time given.
ShutAfter(r, t, within) == <<Cancel(t), Await(t, within), Close(r)>>

\* Listener.Shutdown.
ShutListener == <<Withdraw, Close("listener"), Await("scrape", Shared)>>

When(condition, steps) == IF condition THEN steps ELSE <<>>

ShutdownSeconds(p) == IF p \in {"combined", "business", "platform", "exporter"} THEN Five ELSE Ten

Business(p) == p \in {"combined", "business"}
Platform(p) == p \in {"combined", "platform"}
Backend(p) == p \in {"combined", "business", "platform"}
Consumes(p) == p \in {"worker", "indexer"}

Tracing == <<Go("spans", <<>>), Open("tracing", ShutAfter("tracing", "spans", Five))>>
ProcessLog == <<Go("shipping", <<>>), Open("logs", ShutAfter("logs", "shipping", Shared))>>

BusinessAssembly ==
  <<OpenAndClose("redis"), OpenAndClose("mysql_outbox"), OpenAndClose("rabbitmq_publisher")>>

BodyCacheAssembly ==
  <<Open("post_body_rebuild", ShutAfter("post_body_rebuild", "rebuilds", Five)), Go("rebuilds", <<>>)>>

PlatformAssembly ==
  <<Open("component_status", ShutAfter("component_status", "refresh", Two)), Go("refresh", <<>>)>>

NewRoleAssembly(p) ==
  <<OpenAndClose("mysql"), OpenAndClose("mysql_probe")>>
    \o When(Business(p), BusinessAssembly \o BodyCacheAssembly) \o When(Platform(p), PlatformAssembly)

BackendMain(p) ==
  ProcessLog \o Tracing \o <<Notify>> \o NewRoleAssembly(p)
    \o <<Bind, Go("pool sampler", <<>>), Open("listener", <<>>)>>
    \o <<Go("alerts", <<Cancel("alerts"), Await("alerts", Three)>>)>>
    \o <<Go("outbox sampler", <<Cancel("outbox sampler")>> \o ShutListener \o <<Await("outbox sampler", Shared)>>)>>
    \o <<Started>> \o When(Business(p), <<Go("dispatcher", <<>>)>>) \o <<Serve>>

WorkerMain ==
  ProcessLog \o Tracing \o <<OpenAndClose("mysql"), Notify, Bind, Open("listener", ShutListener)>>
    \o <<Started, Go("session", <<>>), Consume>>

\* The indexer has an Elasticsearch client besides, which needs no closing.
IndexerMain == WorkerMain

MarshallerMain ==
  <<Open("kafka", <<>>), Bind, Open("listener", <<>>), Started,
    Go("retention", <<>>), Go("consumer", <<>>), Notify, Serve>>

MonitorMain ==
  <<Notify, Bind, Open("listener", ShutListener), OpenAndClose("publisher"),
    Open("spool", ShutAfter("spool", "delivery", Shared)), Go("delivery", <<>>),
    Open("events", ShutAfter("events", "event queue", Shared)), Go("event queue", <<>>),
    Open("manager", <<>>), Go("collectors", <<>>), Started, Serve>>

ExporterMain == <<OpenAndClose("collector"), Notify, Started, Serve>>

Main(p) ==
  CASE Backend(p) -> BackendMain(p)
    [] p = "worker" -> WorkerMain
    [] p = "indexer" -> IndexerMain
    [] p = "marshaller" -> MarshallerMain
    [] p = "monitor" -> MonitorMain
    [] p = "exporter" -> ExporterMain

\* Server.Shutdown: no more requests, and those under way are awaited.
ShutServer(within) == <<Close("server"), Await("request", within), Cancel("request")>>

\* After the signal.
DrainBackend(p) ==
  ShutServer(Shared) \o When(Business(p), <<Cancel("dispatcher"), Await("dispatcher", Shared)>>)

DrainMarshaller ==
  <<Withdraw, CancelRoot, Await("retention", Shared)>> \o ShutServer(Shared)
    \o ShutListener \o <<Close("kafka")>>

DrainMonitor ==
  <<Withdraw>> \o ShutServer(Shared) \o ShutAfter("manager", "collectors", Shared)
    \o ShutAfter("events", "event queue", Shared)

\* The end of Run: handlers under way may finish, within a time of their own.
DrainSession == <<Await("session", Ten)>>

DrainMain(p) ==
  CASE Backend(p) -> DrainBackend(p)
    [] Consumes(p) -> DrainSession
    [] p = "marshaller" -> DrainMarshaller
    [] p = "monitor" -> DrainMonitor
    [] p = "exporter" -> ShutServer(Five)

\* After the server, or the consumer of Marshaller, ended by itself.
FailMain(p) ==
  CASE Business(p) -> <<Cancel("dispatcher"), Await("dispatcher", Shared)>>
    [] p = "marshaller" -> DrainMarshaller
    [] OTHER -> <<>>

-----------------------------------------------------------------------------
(* Tasks.                                                                   *)

Tasks == {"request", "dispatcher", "alerts", "outbox sampler", "pool sampler", "probe check", "rebuilds",
          "refresh", "spans", "shipping", "scrape", "session", "retention", "consumer", "collectors",
          "delivery", "event queue"}

\* What a task works with.
Uses(t) ==
  CASE t = "request" -> {"mysql", "redis", "post_body_rebuild", "component_status", "manager", "collector"}
    [] t \in {"dispatcher", "outbox sampler"} ->
         {"mysql_outbox"} \cup (IF t = "dispatcher" THEN {"rabbitmq_publisher"} ELSE {})
    [] t = "alerts" -> {"mysql"}
    [] t = "rebuilds" -> {"mysql", "redis"}
    [] t = "session" -> {"mysql"}
    [] t = "consumer" -> {"kafka"}
    [] t = "collectors" -> {"spool", "events"}
    [] t = "delivery" -> {"publisher"}
    [] t = "event queue" -> {"spool"}
    [] t = "pool sampler" -> {"mysql", "mysql_probe", "mysql_outbox"}
    [] t = "probe check" -> {"mysql_probe", "mysql", "manager"}
    [] OTHER -> {}

\* Tasks that end with the context of the process; requests of an exporter do, too.
UnderRoot(p) ==
  {"dispatcher", "alerts", "outbox sampler", "pool sampler", "probe check", "rebuilds", "refresh", "session",
   "retention", "consumer", "collectors", "delivery", "scrape"}
    \cup (IF p = "exporter" THEN {"request"} ELSE {})

\* Tasks that nobody waits for.
Unawaited == {"pool sampler", "probe check", "consumer"}

\* Tasks that end by themselves.
EndsAlone(t) == t \in {"request", "scrape", "probe check", "dispatcher", "consumer"}

\* Tasks that end at once, since their process has nothing for them.
Idle(t) == (t = "alerts" /\ ~Platform(proc)) \/ (t = "outbox sampler" /\ ~Business(proc))

Running(t) == tasks[t] \in {"runs", "cancelled"}
Cancelled(ts) == [t \in Tasks |-> IF t \in ts /\ tasks[t] = "runs" THEN "cancelled" ELSE tasks[t]]

-----------------------------------------------------------------------------
Init ==
  /\ proc \in Kinds /\ phase = "starting" /\ cause = "none"
  /\ todo = Main(proc) /\ deferred = <<>> /\ held = {} /\ lost = {}
  /\ tasks = [t \in Tasks |-> "no"] /\ gaveUp = {}
  /\ root = "alive" /\ signals = "default" /\ ready = "no"
  /\ budget = Unbound /\ waited = 0 /\ elapsed = 0

At(call) == phase \in {"starting", "stopping"} /\ todo # <<>> /\ Head(todo).call = call
Of == CHOOSE x \in Head(todo).of : TRUE
Proceed == todo' = Tail(todo) /\ waited' = 0

\* The budget begins when the context of the process ends, or when somebody asks for it.
Begun == IF budget = Whole THEN ShutdownSeconds(proc) ELSE budget

OpenSucceeds ==
  /\ At("open") /\ Proceed
  /\ held' = held \cup Head(todo).of /\ deferred' = Head(todo).later \o deferred
  /\ UNCHANGED <<proc, phase, cause, lost, tasks, gaveUp, root, signals, ready, budget, elapsed>>

\* A start that fails runs what was deferred; Marshaller exits at once.
OpenFails ==
  /\ At("open") /\ cause' = "start" /\ waited' = 0
  /\ phase' = (IF proc = "marshaller" THEN "killed" ELSE "stopping")
  /\ todo' = deferred /\ deferred' = <<>>
  /\ UNCHANGED <<proc, held, lost, tasks, gaveUp, root, signals, ready, budget, elapsed>>

StartTask ==
  /\ At("go") /\ Proceed
  /\ tasks' = [tasks EXCEPT ![Of] =
       IF Idle(Of) THEN "ended"
       ELSE IF root = "cancelled" /\ Of \in UnderRoot(proc) THEN "cancelled" ELSE "runs"]
  /\ deferred' = Head(todo).later \o deferred
  /\ UNCHANGED <<proc, phase, cause, held, lost, gaveUp, root, signals, ready, budget, elapsed>>

SignalContext ==
  /\ At("notify") /\ Proceed /\ signals' = "caught"
  /\ deferred' = Head(todo).later \o deferred
  /\ UNCHANGED <<proc, phase, cause, held, lost, tasks, gaveUp, root, ready, budget, elapsed>>

BindShutdown ==
  /\ At("bind") /\ Proceed
  /\ budget' = (IF root = "cancelled" THEN ShutdownSeconds(proc) ELSE Whole)
  /\ UNCHANGED <<proc, phase, cause, deferred, held, lost, tasks, gaveUp, root, signals, ready, elapsed>>

ProbesStarted ==
  /\ At("started") /\ Proceed /\ ready' = "started"
  /\ UNCHANGED <<proc, phase, cause, deferred, held, lost, tasks, gaveUp, root, signals, budget, elapsed>>

ServeBegins ==
  /\ phase = "starting" /\ At("serve") /\ phase' = "serving"
  /\ held' = held \cup Head(todo).of
  /\ UNCHANGED <<proc, cause, todo, deferred, lost, tasks, gaveUp, root, signals, ready, budget,
                 waited, elapsed>>

\* A server that failed still answers on the connections it has.
Request(t) ==
  /\ phase \in {"starting", "serving", "stopping"} /\ ~Running(t)
  /\ t = "request" => "server" \in held
  /\ t = "scrape" => "listener" \in held
  /\ t = "probe check" =>
       ready = "started" /\ root = "alive" /\ held \cap {"server", "listener"} # {} /\ proc # "exporter"
  /\ tasks' = [tasks EXCEPT ![t] = "runs"]
  /\ UNCHANGED <<proc, phase, cause, todo, deferred, held, lost, gaveUp, root, signals, ready, budget,
                 waited, elapsed>>

\* The first signal cancels the context and, except for an exporter, gives the signal back
\* to the system: the second one kills.  Marshaller takes it from a channel instead.
Terminate ==
  /\ phase \in {"starting", "serving", "stopping"}
  /\ CASE signals = "default" -> phase' = "killed" /\ UNCHANGED <<root, tasks, budget, signals, cause>>
       [] signals = "caught" /\ proc = "marshaller" ->
            cause' = "signal" /\ UNCHANGED <<phase, root, tasks, budget, signals>>
       [] OTHER ->
            /\ signals' = (IF proc = "exporter" THEN "caught" ELSE "default")
            /\ root' = "cancelled" /\ tasks' = Cancelled(UnderRoot(proc)) /\ budget' = Begun
            /\ UNCHANGED <<phase, cause>>
  /\ UNCHANGED <<proc, todo, deferred, held, lost, gaveUp, ready, waited, elapsed>>

Restored == IF proc = "marshaller" THEN "default" ELSE signals

ServeEnds ==
  /\ phase = "serving" /\ (root = "cancelled" \/ cause = "signal")
  /\ phase' = "stopping" /\ cause' = "signal" /\ signals' = Restored
  /\ todo' = DrainMain(proc) \o deferred /\ deferred' = <<>> /\ waited' = 0
  /\ UNCHANGED <<proc, held, lost, tasks, gaveUp, root, ready, budget, elapsed>>

\* The server fails to listen or to accept, or the consumer of Marshaller halts.
ServeFails ==
  /\ phase = "serving" /\ ~Consumes(proc)
  /\ phase' = "stopping" /\ cause' = "failed" /\ signals' = Restored
  /\ todo' = FailMain(proc) \o deferred /\ deferred' = <<>> /\ waited' = 0
  /\ UNCHANGED <<proc, held, lost, tasks, gaveUp, root, ready, budget, elapsed>>

WithdrawReadiness ==
  /\ At("withdraw") /\ Proceed /\ ready' = "stopped"
  /\ UNCHANGED <<proc, phase, cause, deferred, held, lost, tasks, gaveUp, root, signals, budget, elapsed>>

CancelTask ==
  /\ At("cancel") /\ Proceed /\ tasks' = Cancelled(Head(todo).of)
  /\ UNCHANGED <<proc, phase, cause, deferred, held, lost, gaveUp, root, signals, ready, budget, elapsed>>

CancelContext ==
  /\ At("cancel root") /\ Proceed
  /\ root' = "cancelled" /\ tasks' = Cancelled(UnderRoot(proc)) /\ budget' = Begun
  /\ signals' = "default"
  /\ UNCHANGED <<proc, phase, cause, deferred, held, lost, gaveUp, ready, elapsed>>


\* Without a budget a shared wait has its own five seconds.
Over ==
  LET within == Head(todo).within IN
  IF within # Shared THEN waited >= within
  ELSE IF Begun = Unbound THEN waited >= Five ELSE Begun = 0

AwaitEnds ==
  /\ At("await") /\ Proceed
  /\ ~Running(Of) \/ Over
  /\ gaveUp' = (IF Running(Of) THEN gaveUp \cup {Of} ELSE gaveUp)
  /\ budget' = (IF Head(todo).within = Shared THEN Begun ELSE budget)
  /\ UNCHANGED <<proc, phase, cause, deferred, held, lost, tasks, root, signals, ready, elapsed>>

Pass ==
  /\ At("await") /\ Running(Of) /\ ~Over
  /\ waited' = waited + 1 /\ elapsed' = elapsed + 1
  /\ LET left == IF Head(todo).within = Shared THEN Begun ELSE budget IN
     budget' = (IF left > 0 THEN left - 1 ELSE left)
  /\ UNCHANGED <<proc, phase, cause, todo, deferred, held, lost, tasks, gaveUp, root, signals, ready>>

CloseResource ==
  /\ At("close") /\ Proceed
  /\ held' = held \ Head(todo).of /\ lost' = lost \cup (held \cap Head(todo).of)
  /\ UNCHANGED <<proc, phase, cause, deferred, tasks, gaveUp, root, signals, ready, budget, elapsed>>

End ==
  /\ phase = "stopping" /\ todo = <<>> /\ phase' = "ended"
  /\ UNCHANGED <<proc, cause, todo, deferred, held, lost, tasks, gaveUp, root, signals, ready, budget,
                 waited, elapsed>>

\* A cancelled task ends in its own time, which shows when it is awaited.
TaskEnds(t) ==
  /\ phase \in {"starting", "serving", "stopping"}
  /\ (tasks[t] = "cancelled" /\ At("await") /\ Of = t) \/ (tasks[t] = "runs" /\ EndsAlone(t))
  /\ tasks' = [tasks EXCEPT ![t] = "ended"]
  /\ UNCHANGED <<proc, phase, cause, todo, deferred, held, lost, gaveUp, root, signals, ready, budget,
                 waited, elapsed>>

Next ==
  \/ OpenSucceeds \/ OpenFails \/ StartTask \/ SignalContext \/ BindShutdown \/ ProbesStarted
  \/ ServeBegins \/ Terminate \/ ServeEnds \/ ServeFails
  \/ WithdrawReadiness \/ CancelTask \/ CancelContext \/ AwaitEnds \/ Pass \/ CloseResource \/ End
  \/ \E t \in {"request", "scrape", "probe check"} : Request(t)
  \/ \E t \in Tasks : TaskEnds(t)

Spec == Init /\ [][Next]_vars

-----------------------------------------------------------------------------
(* Properties.                                                              *)

TypeOK ==
  /\ proc \in Kinds /\ phase \in {"starting", "serving", "stopping", "ended", "killed"}
  /\ cause \in {"none", "signal", "failed", "start"}
  /\ held \cap lost = {}
  /\ tasks \in [Tasks -> {"no", "runs", "cancelled", "ended"}] /\ gaveUp \subseteq Tasks
  /\ root \in {"alive", "cancelled"} /\ signals \in {"default", "caught"}
  /\ ready \in {"no", "started", "stopped"} /\ budget \in Unbound .. Ten

\* After a signal, nothing a running task uses has been closed, unless its end was awaited in
\* vain or nobody awaits it.  (After a server failed, its last requests are not awaited.)
ClosedAfterUse ==
  cause # "failed" =>
    \A t \in Tasks \ (gaveUp \cup Unawaited) : Running(t) => Uses(t) \cap lost = {}

\* While readiness is given nothing has been closed; Monitor whose server failed is the exception.
NotReadyWhileClosing ==
  ready = "started" /\ root = "alive" /\ ~(proc = "monitor" /\ cause = "failed") => lost = {}

\* The log shipper goes last, so that it ships what the others report when they close.
LogsLast == "logs" \in lost => held \subseteq {"server"}

\* A process that ends has closed what it opened, except the server that failed and, with it,
\* the plugins of Monitor.
NothingLeftOpen ==
  phase = "ended" =>
    held \subseteq (IF cause = "failed" THEN {"server"} \cup (IF proc = "monitor" THEN {"manager"} ELSE {})
                   ELSE {})

\* What the deployment leaves a process between the signal and the kill.
Grace(p) ==
  CASE p = "monitor" -> 4 * Five
    [] p = "exporter" -> 2 * Five
    [] OTHER -> 3 * Five

\* Whatever hangs, a process that was told to end has ended before it is killed.  The backend
\* that runs both roles is no service of the deployment.
EndsInGrace == cause = "signal" /\ proc # "combined" => elapsed <= Grace(proc)
=============================================================================
