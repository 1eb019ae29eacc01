------------------------------- MODULE Publisher -------------------------------
(***************************************************************************)
(* The RabbitMQ publisher below the outbox: envelopes and their routes, the *)
(* topology the publisher declares, one connection that is built on demand *)
(* and given up on every doubt, and the two notifications (mandatory       *)
(* return, publisher confirm) that the client library's reader puts into   *)
(* channels of one place while the publisher waits.                        *)
(***************************************************************************)
EXTENDS Naturals, Sequences, FiniteSets, SequencesExt, FiniteSetsExt

CONSTANTS Callers,      \* goroutines that publish (the dispatcher's workers)
          Kinds,        \* event types used by this instance
          Base,         \* retryDelay, in units of time
          MaxBackoff,   \* maximumRabbitMQRetryBackoff
          MaxAttempts,  \* bound of retryAttempt, past which the backoff does not grow
          MaxCalls,     \* bound: calls of Publish
          MaxFaults     \* bound: refused connections, broken connections, lost bindings

None == "none"
NoMsg == 0
Msg == 1..MaxCalls

-----------------------------------------------------------------------------
(* Envelopes: bus/envelope.go *)

Notices == {"comment.created", "post.liked", "user.followed"}
Contents == {"post.created", "post.updated", "post.deleted"}
EventTypes == Notices \cup Contents

\* What Validate tells apart of an envelope; a number is 0 when absent.
Envelope == [version : 1..3, type : EventTypes \cup {"unknown"}, epoch : BOOLEAN, command : BOOLEAN,
             recipient : 0..2, post : 0..1, comment : BOOLEAN, revision : 0..2]
Actor == 1

Valid(e) ==
  /\ e.version \in {1, 2}
  /\ e.version = 1 => ~e.epoch /\ ~e.command
  /\ e.version = 2 => e.epoch
  /\ e.type # "user.followed" => e.post # 0
  /\ e.type \in EventTypes
  /\ e.type = "user.followed" => e.recipient \notin {0, Actor} /\ e.post = 0 /\ ~e.comment
  /\ e.type = "comment.created" => e.recipient # 0 /\ e.comment
  /\ e.type = "post.liked" => e.recipient # 0 /\ ~e.comment
  /\ e.type \in Contents =>
       /\ e.type = "post.updated" => e.revision >= 2
       /\ IF e.version = 2 /\ e.type = "post.created" THEN e.command /\ e.revision # 0 ELSE ~e.command
       /\ e.recipient = 0 /\ ~e.comment

\* WithDataEpoch: an event becomes v2, or cannot.
WithDataEpoch(e) == [e EXCEPT !.version = 2, !.epoch = TRUE]

\* RoutingKey has one key for each type; exchangeForEvent.
ExchangeFor(type) == IF type \in Notices THEN "business" ELSE "search"

-----------------------------------------------------------------------------
(* The topology: platform/rabbitmq_topology.go *)

Topology == [business |-> Notices, search |-> Contents]
Stages == {"main", "retry", "dead"}

\* Each of the three direct exchanges of a topology binds its own queue with every
\* key, and the dead letters' queue has one key more.
Bindings ==
  UNION {{[exchange |-> <<x, s>>, key |-> k, queue |-> <<x, s>>] : s \in Stages, k \in Topology[x]} : x \in {"business", "search"}}
    \cup {[exchange |-> <<x, "dead">>, key |-> "invalid", queue |-> <<x, "dead">>] : x \in {"business", "search"}}

\* Where a direct exchange sends a message, given the bindings that exist.
RouteOf(bound, exchange, key) == {b.queue : b \in {c \in bound : c.exchange = exchange /\ c.key = key}}

-----------------------------------------------------------------------------
VARIABLES
  caller,   \* caller -> [st, msg, late]: late is the end of its context
  holder,   \* the caller (or "closer") that has publishMu
  link,     \* publisher.state and the client library behind it
  attempt,  \* retryAttempt
  backoff,  \* units of time until nextRetryAt
  closer,   \* Close: "no", "lock", "done"
  kind,     \* message -> its event type
  fate,     \* message -> what the broker did: queues it is in, returned, refused
  told,     \* message -> what Publish answered
  bound,    \* the broker's bindings
  overtaken, \* history: messages whose drain ended by its timer with their return waiting
  count

vars == <<caller, holder, link, attempt, backoff, closer, kind, fate, told, bound, overtaken, count>>

\* frames: what the broker has sent and the reader not yet handed on; returns and
\* confirms: the two channels, each with one place; up: no close notification.
NoLink == [open |-> FALSE, up |-> FALSE, wire |-> <<>>, frames |-> <<>>, returns |-> <<>>, confirms |-> <<>>]
NewLink == [NoLink EXCEPT !.open = TRUE, !.up = TRUE]
Idle == [st |-> "idle", msg |-> NoMsg, late |-> FALSE]
NoFate == [queues |-> {}, returned |-> FALSE, refused |-> FALSE]

Init ==
  /\ caller = [c \in Callers |-> Idle] /\ holder = None
  /\ link = NoLink /\ attempt = 0 /\ backoff = 0 /\ closer = "no"
  /\ kind \in [Msg -> Kinds] /\ fate = [m \in Msg |-> NoFate] /\ told = [m \in Msg |-> None]
  /\ bound \in {{}, Bindings} /\ overtaken = {}
  /\ count = [calls |-> 0, faults |-> 0]

Fault == count.faults < MaxFaults /\ count' = [count EXCEPT !.faults = @ + 1]

\* retryBackoff: doubled with every attempt up to the maximum, with jitter between
\* half and one and a half, and never over the maximum.
Doubled(n) == Min({Base * 2^(n - 1), MaxBackoff})
Jittered(b) == {Min({Max({j, 1}), MaxBackoff}) : j \in (b - (b \div 2))..(b + (b \div 2))}
Postpone == attempt' = Min({attempt + 1, MaxAttempts}) /\ backoff' \in Jittered(Doubled(attempt + 1))
NoDelay == UNCHANGED <<attempt, backoff>>

\* A call ends: its answer is recorded and the mutex released.
Return(c, answer) ==
  /\ told' = [told EXCEPT ![caller[c].msg] = answer]
  /\ caller' = [caller EXCEPT ![c] = Idle] /\ holder' = None

\* As it would be if a context that ends kept the connection.
ResetNothing == UNCHANGED link /\ NoDelay

\* resetState: the state is forgotten before its channel and connection are closed,
\* and the next connection waits.
Reset == link' = NoLink /\ Postpone

At(c, st) == holder = c /\ caller[c].st = st

-----------------------------------------------------------------------------
(* Publish *)

\* Publish: an envelope that is not valid is refused before the mutex is taken, so
\* only valid ones are numbered here; the caller then waits for the mutex.
Call(c) ==
  /\ caller[c].st = "idle" /\ count.calls < MaxCalls
  /\ caller' = [caller EXCEPT ![c] = [st |-> "lock", msg |-> count.calls + 1, late |-> FALSE]]
  /\ count' = [count EXCEPT !.calls = @ + 1]
  /\ UNCHANGED <<holder, link, attempt, backoff, closer, kind, fate, told, bound, overtaken>>

Lock(c) ==
  /\ caller[c].st = "lock" /\ holder = None
  /\ holder' = c /\ caller' = [caller EXCEPT ![c].st = "ensure"]
  /\ UNCHANGED <<link, attempt, backoff, closer, kind, fate, told, bound, overtaken, count>>

\* The caller's context ends.
ContextEnds(c) ==
  /\ caller[c].st # "idle" /\ ~caller[c].late
  /\ caller' = [caller EXCEPT ![c].late = TRUE]
  /\ UNCHANGED <<holder, link, attempt, backoff, closer, kind, fate, told, bound, overtaken, count>>

\* ensureState: an ended context and a closed publisher are answered first; a state
\* that is there is used; otherwise nextRetryAt is waited for, under the mutex.
Ensure(c) ==
  /\ At(c, "ensure")
  /\ CASE caller[c].late -> Return(c, "timeout")
       [] ~caller[c].late /\ closer = "done" -> Return(c, "closed")
       [] ~caller[c].late /\ closer # "done" /\ link.open ->
            caller' = [caller EXCEPT ![c].st = "send"] /\ UNCHANGED <<holder, told>>
       [] OTHER -> /\ backoff = 0
                   /\ caller' = [caller EXCEPT ![c].st = "dial"] /\ UNCHANGED <<holder, told>>
  /\ UNCHANGED <<link, attempt, backoff, closer, kind, fate, bound, overtaken, count>>

\* The wait ends with the context: no failure of the connection is counted.
Tick ==
  /\ backoff > 0 /\ backoff' = backoff - 1
  /\ UNCHANGED <<caller, holder, link, attempt, closer, kind, fate, told, bound, overtaken, count>>

\* The dialer and buildState: confirms, the listeners, both topologies.
Dial(c) ==
  /\ At(c, "dial")
  /\ link' = NewLink /\ attempt' = 0 /\ backoff' = 0 /\ bound' = bound \cup Bindings
  /\ caller' = [caller EXCEPT ![c].st = "send"]
  /\ UNCHANGED <<holder, closer, kind, fate, told, overtaken, count>>

\* The dial, the channel or a declaration fails; only a failure within the context
\* counts for the backoff.  Bindings made before the failing one stay.
DialFails(c) ==
  /\ At(c, "dial")
  /\ \/ caller[c].late /\ Return(c, "timeout") /\ NoDelay /\ UNCHANGED <<bound, count>>
     \/ /\ ~caller[c].late /\ Fault /\ Return(c, "unavailable") /\ Postpone
        /\ bound' \in {bound, bound \cup {b \in Bindings : b.exchange[1] = "business"}}
  /\ UNCHANGED <<link, closer, kind, fate, overtaken>>

\* PublishWithContext writes the message to the connection, or fails.
Send(c) ==
  /\ At(c, "send") /\ link.up
  /\ link' = [link EXCEPT !.wire = Append(@, caller[c].msg)]
  /\ caller' = [caller EXCEPT ![c].st = "await"]
  /\ UNCHANGED <<holder, attempt, backoff, closer, kind, fate, told, bound, overtaken, count>>
SendFails(c) ==
  /\ At(c, "send") /\ (~link.up \/ caller[c].late)
  /\ Return(c, IF caller[c].late THEN "timeout" ELSE "unavailable") /\ Reset
  /\ UNCHANGED <<closer, kind, fate, bound, overtaken, count>>

-----------------------------------------------------------------------------
(* The broker and the client library's reader *)

\* The broker routes the message and confirms it; without a queue for it the
\* mandatory message is returned first.  It may also refuse it (an internal error).
BrokerTakes ==
  /\ link.wire # <<>>
  /\ LET m == Head(link.wire)
         to == RouteOf(bound, <<ExchangeFor(kind[m]), "main">>, kind[m])
     IN \/ /\ fate' = [fate EXCEPT ![m] = [@ EXCEPT !.queues = to, !.returned = to = {}]]
           /\ link' = [link EXCEPT !.wire = Tail(@),
                                   !.frames = @ \o (IF to = {} THEN <<[f |-> "return", m |-> m]>> ELSE <<>>)
                                                \o <<[f |-> "ack", m |-> m]>>]
           /\ UNCHANGED count
        \/ /\ Fault /\ fate' = [fate EXCEPT ![m].refused = TRUE]
           /\ link' = [link EXCEPT !.wire = Tail(@), !.frames = Append(@, [f |-> "nack", m |-> m])]
  /\ UNCHANGED <<caller, holder, attempt, backoff, closer, kind, told, bound, overtaken>>

\* The reader hands the next frame to its channel, and waits while that is full.
ReaderHands ==
  /\ link.open /\ link.up /\ link.frames # <<>>
  /\ LET x == Head(link.frames)
     IN \/ /\ x.f = "return" /\ link.returns = <<>>
           /\ link' = [link EXCEPT !.frames = Tail(@), !.returns = <<x.m>>]
        \/ /\ x.f # "return" /\ link.confirms = <<>>
           /\ link' = [link EXCEPT !.frames = Tail(@), !.confirms = <<x>>]
  /\ UNCHANGED <<caller, holder, attempt, backoff, closer, kind, fate, told, bound, overtaken, count>>

\* The connection breaks: what the broker has taken stays taken, its frames are
\* lost, and every listener is told.
Break ==
  /\ link.open /\ link.up /\ Fault
  /\ link' = [link EXCEPT !.up = FALSE, !.frames = <<>>, !.wire = <<>>]
  /\ UNCHANGED <<caller, holder, attempt, backoff, closer, kind, fate, told, bound, overtaken>>

\* The queues and bindings of a topology are deleted on the broker.
Unbind ==
  /\ bound # {} /\ Fault
  /\ \E x \in {"business", "search"} : bound' = {b \in bound : b.exchange[1] # x}
  /\ UNCHANGED <<caller, holder, link, attempt, backoff, closer, kind, fate, told, overtaken>>

-----------------------------------------------------------------------------
(* awaitPublishResult and drainReturns; with several channels ready, any *)

Matches(c) == Head(link.returns) = caller[c].msg
TakeReturn == link' = [link EXCEPT !.returns = <<>>]

AwaitReturn(c) ==
  /\ holder = c /\ caller[c].st \in {"await", "returned"} /\ link.returns # <<>> /\ TakeReturn
  /\ caller' = [caller EXCEPT ![c].st = IF Matches(c) THEN "returned" ELSE @]
  /\ UNCHANGED <<holder, attempt, backoff, closer, kind, fate, told, bound, overtaken, count>>

\* A refusal gives the connection up; a confirmation leads to the drain.
AwaitConfirm(c) ==
  /\ holder = c /\ caller[c].st \in {"await", "returned"} /\ link.confirms # <<>>
  /\ IF Head(link.confirms).f = "nack"
       THEN Return(c, IF caller[c].st = "returned" THEN "unroutable" ELSE "nack") /\ Reset
       ELSE /\ link' = [link EXCEPT !.confirms = <<>>]
            /\ caller' = [caller EXCEPT ![c].st = IF @ = "returned" THEN "drainReturned" ELSE "drain"]
            /\ NoDelay /\ UNCHANGED <<holder, told>>
  /\ UNCHANGED <<closer, kind, fate, bound, overtaken, count>>

DrainReturn(c) ==
  /\ holder = c /\ caller[c].st \in {"drain", "drainReturned"} /\ link.returns # <<>>
  /\ TakeReturn
  /\ IF Matches(c) THEN Return(c, "unroutable") ELSE UNCHANGED <<caller, holder, told>>
  /\ UNCHANGED <<attempt, backoff, closer, kind, fate, bound, overtaken, count>>

\* The timer: after ten milliseconds there is nothing to read, unless the goroutine
\* was not scheduled for as long and finds both ready; select takes either.
DrainTimer(c) ==
  /\ holder = c /\ caller[c].st \in {"drain", "drainReturned"}
  /\ overtaken' = IF link.returns # <<>> /\ Matches(c) THEN overtaken \cup {caller[c].msg} ELSE overtaken
  /\ Return(c, IF caller[c].st = "drainReturned" THEN "unroutable" ELSE "ok")
  /\ UNCHANGED <<link, attempt, backoff, closer, kind, fate, bound, count>>

Waiting == {"await", "returned", "drain", "drainReturned"}

\* The context ends, or a listener reports the connection's end: given up.
GiveUp(c) ==
  /\ holder = c /\ caller[c].st \in Waiting
  /\ \/ caller[c].late /\ Return(c, "timeout")
     \/ ~link.up /\ \E a \in {"closed", "unavailable"} : Return(c, a)
  /\ Reset
  /\ UNCHANGED <<closer, kind, fate, bound, overtaken, count>>

-----------------------------------------------------------------------------
(* Close waits for the mutex that a publish holds *)

CloseCalled ==
  /\ closer = "no" /\ closer' = "lock"
  /\ UNCHANGED <<caller, holder, link, attempt, backoff, kind, fate, told, bound, overtaken, count>>
Close ==
  /\ closer = "lock" /\ holder = None
  /\ closer' = "done" /\ link' = NoLink
  /\ UNCHANGED <<caller, holder, attempt, backoff, kind, fate, told, bound, overtaken, count>>

Turn(c) ==
  \/ Lock(c) \/ Ensure(c) \/ Dial(c) \/ DialFails(c) \/ Send(c) \/ SendFails(c)
  \/ AwaitReturn(c) \/ AwaitConfirm(c) \/ DrainReturn(c) \/ DrainTimer(c) \/ GiveUp(c)
Next ==
  \/ \E c \in Callers : Call(c) \/ ContextEnds(c) \/ Turn(c)
  \/ Tick \/ BrokerTakes \/ ReaderHands \/ Break \/ Unbind \/ CloseCalled \/ Close

Spec == Init /\ [][Next]_vars

\* Contexts have deadlines; a mutex in its starving mode serves waiters in turn, so
\* that a caller that can take it again and again does.
Fairness ==
  /\ \A c \in Callers : WF_vars(ContextEnds(c)) /\ WF_vars(Turn(c)) /\ SF_vars(Lock(c))
  /\ SF_vars(Close)

-----------------------------------------------------------------------------
TypeOK ==
  /\ caller \in [Callers -> [st : {"idle", "lock", "ensure", "dial", "send"} \cup Waiting,
                             msg : 0..MaxCalls, late : BOOLEAN]]
  /\ holder \in Callers \cup {None} /\ backoff \in 0..MaxBackoff /\ attempt \in 0..MaxAttempts
  /\ Len(link.returns) <= 1 /\ Len(link.confirms) <= 1 /\ bound \subseteq Bindings
  /\ overtaken \subseteq Msg

\* A nil answer is about this message: the broker took it and put it into the one
\* queue its consumer reads; the one way out is that the drain of this very message
\* ended by its timer while its return lay in the channel (NeverMarkUnroutable).  The
\* other verdicts are about this message as well: unroutable was returned, nack was
\* refused.
VerdictTrue ==
  \A m \in Msg :
    /\ told[m] = "ok" => \/ fate[m].queues = {<<ExchangeFor(kind[m]), "main">>}
                         \/ m \in overtaken /\ fate[m].returned
    /\ told[m] = "ok" => ~fate[m].refused
    /\ told[m] = "unroutable" => fate[m].returned
    /\ told[m] = "nack" => fate[m].refused

\* The publisher's own comment: never mark an unroutable message successful.
NeverMarkUnroutable == \A m \in Msg : told[m] = "ok" => ~fate[m].returned

\* A notification that waits is about the message awaited, or is a return of an
\* earlier one: no confirmation outlives its publish.
NoStaleConfirm ==
  \A i \in DOMAIN link.confirms :
    /\ holder # None /\ caller[holder].msg = link.confirms[i].m
    /\ caller[holder].st \in {"await", "returned"}

\* Every valid envelope has one queue that is read, one for its retries and one
\* for its dead letters, all of one topology, whether it carries an epoch or not.
EveryEventHasAConsumer ==
  \A e \in {x \in Envelope : Valid(x)} :
    LET x == ExchangeFor(e.type)
    IN /\ \A s \in Stages : RouteOf(Bindings, <<x, s>>, e.type) = {<<x, s>>}
       /\ e.version = 1 /\ e.type # "post.created" => Valid(WithDataEpoch(e))

\* Every call of Publish is answered, also while the publisher waits out a backoff
\* that is longer than the caller's context, and Close returns.
EveryCallAnswered ==
  /\ \A m \in Msg : (\E c \in Callers : caller[c].msg = m) ~> (told[m] # None)
  /\ (closer = "lock") ~> (closer = "done")
=============================================================================
