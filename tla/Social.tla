------------------------------- MODULE Social -------------------------------
(***************************************************************************)
(* What hangs on a post: likes, bookmarks and comments, the notifications   *)
(* their events become, and the deletion that takes them all away.  Writers *)
(* lock the row of the post; the consumer of the events takes a shared lock *)
(* on it, receives every event at least once, and may die at any point.     *)
(***************************************************************************)
EXTENDS Naturals, Sequences, FiniteSets

CONSTANTS Posts,        \* posts, each by Owner
          Owner, Readers, \* the author, and the users who react
          Requests,     \* HTTP requests, one operation each
          Workers,      \* deliveries being worked on at the same time
          Ops,          \* "like", "unlike", "bookmark", "unbookmark", "comment",
                        \* "delete", "read"
          MaxEvents,    \* bound: events written
          MaxFaults     \* bound: lost connections, dead workers, repeated deliveries

Users == Readers \union {Owner}
None == 0   \* no post: the identifiers of posts start at one

ASSUME SocialAssumption ==
  /\ IsFiniteSet(Requests) /\ None \notin Posts
  /\ MaxEvents \in Nat /\ MaxFaults \in Nat

VARIABLES posts,        \* the rows of posts
          likes, bookmarks, \* pairs <<post, user>>
          comments,     \* records [post, by], numbered by their event
          events,       \* the committed events, in their order
          queue,        \* deliveries waiting: a set of event numbers
          done,         \* events acknowledged to the broker
          notices,      \* notifications
          request, worker,
          writer, readers, \* locks of each post's row
          faults

vars == <<posts, likes, bookmarks, comments, events, queue, done, notices,
          request, worker, writer, readers, faults>>
facts == <<posts, likes, bookmarks, comments>>
broker == <<queue, done>>
locks == <<writer, readers>>

Idle == [at |-> "idle", op |-> "none", post |-> None, user |-> "none", ended |-> "no"]
Free == [at |-> "free", event |-> 0, post |-> None]

Init ==
  /\ posts = Posts
  /\ likes = {} /\ bookmarks = {} /\ comments = {}
  /\ events = << >> /\ queue = {} /\ done = {} /\ notices = {}
  /\ request = [r \in Requests |-> Idle]
  /\ worker = [w \in Workers |-> Free]
  /\ writer = [p \in Posts |-> {}] /\ readers = [p \in Posts |-> {}]
  /\ faults = 0

-----------------------------------------------------------------------------
(* Requests.                                                                *)

\* Only the author deletes, and a recipient reads what was sent to him.
MayAsk(op, p, u) ==
  CASE op = "delete" -> u = Owner
    [] op = "read" -> \E n \in notices : n.to = u /\ n.post = p
    [] OTHER -> TRUE

Ask(r, op, p, u) ==
  /\ request[r].at = "idle" /\ op \in Ops /\ MayAsk(op, p, u)
  /\ request' = [request EXCEPT ![r] = [at |-> "exists", op |-> op, post |-> p,
                                        user |-> u, ended |-> "no"]]
  /\ UNCHANGED <<facts, events, broker, notices, worker, locks, faults>>

Ends(r, how) == request' = [request EXCEPT ![r].at = "done", ![r].ended = how]

\* The services ask first, outside of the transaction, whether the post is there.
RequireExists(r) ==
  LET q == request[r] IN
  /\ q.at = "exists"
  /\ IF q.op \in {"delete", "read"} \/ q.post \in posts
       THEN request' = [request EXCEPT ![r].at =
              IF q.op \in {"unlike", "read"} THEN "commit" ELSE "lock"]
       ELSE Ends(r, "not_found")
  /\ UNCHANGED <<facts, events, broker, notices, worker, locks, faults>>

\* What the services make of a row that is gone by the time it is locked.
Vanished(op) ==
  IF op \in {"bookmark", "unbookmark", "delete"} THEN "not_found" ELSE "internal"

\* SELECT ... FOR UPDATE waits for the other writer and for every reader.
LockPost(r) ==
  LET q == request[r] IN
  /\ q.at = "lock"
  /\ writer[q.post] = {} /\ readers[q.post] = {}
  /\ IF q.post \in posts
       THEN /\ writer' = [writer EXCEPT ![q.post] = {r}]
            /\ request' = [request EXCEPT ![r].at = "commit"]
       ELSE Ends(r, Vanished(q.op)) /\ UNCHANGED writer
  /\ UNCHANGED <<facts, events, broker, notices, worker, readers, faults>>

Pair(q) == <<q.post, q.user>>
NewFact(q) ==
  CASE q.op = "like" -> Pair(q) \notin likes
    [] q.op = "bookmark" -> Pair(q) \notin bookmarks
    [] OTHER -> q.op = "comment"

\* As it would be if a repeated like were announced again.
AnnouncesAlways(q) == q.op \in {"like", "comment"} /\ q.user # Owner

\* Reactions of the author to his own post are not announced.
Announces(q) == q.op \in {"like", "comment"} /\ NewFact(q) /\ q.user # Owner

\* One transaction: the fact and its event.  A duplicate ends it without either.
Write(r) ==
  LET q == request[r]  n == Len(events) + 1 IN
  /\ q.at = "commit" /\ q.op \notin {"delete", "read"}
  /\ Announces(q) => n <= MaxEvents
  /\ likes' = CASE q.op = "like" -> likes \union {Pair(q)}
                [] q.op = "unlike" -> likes \ {Pair(q)}
                [] OTHER -> likes
  /\ bookmarks' = CASE q.op = "bookmark" -> bookmarks \union {Pair(q)}
                    [] q.op = "unbookmark" -> bookmarks \ {Pair(q)}
                    [] OTHER -> bookmarks
  /\ comments' = IF q.op = "comment"
                   THEN comments \union {[post |-> q.post, by |-> q.user,
                          event |-> IF Announces(q) THEN n ELSE 0]}
                   ELSE comments
  /\ IF Announces(q)
       THEN /\ events' = Append(events, [kind |-> q.op, post |-> q.post, by |-> q.user])
            /\ queue' = queue \union {n}
       ELSE UNCHANGED <<events, queue>>
  /\ Ends(r, "ok")
  /\ writer' = [writer EXCEPT ![q.post] = @ \ {r}]
  /\ UNCHANGED <<posts, done, notices, worker, readers, faults>>

Cleared(n, p) == IF n.post = p THEN [n EXCEPT !.post = None, !.comment = FALSE] ELSE n

\* The row goes last: a notice, like, bookmark or comment that still named the
\* post would make its foreign key refuse.
Delete(r) ==
  LET q == request[r]  p == q.post IN
  /\ q.at = "commit" /\ q.op = "delete"
  /\ posts' = posts \ {p}
  /\ likes' = {x \in likes : x[1] # p}
  /\ bookmarks' = {x \in bookmarks : x[1] # p}
  /\ comments' = {c \in comments : c.post # p}
  /\ notices' = {Cleared(n, p) : n \in notices}
  /\ Ends(r, "ok")
  /\ writer' = [writer EXCEPT ![p] = @ \ {r}]
  /\ UNCHANGED <<events, broker, worker, readers, faults>>

Marked(n, q) == IF n.to = q.user /\ n.post = q.post THEN [n EXCEPT !.read = TRUE] ELSE n

\* A notification is marked once and keeps the time of the first mark.
MarkRead(r) ==
  LET q == request[r] IN
  /\ q.at = "commit" /\ q.op = "read"
  /\ notices' = {Marked(n, q) : n \in notices}
  /\ Ends(r, "ok")
  /\ UNCHANGED <<facts, events, broker, worker, locks, faults>>

Disconnect(r) ==
  /\ request[r].at = "commit" /\ faults < MaxFaults
  /\ Ends(r, "lost") /\ faults' = faults + 1
  /\ writer' = [p \in Posts |-> writer[p] \ {r}]
  /\ UNCHANGED <<facts, events, broker, notices, worker, readers>>

-----------------------------------------------------------------------------
(* The consumer of business-worker.                                         *)

Receive(w) ==
  /\ worker[w].at = "free"
  /\ \E n \in queue :
       /\ queue' = queue \ {n}
       /\ worker' = [worker EXCEPT ![w] = [at |-> "share", event |-> n,
                                           post |-> events[n].post]]
  /\ UNCHANGED <<facts, events, done, notices, request, locks, faults>>

\* As it would be if the row were only looked at.
ShareNothing(w) ==
  LET p == worker[w].post IN
  /\ worker[w].at = "share"
  /\ worker' = [worker EXCEPT ![w].at = "insert",
                              ![w].post = IF p \in posts THEN p ELSE None]
  /\ UNCHANGED <<facts, events, broker, notices, request, locks, faults>>

\* SELECT ... FOR SHARE: a writer is waited for, and a missing row leaves
\* nothing locked and the references empty.
Share(w) ==
  LET p == worker[w].post IN
  /\ worker[w].at = "share" /\ writer[p] = {}
  /\ IF p \in posts
       THEN /\ readers' = [readers EXCEPT ![p] = @ \union {w}]
            /\ worker' = [worker EXCEPT ![w].at = "insert"]
       ELSE /\ worker' = [worker EXCEPT ![w].at = "insert", ![w].post = None]
            /\ UNCHANGED readers
  /\ UNCHANGED <<facts, events, broker, notices, request, writer, faults>>

Notice(w) ==
  LET n == worker[w].event IN
  [event |-> n, to |-> Owner, post |-> worker[w].post,
   comment |-> worker[w].post # None /\ events[n].kind = "comment", read |-> FALSE]

\* source_event_id is unique: a second insert is a success without effect.
Insert(w) ==
  /\ worker[w].at = "insert"
  /\ notices' = IF \E n \in notices : n.event = worker[w].event THEN notices
                ELSE notices \union {Notice(w)}
  /\ worker' = [worker EXCEPT ![w].at = "ack"]
  /\ readers' = [p \in Posts |-> readers[p] \ {w}]
  /\ UNCHANGED <<facts, events, broker, request, writer, faults>>

Acknowledge(w) ==
  /\ worker[w].at = "ack"
  /\ done' = done \union {worker[w].event}
  /\ worker' = [worker EXCEPT ![w] = Free]
  /\ UNCHANGED <<facts, events, queue, notices, request, locks, faults>>

\* The worker or its connection is lost: the database rolls back what was not
\* committed, and the broker delivers again.
Die(w) ==
  /\ worker[w].at # "free" /\ faults < MaxFaults
  /\ faults' = faults + 1
  /\ queue' = queue \union {worker[w].event}
  /\ worker' = [worker EXCEPT ![w] = Free]
  /\ readers' = [p \in Posts |-> readers[p] \ {w}]
  /\ UNCHANGED <<facts, events, done, notices, request, writer>>

\* The publisher may send a committed event a second time.
SendAgain(n) ==
  /\ n \in DOMAIN events /\ n \notin queue /\ faults < MaxFaults
  /\ faults' = faults + 1
  /\ queue' = queue \union {n}
  /\ UNCHANGED <<facts, events, done, notices, request, worker, locks>>

-----------------------------------------------------------------------------
Serve(r) == RequireExists(r) \/ LockPost(r) \/ Write(r) \/ Delete(r) \/ MarkRead(r)
Work(w) == Receive(w) \/ Share(w) \/ Insert(w) \/ Acknowledge(w)

Next ==
  \/ \E r \in Requests :
       \/ Serve(r) \/ Disconnect(r)
       \/ \E op \in Ops, p \in Posts, u \in Users : Ask(r, op, p, u)
  \/ \E w \in Workers : Work(w) \/ Die(w)
  \/ \E n \in 1 .. MaxEvents : SendAgain(n)

\* Statements that do not wait run, and the consumer goes on receiving; a lock
\* that becomes free again and again is granted in turn.
Fairness ==
  /\ \A r \in Requests : WF_vars(Serve(r)) /\ SF_vars(LockPost(r))
  /\ \A w \in Workers : WF_vars(Work(w)) /\ SF_vars(Share(w))

Spec == Init /\ [][Next]_vars /\ Fairness

-----------------------------------------------------------------------------
TypeOK ==
  /\ posts \subseteq Posts
  /\ likes \subseteq Posts \X Users /\ bookmarks \subseteq Posts \X Users
  /\ queue \union done \subseteq DOMAIN events
  /\ \A r \in Requests : request[r].ended \in {"no", "ok", "not_found", "internal", "lost"}
  /\ \A p \in Posts : Cardinality(writer[p]) <= 1
  /\ faults \in 0 .. MaxFaults

\* delete.go, notification/repository.go: no row names a post that is gone, so
\* that no foreign key ever refuses a statement; and a notice whose post is shown
\* as deleted is one of a post that is.
NothingDangles ==
  /\ \A x \in likes \union bookmarks : x[1] \in posts
  /\ \A c \in comments : c.post \in posts
  /\ \A n \in notices :
       /\ n.post = None \/ n.post \in posts
       /\ n.post = None => events[n.event].post \notin posts
       /\ n.comment => \E c \in comments : c.event = n.event

\* notification/repository.go: whatever is delivered again, to whichever worker, an
\* event becomes one notice, of another user's act, and an acknowledged event has
\* become one.
OneNoticeEach ==
  /\ \A m, n \in notices : m.event = n.event => m = n
  /\ \A n \in notices : events[n.event].by # n.to
  /\ \A n \in done : \E m \in notices : m.event = n

\* The events of u's likes of p, and the requests that took a like of his back.
Told(p, u) ==
  {n \in DOMAIN events : events[n].kind = "like" /\ events[n].post = p /\ events[n].by = u}
Unliked(p, u) ==
  {r \in Requests : /\ request[r].op = "unlike" /\ request[r].ended = "ok"
                    /\ request[r].post = p /\ request[r].user = u}

\* like/repository.go: a user's likes of a post are announced once for each time
\* the like came to be; the repetition of a request announces nothing.
LikeAnnouncedOnce ==
  \A p \in Posts, u \in Readers : Cardinality(Told(p, u)) <= 1 + Cardinality(Unliked(p, u))

\* like, comment and bookmark/service.go against api/openapi.yaml, by which an
\* operation on a post that does not exist answers 404 post_not_found.
MissingIsNotFound == \A r \in Requests : request[r].ended # "internal"

\* Under the fairness above every committed event becomes a notice, whatever the
\* broker repeats and the workers lose, and every request is answered.
EveryEventNoticed ==
  /\ \A n \in 1 .. MaxEvents : (n \in DOMAIN events) ~> (n \in done)
  /\ \A r \in Requests : (request[r].at = "lock") ~> (request[r].at = "done")
=============================================================================
