------------------------------ MODULE Accounts ------------------------------
(***************************************************************************)
(* Accounts of the business database: registration and sessions, the one    *)
(* bootstrap administrator, changes of roles with their audit, and the      *)
(* follow relation.  The transactions take row locks one by one, and the    *)
(* database ends a cycle of waiting by rolling one of them back.            *)
(***************************************************************************)
EXTENDS Naturals, Sequences, FiniteSets

CONSTANTS Users,       \* account identifiers
          Admins,      \* those registered, and administrators once there is a root
          Requests,    \* one per HTTP request or command
          Ops,         \* what they ask: "follow", "unfollow", "role", "declare"
          TTL,         \* lifetime of a session, in seconds of the model
          MaxTime,     \* bound: the clock
          MaxFaults    \* bound: requests lost with their connection

Nobody == "nobody"
Rows == Users \union {"singleton"}
Pairs == {p \in Users \X Users : p[1] # p[2]}

VARIABLES role,        \* users.role, "none" for an account that is not there
          root,        \* bootstrap_super_admin.user_id
          audit,       \* management_audit_events of roles, in commit order
          follows,     \* user_follows
          announced,   \* user.followed events written to the outbox
          session,     \* when the session each user holds was issued, 0 for none
          now, request,
          exclusive,   \* row -> the requests that hold its X lock (at most one)
          shared,      \* row -> the requests that hold its S lock
          gap,         \* requests that locked the gap of the missing singleton
          faults

vars == <<role, root, audit, follows, announced, session, now, request,
          exclusive, shared, gap, faults>>
tables == <<role, root, audit, follows, announced>>
locks == <<exclusive, shared, gap>>

\* A request: what it asks, of whom, the next statement, the role found under the lock.
Begun(op, at, actor, target, next) ==
  [op |-> op, at |-> at, actor |-> actor, target |-> target, next |-> next,
   before |-> "none", ended |-> "no"]
Idle == Begun("none", "idle", Nobody, Nobody, "none")

\* Without a root nobody has been promoted; with one, all the first accounts.
FirstRole(undeclared) == IF undeclared THEN "user" ELSE "super_admin"

Init ==
  /\ root \in Admins \union {Nobody}
  /\ role = [u \in Users |-> IF u \in Admins THEN FirstRole(root = Nobody) ELSE "none"]
  /\ audit = << >>
  /\ follows = {} /\ announced = [p \in Pairs |-> 0]
  /\ session = [u \in Users |-> 0]
  /\ now = 1
  /\ request = [r \in Requests |-> Idle]
  /\ exclusive = [w \in Rows |-> {}] /\ shared = [w \in Rows |-> {}]
  /\ gap = {}
  /\ faults = 0

-----------------------------------------------------------------------------
(* Sessions.                                                                *)

\* token.go: a token is good from its second of issue until its expiry.
Valid(issued) == issued > 0 /\ issued <= now /\ now < issued + TTL

Tick == now < MaxTime /\ now' = now + 1
        /\ UNCHANGED <<tables, session, request, locks, faults>>

\* The account and its unique name are one INSERT, and the token follows it.
Register(u) ==
  /\ role[u] = "none"
  /\ role' = [role EXCEPT ![u] = "user"]
  /\ session' = [session EXCEPT ![u] = now]
  /\ UNCHANGED <<root, audit, follows, announced, now, request, locks, faults>>

Login(u) ==
  /\ role[u] # "none" /\ session[u] # now
  /\ session' = [session EXCEPT ![u] = now]
  /\ UNCHANGED <<tables, now, request, locks, faults>>

\* The cookie is cleared; the token itself stays good until it expires.
Logout(u) ==
  /\ session[u] # 0
  /\ session' = [session EXCEPT ![u] = 0]
  /\ UNCHANGED <<tables, now, request, locks, faults>>

-----------------------------------------------------------------------------
(* Requests.  `at` names the next statement.                                *)

Start(r, new) ==
  /\ request[r].at = "idle" /\ new.op \in Ops
  /\ request' = [request EXCEPT ![r] = new]
  /\ UNCHANGED <<tables, session, now, locks, faults>>

AskFollow(r, u, v, op) ==
  /\ Valid(session[u]) /\ u # v
  /\ Start(r, Begun(op, "actor", u, v, "none"))

\* The middleware reads the role from MySQL, never from the token, and the
\* installation must have its bootstrap account.
AskRole(r, u, v, next) ==
  /\ Valid(session[u])
  /\ Start(r, Begun("role", "authorize", u, v, next))

AskDeclare(r, u) ==
  /\ role[u] # "none"
  /\ Start(r, Begun("declare", "root", u, u, "super_admin"))

Authorize(r) ==
  /\ request[r].at = "authorize"
  /\ request' = [request EXCEPT ![r].at =
       IF role[request[r].actor] = "super_admin" /\ root # Nobody
         THEN "actor" ELSE "done",
       ![r].ended = IF role[request[r].actor] = "super_admin" /\ root # Nobody
                      THEN "no" ELSE "denied"]
  /\ UNCHANGED <<tables, session, now, locks, faults>>

\* Which transactions keep the next statement of r waiting.
Others(r, w) == exclusive[w] \ {r}
Blockers(r) ==
  LET q == request[r] IN
  CASE q.at = "actor" -> Others(r, q.actor) \union (shared[q.actor] \ {r})
    [] q.at = "target" -> Others(r, q.target) \union (shared[q.target] \ {r})
    [] q.at = "root" -> Others(r, "singleton")
    [] q.at = "insert_root" -> Others(r, "singleton") \union (gap \ {r})
    [] q.at = "insert_follow" -> Others(r, q.target)
    [] OTHER -> {}

Free(r) == Blockers(r) = {}

Release(r) ==
  /\ exclusive' = [w \in Rows |-> exclusive[w] \ {r}]
  /\ shared' = [w \in Rows |-> shared[w] \ {r}]
  /\ gap' = gap \ {r}

\* A rollback, or a commit without a write.
End(r, how) ==
  /\ request' = [request EXCEPT ![r].at = "done", ![r].ended = how]
  /\ Release(r)
  /\ UNCHANGED <<tables, session, now, faults>>

\* SELECT ... FOR UPDATE of a row of users.
Lock(r, w, then) ==
  /\ exclusive' = [exclusive EXCEPT ![w] = @ \union {r}]
  /\ request' = [request EXCEPT ![r] = then]
  /\ UNCHANGED <<tables, session, now, shared, gap, faults>>

\* As it would be if the check of the middleware were trusted.
LockActorOnly(r) ==
  LET q == request[r] IN
  /\ q.at = "actor" /\ Free(r)
  /\ Lock(r, q.actor, [q EXCEPT !.at = IF q.op = "role" THEN "target"
                                                        ELSE "insert_follow"])

\* The first locked row: a follow has found its follower, a role change checks
\* the role of the actor again, now under the lock.
LockActor(r) ==
  LET q == request[r] IN
  /\ q.at = "actor" /\ Free(r)
  /\ CASE q.op = "role" /\ role[q.actor] # "super_admin" -> End(r, "denied")
       [] q.op = "role" /\ role[q.actor] = "super_admin" ->
            Lock(r, q.actor, [q EXCEPT !.at = "target"])
       [] OTHER -> Lock(r, q.actor, [q EXCEPT !.at = "insert_follow"])

LockTarget(r) ==
  LET q == request[r] IN
  /\ q.at = "target" /\ Free(r)
  /\ IF role[q.target] = "none" THEN End(r, "not_found")
     ELSE IF q.op = "role"
       THEN Lock(r, q.target, [q EXCEPT !.at = "root", !.before = role[q.target]])
       ELSE Lock(r, q.target, [q EXCEPT !.before = role[q.target],
               !.at = IF root = Nobody THEN "insert_root" ELSE "commit"])

\* A missing singleton leaves a lock on the gap, which others may take as well.
LockRoot(r) ==
  LET q == request[r] IN
  /\ q.at = "root" /\ Free(r)
  /\ IF root = Nobody
       THEN IF q.op = "role" THEN End(r, "denied")
            ELSE /\ gap' = gap \union {r}
                 /\ request' = [request EXCEPT ![r].at = "target"]
                 /\ UNCHANGED <<tables, session, now, exclusive, shared, faults>>
       ELSE IF (q.op = "declare" /\ root # q.target)
               \/ (q.op = "role" /\ root = q.target /\ q.next # "super_admin")
              THEN End(r, "protected")
              ELSE Lock(r, "singleton", [q EXCEPT !.at =
                     IF q.op = "role" THEN "commit" ELSE "target"])

\* The insert of the singleton waits for every other lock on the gap.
InsertRoot(r) ==
  /\ request[r].at = "insert_root" /\ Free(r)
  /\ Lock(r, "singleton", [request[r] EXCEPT !.at = "commit"])

\* The foreign key takes an S lock on the followed account; a pair that is there
\* already ends the transaction without an event.
WriteFollow(r) ==
  LET q == request[r]  p == <<q.actor, q.target>> IN
  /\ q.at = "insert_follow"
  /\ IF role[q.target] = "none" THEN End(r, "not_found")
     ELSE IF q.op = "follow" /\ p \in follows THEN End(r, "ok")
     ELSE /\ q.op = "follow" => Free(r)
          /\ request' = [request EXCEPT ![r].at = "commit"]
          /\ shared' = IF q.op = "follow" THEN [shared EXCEPT ![q.target] = @ \union {r}]
                                          ELSE shared
          /\ UNCHANGED <<tables, session, now, exclusive, gap, faults>>

Entry(q) == [by |-> IF q.op = "declare" THEN Nobody ELSE q.actor, user |-> q.target,
             before |-> q.before, after |-> q.next]

Commit(r) ==
  LET q == request[r]  p == <<q.actor, q.target>>
      changes == \/ q.op = "role" /\ q.before # q.next
                 \/ q.op = "declare" /\ root = Nobody IN
  /\ q.at = "commit"
  /\ role' = IF changes THEN [role EXCEPT ![q.target] = q.next] ELSE role
  /\ audit' = IF changes THEN Append(audit, Entry(q)) ELSE audit
  /\ root' = IF q.op = "declare" THEN q.target ELSE root
  /\ follows' = CASE q.op = "follow" -> follows \union {p}
                  [] q.op = "unfollow" -> follows \ {p}
                  [] OTHER -> follows
  /\ announced' = IF q.op = "follow" THEN [announced EXCEPT ![p] = @ + 1] ELSE announced
  /\ request' = [request EXCEPT ![r].at = "done", ![r].ended = "ok"]
  /\ Release(r)
  /\ UNCHANGED <<session, now, faults>>

InTransaction(r) == request[r].at \notin {"idle", "authorize", "done"}

\* InnoDB rolls back a member of a cycle of waiting transactions.
Cycle(r) ==
  \E s \in Blockers(r) : \/ r \in Blockers(s)
                         \/ \E t \in Blockers(s) : r \in Blockers(t)
Victim(r) == InTransaction(r) /\ Cycle(r) /\ End(r, "deadlock")

Disconnect(r) ==
  /\ InTransaction(r) /\ faults < MaxFaults
  /\ request' = [request EXCEPT ![r].at = "done", ![r].ended = "lost"]
  /\ Release(r) /\ faults' = faults + 1
  /\ UNCHANGED <<tables, session, now>>

Advance(r) ==
  \/ Authorize(r) \/ LockActor(r) \/ LockTarget(r) \/ LockRoot(r)
  \/ InsertRoot(r) \/ WriteFollow(r) \/ Commit(r) \/ Victim(r)

Next ==
  \/ Tick
  \/ \E u \in Users : Register(u) \/ Login(u) \/ Logout(u)
  \/ \E r \in Requests :
       \/ Advance(r) \/ Disconnect(r)
       \/ \E u, v \in Users :
            \/ AskFollow(r, u, v, "follow") \/ AskFollow(r, u, v, "unfollow")
            \/ AskRole(r, u, v, "user") \/ AskRole(r, u, v, "super_admin")
       \/ \E u \in Users : AskDeclare(r, u)

\* The database runs every statement that is not waiting.
Fairness == \A r \in Requests : WF_vars(Advance(r))

Spec == Init /\ [][Next]_vars /\ Fairness

-----------------------------------------------------------------------------
TypeOK ==
  /\ role \in [Users -> {"none", "user", "super_admin"}]
  /\ root \in Users \union {Nobody}
  /\ follows \subseteq Pairs /\ DOMAIN announced = Pairs
  /\ now \in 1 .. MaxTime /\ faults \in 0 .. MaxFaults
  /\ \A w \in Rows : Cardinality(exclusive[w]) <= 1
  /\ \A w \in Users : exclusive[w] # {} => shared[w] \subseteq exclusive[w]

\* The role an account begins with: without a root at the start nobody was promoted.
Initially(u) ==
  IF u \in Admins
    THEN FirstRole(root = Nobody \/ \E i \in DOMAIN audit : audit[i].by = Nobody)
    ELSE "user"

\* u, whose role began as `first`, has the role x after the first n entries.
After(first, entries, n, u, x) ==
  \E i \in 0 .. n :
    /\ \A j \in i + 1 .. n : entries[j].user # u
    /\ IF i = 0 THEN x = first ELSE entries[i].user = u /\ entries[i].after = x

\* management.go: in the order of the commits, every change of a role starts from
\* the role the one before left, was made by a user who was an administrator at
\* that point, and the last one is the role in force: administrators who act on
\* each other at the same time do not both succeed, and no change escapes audit.
AuditExplainsRoles ==
  /\ \A u \in Users : role[u] # "none" =>
       After(Initially(u), audit, Len(audit), u, role[u])
  /\ \A i \in DOMAIN audit : LET e == audit[i] IN
       /\ After(Initially(e.user), audit, i - 1, e.user, e.before)
       /\ e.by # Nobody => After(Initially(e.by), audit, i - 1, e.by, "super_admin")

\* management.go: at most one account is ever declared, and whoever changes roles
\* at the same time, it remains an administrator.
RootStands ==
  /\ root # Nobody => role[root] = "super_admin"
  /\ Cardinality({i \in DOMAIN audit : audit[i].by = Nobody}) <= 1

\* The requests that ended a pair.
Undone(p) ==
  {r \in Requests : /\ request[r].op = "unfollow" /\ request[r].ended = "ok"
                    /\ request[r].actor = p[1] /\ request[r].target = p[2]}

\* follow.go: a pair in force has been announced, and once for each time it came
\* to be: a request repeated after a lost answer, or sent twice, announces nothing.
AnnouncedOnce ==
  \A p \in Pairs : /\ p \in follows => announced[p] > 0
                   /\ announced[p] <= 1 + Cardinality(Undone(p))

\* Under a database that goes on, cycles of waiting included, every request ends.
EveryRequestEnds == \A r \in Requests : InTransaction(r) ~> request[r].at = "done"
=============================================================================
