---------------------------- MODULE RequestsProofs ----------------------------
(***************************************************************************)
(* What holds of Social, the relations between users and posts, of         *)
(* Accounts and of StageQueries in every behaviour of MCRequests, for every *)
(* value of their constants: the variables of each are in their initial     *)
(* state unless `part` names it, and the steps of the other components      *)
(* leave them alone.                                                        *)
(***************************************************************************)
EXTENDS MCRequests, CountingFacts, TLAPS

Endings == {"no", "ok", "not_found", "internal", "lost"}
Calls == [at : {"idle", "exists", "lock", "commit", "done"}, op : Ops \cup {"none"},
          post : Posts \cup {None}, user : Users \cup {"none"}, ended : Endings]
Jobs == [at : {"free", "share", "insert", "ack"}, event : Nat, post : Posts \cup {None}]
Announcements == [kind : {"like", "comment"}, post : Posts, by : Users]
Notifications == [event : Nat, to : {Owner}, post : Posts \cup {None},
                  comment : BOOLEAN, read : BOOLEAN]

SocialTypes ==
  /\ posts \subseteq Posts
  /\ likes \subseteq Posts \X Users /\ bookmarks \subseteq Posts \X Users
  /\ comments \subseteq [post : Posts, by : Users, event : Nat]
  /\ events \in Seq(Announcements)
  /\ queue \subseteq DOMAIN events /\ done \subseteq DOMAIN events
  /\ notices \subseteq Notifications
  /\ \A n \in notices : n.event \in DOMAIN events
  /\ request \in [Requests -> Calls] /\ worker \in [Workers -> Jobs]
  /\ \A r \in Requests :
       /\ request[r].at # "done" => request[r].ended = "no"
       /\ request[r].at \notin {"idle", "done"} =>
            request[r].op \in Ops /\ request[r].post \in Posts /\ request[r].user \in Users
  /\ writer \in [Posts -> SUBSET Requests] /\ readers \in [Posts -> SUBSET Workers]
  /\ faults \in 0..MaxFaults

\* The request has its post's row locked and is about to commit.
Holds(r) == request[r].at = "commit" /\ request[r].op \notin {"unlike", "read"}

\* A writer shares a row with nobody.  Who is about to write on behalf of a post has
\* its row locked, and the row is there.
LocksHeld ==
  /\ \A p \in Posts : \/ writer[p] = {}
                      \/ readers[p] = {} /\ \E r \in Requests : writer[p] = {r}
  /\ \A r \in Requests : Holds(r) => /\ request[r].post \in posts
                                     /\ writer[request[r].post] = {r}
  /\ \A w \in Workers : worker[w].at = "insert" /\ worker[w].post # None =>
                          /\ worker[w].post \in posts
                          /\ w \in readers[worker[w].post]

RowsHavePosts ==
  /\ \A x \in likes \cup bookmarks : x[1] \in posts
  /\ \A c \in comments : c.post \in posts

\* An event is of another user's act, and that of a comment has its row while the post
\* is there.
EventsTrue ==
  \A n \in DOMAIN events :
    /\ events[n].by # Owner
    /\ events[n].kind = "comment" /\ events[n].post \in posts =>
         \E c \in comments : c.event = n /\ c.post = events[n].post

\* A delivery is of the post of its event, or of none because the post is gone.
DeliveriesTrue ==
  \A w \in Workers : worker[w].at # "free" =>
    /\ worker[w].event \in DOMAIN events
    /\ worker[w].at = "share" => worker[w].post = events[worker[w].event].post
    /\ worker[w].at = "insert" =>
         \/ worker[w].post = events[worker[w].event].post
         \/ worker[w].post = None /\ events[worker[w].event].post \notin posts
    /\ worker[w].at = "ack" => \E n \in notices : n.event = worker[w].event

NoticesTrue ==
  /\ \A n \in notices :
       /\ \/ n.post = None /\ events[n.event].post \notin posts
          \/ n.post \in posts /\ n.post = events[n.event].post
       /\ n.comment => n.post # None /\ events[n.event].kind = "comment"
  /\ \A m, n \in notices : m.event = n.event => m = n
  /\ \A n \in done : \E m \in notices : m.event = n

\* A like that is there, or went with its post, may have been announced once more than
\* likes have been taken back.
LikesBalance(p, u) ==
  Cardinality(Told(p, u)) <= Cardinality(Unliked(p, u))
                               + (IF p \notin posts \/ <<p, u>> \in likes THEN 1 ELSE 0)
LikesCounted == \A p \in Posts, u \in Readers : LikesBalance(p, u)

\* The inductive invariant of Social.
SocialInv ==
  /\ SocialTypes /\ LocksHeld /\ RowsHavePosts /\ EventsTrue /\ DeliveriesTrue
  /\ NoticesTrue /\ LikesCounted
LEMMA SocialInit == Init => SocialInv
<1> SUFFICES ASSUME Init PROVE SocialInv
  OBVIOUS
<1>1. SocialTypes
  <2>1. /\ Idle \in Calls /\ Idle.at = "idle" /\ Idle.ended = "no"
        /\ Free \in Jobs /\ Free.at = "free"
    BY DEF Idle, Free, Calls, Jobs, Endings
  <2>2. events = <<>> /\ events \in Seq(Announcements)
    BY DEF Init
  <2>3. QED
    BY SocialAssumption, <2>1, <2>2 DEF Init, SocialTypes
<1>2. LocksHeld
  BY DEF Init, LocksHeld, Holds, Idle, Free
<1>3. RowsHavePosts /\ EventsTrue /\ DeliveriesTrue /\ NoticesTrue
  BY DEF Init, RowsHavePosts, EventsTrue, DeliveriesTrue, NoticesTrue, Free
<1>4. LikesCounted
  <2> SUFFICES ASSUME NEW p \in Posts, NEW u \in Readers
               PROVE  LikesBalance(p, u)
    BY DEF LikesCounted
  <2>1. Told(p, u) = {} /\ Unliked(p, u) = {} /\ p \in posts /\ likes = {}
    BY DEF Init, Told, Unliked, Idle
  <2>2. QED
    BY <2>1, FS_EmptySet DEF LikesBalance
<1>5. QED
  BY <1>1, <1>2, <1>3, <1>4 DEF SocialInv

LEMMA Ended ==
  ASSUME SocialTypes, NEW r \in Requests, NEW how \in Endings, Ends(r, how)
  PROVE  /\ request' \in [Requests -> Calls]
         /\ request'[r].at = "done" /\ request'[r].ended = how
         /\ request'[r].op = request[r].op /\ request'[r].post = request[r].post
         /\ request'[r].user = request[r].user
         /\ \A x \in Requests \ {r} : request'[x] = request[x]
BY DEF SocialTypes, Calls, Ends

LEMMA Moved ==
  ASSUME SocialTypes, NEW r \in Requests, NEW a \in {"idle", "exists", "lock", "commit", "done"},
         request' = [request EXCEPT ![r].at = a]
  PROVE  /\ request' \in [Requests -> Calls]
         /\ request'[r].at = a /\ request'[r].ended = request[r].ended
         /\ request'[r].op = request[r].op /\ request'[r].post = request[r].post
         /\ request'[r].user = request[r].user
         /\ \A x \in Requests \ {r} : request'[x] = request[x]
BY DEF SocialTypes, Calls

\* The rest of the invariant does not mind what a request does that takes no like back.
LEMMA RequestsOnly ==
  ASSUME SocialInv, NEW r \in Requests, request[r].ended = "no",
         request'[r].ended # "ok", \A x \in Requests \ {r} : request'[x] = request[x],
         UNCHANGED <<facts, events, done, notices, worker>>
  PROVE  /\ RowsHavePosts' /\ EventsTrue' /\ DeliveriesTrue' /\ NoticesTrue' /\ LikesCounted'
<1>1. RowsHavePosts /\ EventsTrue /\ DeliveriesTrue /\ NoticesTrue /\ LikesCounted
  BY DEF SocialInv
<1>2. RowsHavePosts' /\ EventsTrue' /\ DeliveriesTrue' /\ NoticesTrue'
  BY <1>1 DEF facts, RowsHavePosts, EventsTrue, DeliveriesTrue, NoticesTrue
<1>3. \A p, u : Told(p, u)' = Told(p, u)
  BY DEF Told
<1>4. \A p, u : Unliked(p, u)' = Unliked(p, u)
  BY DEF Unliked
<1>5. LikesCounted'
  <2> SUFFICES ASSUME NEW p \in Posts, NEW u \in Readers PROVE LikesBalance(p, u)'
    BY DEF LikesCounted
  <2>1. LikesBalance(p, u)
    BY <1>1 DEF LikesCounted
  <2>2. QED
    BY <1>3, <1>4, <2>1 DEF facts, LikesBalance
<1>6. QED
  BY <1>2, <1>5

LEMMA SocialAsk ==
  ASSUME SocialInv, NEW r \in Requests, NEW op \in Ops, NEW p \in Posts, NEW u \in Users,
         Ask(r, op, p, u)
  PROVE  SocialInv'
<1>1. SocialTypes /\ LocksHeld
  BY DEF SocialInv
<1> DEFINE c == [at |-> "exists", op |-> op, post |-> p, user |-> u, ended |-> "no"]
<1>2. c \in Calls /\ c.at = "exists" /\ c.op = op /\ c.post = p /\ c.user = u /\ c.ended = "no"
  BY DEF Calls, Endings
<1>3. request[r].at = "idle" /\ request' = [request EXCEPT ![r] = c]
  BY DEF Ask
<1> HIDE DEF c
<1>4. /\ request' \in [Requests -> Calls] /\ request'[r] = c
      /\ \A x \in Requests \ {r} : request'[x] = request[x]
  BY <1>1, <1>2, <1>3 DEF SocialTypes
<1>5. UNCHANGED <<facts, events, broker, notices, worker, locks, faults>>
  BY DEF Ask
<1>6. SocialTypes'
  BY <1>1, <1>2, <1>4, <1>5 DEF SocialTypes, facts, broker, locks
<1>7. LocksHeld'
  BY <1>1, <1>2, <1>4, <1>5 DEF LocksHeld, Holds, facts, locks
<1>8. request[r].ended = "no" /\ request'[r].ended # "ok"
  BY <1>1, <1>2, <1>3, <1>4 DEF SocialTypes
<1>9. QED
  BY <1>4, <1>5, <1>6, <1>7, <1>8, RequestsOnly DEF SocialInv, broker

LEMMA SocialRequireExists ==
  ASSUME SocialInv, NEW r \in Requests, RequireExists(r)
  PROVE  SocialInv'
<1>1. SocialTypes /\ LocksHeld
  BY DEF SocialInv
<1>2. request[r].at = "exists" /\ request[r].ended = "no"
  BY <1>1 DEF RequireExists, SocialTypes
<1>3. UNCHANGED <<facts, events, broker, notices, worker, locks, faults>>
  BY DEF RequireExists
<1>4. /\ request' \in [Requests -> Calls]
      /\ request'[r].op = request[r].op /\ request'[r].post = request[r].post
      /\ request'[r].user = request[r].user
      /\ \A x \in Requests \ {r} : request'[x] = request[x]
      /\ \/ request'[r].at = "done" /\ request'[r].ended = "not_found"
         \/ request'[r].at = "lock" /\ request'[r].ended = "no"
         \/ request'[r].at = "commit" /\ request'[r].ended = "no" /\ ~Holds(r)'
  <2>1. CASE Ends(r, "not_found")
    BY <1>1, <2>1, Ended DEF Endings
  <2>2. CASE request[r].op \in {"unlike", "read"} /\ request' = [request EXCEPT ![r].at = "commit"]
    BY <1>1, <1>2, <2>2, Moved DEF Holds
  <2>3. CASE request' = [request EXCEPT ![r].at = "lock"]
    BY <1>1, <1>2, <2>3, Moved
  <2>4. QED
    BY <2>1, <2>2, <2>3 DEF RequireExists
<1>5. SocialTypes'
  BY <1>1, <1>2, <1>3, <1>4 DEF SocialTypes, facts, broker, locks
<1>6. LocksHeld'
  <2>1. \A x \in Requests : Holds(x)' => x # r /\ Holds(x)
    BY <1>4 DEF Holds
  <2>2. QED
    BY <1>1, <1>3, <1>4, <2>1 DEF LocksHeld, facts, locks
<1>7. QED
  BY <1>2, <1>3, <1>4, <1>5, <1>6, RequestsOnly DEF SocialInv, broker

\* The row is locked when nobody else has it, and only when it is there.
LEMMA SocialLockPost ==
  ASSUME SocialInv, NEW r \in Requests, LockPost(r)
  PROVE  SocialInv'
<1> DEFINE p == request[r].post
<1>1. SocialTypes /\ LocksHeld
  BY DEF SocialInv
<1>2. request[r].at = "lock" /\ request[r].ended = "no" /\ p \in Posts
  BY <1>1 DEF LockPost, SocialTypes
<1>3. UNCHANGED <<facts, events, broker, notices, worker, readers, faults>>
  BY DEF LockPost
<1>4. CASE p \in posts
  <2>1. /\ writer[p] = {} /\ readers[p] = {}
        /\ writer' = [writer EXCEPT ![p] = {r}] /\ request' = [request EXCEPT ![r].at = "commit"]
    BY <1>4 DEF LockPost
  <2>2. /\ request' \in [Requests -> Calls]
        /\ request'[r].at = "commit" /\ request'[r].ended = "no"
        /\ request'[r].op = request[r].op /\ request'[r].post = p
        /\ request'[r].user = request[r].user
        /\ \A x \in Requests \ {r} : request'[x] = request[x]
    BY <1>1, <1>2, <2>1, Moved
  <2>3. /\ writer' \in [Posts -> SUBSET Requests] /\ writer'[p] = {r}
        /\ \A x \in Posts \ {p} : writer'[x] = writer[x]
    BY <1>1, <1>2, <2>1 DEF SocialTypes
  <2>4. SocialTypes'
    BY <1>1, <1>2, <1>3, <2>2, <2>3 DEF SocialTypes, facts, broker
  <2>5. LocksHeld'
    <3>1. \A x \in Requests : Holds(x)' => x = r \/ (x # r /\ Holds(x) /\ request[x].post # p)
      BY <1>1, <2>1, <2>2 DEF LocksHeld, Holds
    <3>2. \A x \in Requests : Holds(x)' => /\ request'[x].post \in posts
                                           /\ writer'[request'[x].post] = {x}
      BY <1>1, <1>4, <2>2, <2>3, <3>1 DEF LocksHeld, SocialTypes
    <3>3. \A x \in Posts : writer'[x] = {} \/ (readers[x] = {} /\ \E y \in Requests : writer'[x] = {y})
      BY <1>1, <2>1, <2>3 DEF LocksHeld
    <3>4. QED
      BY <1>1, <1>3, <3>2, <3>3 DEF LocksHeld, facts
  <2>6. QED
    BY <1>2, <1>3, <2>2, <2>4, <2>5, RequestsOnly DEF SocialInv, broker
<1>5. CASE p \notin posts
  <2>1. Ends(r, Vanished(request[r].op)) /\ writer' = writer
    BY <1>5 DEF LockPost
  <2>2. Vanished(request[r].op) \in {"not_found", "internal"}
    BY DEF Vanished
  <2>3. /\ request' \in [Requests -> Calls]
        /\ request'[r].at = "done" /\ request'[r].ended \in {"not_found", "internal"}
        /\ \A x \in Requests \ {r} : request'[x] = request[x]
    BY <1>1, <2>1, <2>2, Ended DEF Endings
  <2>4. SocialTypes'
    BY <1>1, <1>3, <2>1, <2>3 DEF SocialTypes, facts, broker
  <2>5. LocksHeld'
    BY <1>1, <1>3, <2>1, <2>3 DEF LocksHeld, Holds, facts
  <2>6. QED
    BY <1>2, <1>3, <2>3, <2>4, <2>5, RequestsOnly DEF SocialInv, broker
<1>6. QED
  BY <1>4, <1>5

\* A connection that is lost gives up the request's lock and nobody else's.
LEMMA SocialDisconnect ==
  ASSUME SocialInv, NEW r \in Requests, Disconnect(r)
  PROVE  SocialInv'
<1>1. SocialTypes /\ LocksHeld
  BY DEF SocialInv
<1>2. request[r].at = "commit" /\ request[r].ended = "no"
  BY <1>1 DEF Disconnect, SocialTypes
<1>3. /\ UNCHANGED <<facts, events, broker, notices, worker, readers>>
      /\ faults < MaxFaults /\ faults' = faults + 1
      /\ writer' = [p \in Posts |-> writer[p] \ {r}]
  BY DEF Disconnect
<1>4. /\ request' \in [Requests -> Calls]
      /\ request'[r].at = "done" /\ request'[r].ended = "lost"
      /\ \A x \in Requests \ {r} : request'[x] = request[x]
  BY <1>1, Ended DEF Disconnect, Endings
<1>5. faults' \in 0..MaxFaults
  BY <1>1, <1>3, SocialAssumption DEF SocialTypes
<1>6. SocialTypes'
  BY <1>1, <1>3, <1>4, <1>5 DEF SocialTypes, facts, broker
<1>7. LocksHeld'
  BY <1>1, <1>3, <1>4 DEF LocksHeld, Holds, facts, SocialTypes
<1>8. QED
  BY <1>2, <1>3, <1>4, <1>6, <1>7, RequestsOnly DEF SocialInv, broker
LEMMA LikeCounts ==
  ASSUME SocialTypes, NEW p, NEW u
  PROVE  /\ IsFiniteSet(Told(p, u)) /\ Cardinality(Told(p, u)) \in Nat
         /\ IsFiniteSet(Unliked(p, u)) /\ Cardinality(Unliked(p, u)) \in Nat
<1>1. DOMAIN events = 1..Len(events) /\ Len(events) \in Nat
  BY DEF SocialTypes
<1>2. IsFiniteSet(1..Len(events))
  BY <1>1, FS_Interval
<1>3. Told(p, u) \subseteq 1..Len(events) /\ Unliked(p, u) \subseteq Requests
  BY <1>1 DEF Told, Unliked
<1>4. IsFiniteSet(Told(p, u)) /\ IsFiniteSet(Unliked(p, u))
  BY <1>2, <1>3, SocialAssumption, FS_Subset
<1>5. QED
  BY <1>4, FS_CardinalityType

\* The author's notices of a post are marked; nothing else of them changes.
LEMMA SocialMarkRead ==
  ASSUME SocialInv, NEW r \in Requests, MarkRead(r)
  PROVE  SocialInv'
<1> DEFINE q == request[r]
<1>1. SocialTypes /\ LocksHeld /\ NoticesTrue /\ DeliveriesTrue
  BY DEF SocialInv
<1>2. request[r].at = "commit" /\ request[r].ended = "no" /\ request[r].op = "read"
  BY <1>1 DEF MarkRead, SocialTypes
<1>3. /\ UNCHANGED <<facts, events, broker, worker, locks, faults>>
      /\ notices' = {Marked(n, q) : n \in notices}
  BY DEF MarkRead
<1>4. /\ request' \in [Requests -> Calls]
      /\ request'[r].at = "done" /\ request'[r].ended = "ok" /\ request'[r].op = "read"
      /\ \A x \in Requests \ {r} : request'[x] = request[x]
  BY <1>1, <1>2, Ended DEF MarkRead, Endings
<1>5. \A n \in notices : /\ Marked(n, q) \in Notifications
                         /\ Marked(n, q).event = n.event /\ Marked(n, q).post = n.post
                         /\ Marked(n, q).comment = n.comment
  BY <1>1 DEF Marked, SocialTypes, Notifications
<1> HIDE DEF q
<1>6. SocialTypes'
  BY <1>1, <1>2, <1>3, <1>4, <1>5 DEF SocialTypes, facts, broker, locks
<1>7. LocksHeld'
  BY <1>1, <1>3, <1>4 DEF LocksHeld, Holds, facts, locks
<1>8. NoticesTrue'
  BY <1>1, <1>3, <1>5 DEF NoticesTrue, facts, broker
<1>9. DeliveriesTrue'
  BY <1>1, <1>3, <1>5 DEF DeliveriesTrue, facts
<1>10. RowsHavePosts' /\ EventsTrue'
  BY <1>3 DEF SocialInv, RowsHavePosts, EventsTrue, facts
<1>11. LikesCounted'
  <2>1. \A p, u : Told(p, u)' = Told(p, u)
    BY <1>3 DEF Told
  <2>2. \A p, u : Unliked(p, u)' = Unliked(p, u)
    BY <1>2, <1>4 DEF Unliked
  <2>3. posts' = posts /\ likes' = likes /\ LikesCounted
    BY <1>3 DEF SocialInv, facts
  <2>4. SUFFICES ASSUME NEW p \in Posts, NEW u \in Readers PROVE LikesBalance(p, u)'
    BY DEF LikesCounted
  <2>5. LikesBalance(p, u)
    BY <2>3 DEF LikesCounted
  <2>6. QED
    BY <2>1, <2>2, <2>3, <2>5 DEF LikesBalance
<1>12. QED
  BY <1>6, <1>7, <1>8, <1>9, <1>10, <1>11 DEF SocialInv

\* The post goes with every row that names it, and no delivery that has read it is
\* under way: the writer's lock keeps them out.
LEMMA SocialDelete ==
  ASSUME SocialInv, NEW r \in Requests, Delete(r)
  PROVE  SocialInv'
<1> DEFINE p == request[r].post
<1>1. /\ SocialTypes /\ LocksHeld /\ RowsHavePosts /\ EventsTrue /\ DeliveriesTrue
      /\ NoticesTrue /\ LikesCounted
  BY DEF SocialInv
<1>2. /\ request[r].at = "commit" /\ request[r].ended = "no" /\ request[r].op = "delete"
      /\ Holds(r)
  BY <1>1 DEF Delete, SocialTypes, Holds
<1>3. /\ posts' = posts \ {p}
      /\ likes' = {x \in likes : x[1] # p} /\ bookmarks' = {x \in bookmarks : x[1] # p}
      /\ comments' = {c \in comments : c.post # p}
      /\ notices' = {Cleared(n, p) : n \in notices}
      /\ writer' = [writer EXCEPT ![p] = @ \ {r}]
      /\ UNCHANGED <<events, broker, worker, readers, faults>>
  BY DEF Delete
<1>4. p \in posts /\ p \in Posts /\ p # None /\ writer[p] = {r} /\ readers[p] = {}
  BY <1>1, <1>2, SocialAssumption DEF LocksHeld, SocialTypes
<1>5. /\ request' \in [Requests -> Calls]
      /\ request'[r].at = "done" /\ request'[r].ended = "ok" /\ request'[r].op = "delete"
      /\ \A x \in Requests \ {r} : request'[x] = request[x]
  BY <1>1, <1>2, Ended DEF Delete, Endings
<1>6. \A n \in notices :
        /\ Cleared(n, p) \in Notifications /\ Cleared(n, p).event = n.event
        /\ IF n.post = p THEN Cleared(n, p).post = None /\ ~Cleared(n, p).comment
                         ELSE Cleared(n, p) = n
  BY <1>1 DEF Cleared, SocialTypes, Notifications
<1>7. /\ writer' \in [Posts -> SUBSET Requests] /\ writer'[p] = {}
      /\ \A x \in Posts \ {p} : writer'[x] = writer[x]
  BY <1>1, <1>3, <1>4 DEF SocialTypes
<1> HIDE DEF p
<1>8. SocialTypes'
  BY <1>1, <1>2, <1>3, <1>5, <1>6, <1>7 DEF SocialTypes, broker
<1>9. LocksHeld'
  <2>1. \A x \in Requests : Holds(x)' => /\ x # r /\ Holds(x) /\ request[x].post # p
                                         /\ request'[x] = request[x]
    BY <1>1, <1>4, <1>5 DEF LocksHeld, Holds
  <2>2. \A x \in Requests : Holds(x)' => /\ request'[x].post \in posts'
                                         /\ writer'[request'[x].post] = {x}
    BY <1>1, <1>3, <1>7, <2>1 DEF LocksHeld, SocialTypes
  <2>3. \A x \in Posts : writer'[x] = {} \/ (readers[x] = {} /\ \E y \in Requests : writer'[x] = {y})
    BY <1>1, <1>7 DEF LocksHeld
  <2>4. \A w \in Workers : worker[w].at = "insert" /\ worker[w].post # None =>
                             worker[w].post \in posts' /\ w \in readers[worker[w].post]
    BY <1>1, <1>3, <1>4 DEF LocksHeld
  <2>5. QED
    BY <1>3, <2>2, <2>3, <2>4 DEF LocksHeld
<1>10. RowsHavePosts'
  BY <1>1, <1>3 DEF RowsHavePosts
<1>11. EventsTrue'
  BY <1>1, <1>3 DEF EventsTrue
<1>12. DeliveriesTrue'
  BY <1>1, <1>3, <1>6 DEF DeliveriesTrue
<1>13. NoticesTrue'
  <2>1. \A n \in notices' : \E m \in notices : n = Cleared(m, p)
    BY <1>3
  <2>2. \A n \in notices' :
       /\ \/ n.post = None /\ events[n.event].post \notin posts'
          \/ n.post \in posts' /\ n.post = events[n.event].post
       /\ n.comment => n.post # None /\ events[n.event].kind = "comment"
    <3> SUFFICES ASSUME NEW m \in notices, NEW n, n = Cleared(m, p)
                 PROVE  /\ \/ n.post = None /\ events[n.event].post \notin posts'
                           \/ n.post \in posts' /\ n.post = events[n.event].post
                        /\ n.comment => n.post # None /\ events[n.event].kind = "comment"
      BY <2>1
    <3>1. CASE m.post = p
      BY <1>1, <1>3, <1>4, <1>6, <3>1 DEF NoticesTrue
    <3>2. CASE m.post # p
      BY <1>1, <1>3, <1>4, <1>6, <3>2 DEF NoticesTrue
    <3>3. QED
      BY <3>1, <3>2
  <2>3. QED
    BY <1>1, <1>3, <1>6, <2>1, <2>2 DEF NoticesTrue, broker
<1>14. LikesCounted'
  <2>1. \A x, u : Told(x, u)' = Told(x, u) /\ Unliked(x, u)' = Unliked(x, u)
    BY <1>2, <1>3, <1>5 DEF Told, Unliked
  <2>2. \A x \in Posts, u \in Readers :
          x \notin posts \/ <<x, u>> \in likes => x \notin posts' \/ <<x, u>> \in likes'
    BY <1>3
  <2>3. \A x \in Posts, u \in Readers : /\ Cardinality(Told(x, u)) \in Nat
                                        /\ Cardinality(Unliked(x, u)) \in Nat
    BY <1>1, LikeCounts
  <2>4. SUFFICES ASSUME NEW x \in Posts, NEW u \in Readers PROVE LikesBalance(x, u)'
    BY DEF LikesCounted
  <2>5. LikesBalance(x, u)
    BY <1>1 DEF LikesCounted
  <2>6. QED
    BY <2>1, <2>2, <2>3, <2>5 DEF LikesBalance
<1>15. QED
  BY <1>8, <1>9, <1>10, <1>11, <1>12, <1>13, <1>14 DEF SocialInv
\* What an insertion adds to the events and to the queue.
LEMMA Announced ==
  ASSUME SocialTypes, NEW e \in Announcements, NEW n, n = Len(events) + 1,
         events' = Append(events, e), queue' = queue \cup {n}
  PROVE  /\ events' \in Seq(Announcements) /\ queue' \subseteq DOMAIN events'
         /\ n \in Nat /\ n \notin DOMAIN events /\ DOMAIN events' = DOMAIN events \cup {n}
         /\ events'[n] = e /\ \A i \in DOMAIN events : events'[i] = events[i]
<1>1. /\ events \in Seq(Announcements) /\ Len(events) \in Nat /\ DOMAIN events = 1..Len(events)
      /\ queue \subseteq DOMAIN events
  BY DEF SocialTypes
<1>2. /\ events' \in Seq(Announcements) /\ DOMAIN events' = 1..(Len(events) + 1)
      /\ events'[Len(events) + 1] = e /\ \A i \in 1..Len(events) : events'[i] = events[i]
  BY <1>1
<1>3. QED
  BY <1>1, <1>2

\* The fact and its event come together, under the row's lock; an unlike needs none.
LEMMA SocialWrite ==
  ASSUME SocialInv, NEW r \in Requests, Write(r)
  PROVE  SocialInv'
<1> DEFINE q == request[r]
           n == Len(events) + 1
           e == [kind |-> q.op, post |-> q.post, by |-> q.user]
           c == [post |-> q.post, by |-> q.user, event |-> IF Announces(q) THEN n ELSE 0]
<1>1. /\ SocialTypes /\ LocksHeld /\ RowsHavePosts /\ EventsTrue /\ DeliveriesTrue
      /\ NoticesTrue /\ LikesCounted
  BY DEF SocialInv
<1>2. /\ q.at = "commit" /\ q.ended = "no" /\ q.op \notin {"delete", "read"}
      /\ q.post \in Posts /\ q.user \in Users
      /\ q.op # "unlike" => Holds(r) /\ q.post \in posts
  BY <1>1 DEF Write, SocialTypes, Holds, LocksHeld
<1>3. /\ likes' = CASE q.op = "like" -> likes \union {Pair(q)}
                     [] q.op = "unlike" -> likes \ {Pair(q)}
                     [] OTHER -> likes
      /\ bookmarks' = CASE q.op = "bookmark" -> bookmarks \union {Pair(q)}
                         [] q.op = "unbookmark" -> bookmarks \ {Pair(q)}
                         [] OTHER -> bookmarks
      /\ comments' = IF q.op = "comment" THEN comments \union {c} ELSE comments
      /\ \/ Announces(q) /\ events' = Append(events, e) /\ queue' = queue \union {n}
         \/ ~Announces(q) /\ UNCHANGED <<events, queue>>
      /\ Ends(r, "ok")
      /\ writer' = [writer EXCEPT ![q.post] = @ \ {r}]
      /\ UNCHANGED <<posts, done, notices, worker, readers, faults>>
  BY DEF Write
<1>4. /\ n \in Nat /\ n \notin DOMAIN events
      /\ c \in [post : Posts, by : Users, event : Nat] /\ c.post = q.post
      /\ Announces(q) => c.event = n
      /\ e.kind = q.op /\ e.post = q.post /\ e.by = q.user
      /\ Announces(q) => /\ e \in Announcements /\ q.user # Owner
                         /\ q.op \in {"like", "comment"}
                         /\ q.op = "like" => Pair(q) \notin likes
  BY <1>1, <1>2 DEF Announces, NewFact, Announcements, SocialTypes
<1>5. /\ request' \in [Requests -> Calls]
      /\ request'[r].at = "done" /\ request'[r].ended = "ok" /\ request'[r].op = q.op
      /\ request'[r].post = q.post /\ request'[r].user = q.user
      /\ \A x \in Requests \ {r} : request'[x] = request[x]
  BY <1>1, <1>2, <1>3, Ended DEF Endings
<1>6. /\ writer' \in [Posts -> SUBSET Requests] /\ writer'[q.post] = writer[q.post] \ {r}
      /\ \A x \in Posts \ {q.post} : writer'[x] = writer[x]
  BY <1>1, <1>2, <1>3 DEF SocialTypes
<1>7. Pair(q) \in Posts \X Users /\ Pair(q)[1] = q.post /\ Pair(q) = <<q.post, q.user>>
  BY <1>2 DEF Pair
<1>8. /\ events' \in Seq(Announcements) /\ queue' \subseteq DOMAIN events'
      /\ DOMAIN events \subseteq DOMAIN events'
      /\ \A i \in DOMAIN events : events'[i] = events[i]
      /\ \A i \in DOMAIN events' \ DOMAIN events : Announces(q) /\ i = n /\ events'[i] = e
      /\ Announces(q) => n \in DOMAIN events' /\ events'[n] = e
  <2>1. CASE Announces(q) /\ events' = Append(events, e) /\ queue' = queue \union {n}
    <3>1. e \in Announcements
      BY <1>4, <2>1
    <3> HIDE DEF e, n
    <3>2. n = Len(events) + 1
      BY DEF n
    <3>3. /\ events' \in Seq(Announcements) /\ queue' \subseteq DOMAIN events'
          /\ DOMAIN events' = DOMAIN events \cup {n}
          /\ events'[n] = e /\ \A i \in DOMAIN events : events'[i] = events[i]
      BY <1>1, <2>1, <3>1, <3>2, Announced
    <3>4. QED
      BY <2>1, <3>3
  <2>2. CASE ~Announces(q) /\ UNCHANGED <<events, queue>>
    BY <1>1, <2>2 DEF SocialTypes
  <2>3. QED
    BY <1>3, <2>1, <2>2
<1> HIDE DEF q, n, e, c
<1>9. SocialTypes'
  <2>1. /\ likes' \subseteq Posts \X Users /\ bookmarks' \subseteq Posts \X Users
        /\ comments' \subseteq [post : Posts, by : Users, event : Nat]
    BY <1>1, <1>3, <1>4, <1>7 DEF SocialTypes
  <2>2. \A x \in Requests :
       /\ request'[x].at # "done" => request'[x].ended = "no"
       /\ request'[x].at \notin {"idle", "done"} =>
            request'[x].op \in Ops /\ request'[x].post \in Posts /\ request'[x].user \in Users
    BY <1>1, <1>5 DEF SocialTypes
  <2>3. /\ done' \subseteq DOMAIN events' /\ \A m \in notices' : m.event \in DOMAIN events'
    BY <1>1, <1>3, <1>8 DEF SocialTypes
  <2>4. QED
    BY <1>1, <1>3, <1>5, <1>6, <1>8, <2>1, <2>2, <2>3 DEF SocialTypes
<1>10. LocksHeld'
  <2>1. \A x \in Requests : Holds(x)' => x # r /\ Holds(x) /\ request'[x] = request[x]
    BY <1>5 DEF Holds
  <2>2. \A x \in Requests : Holds(x)' => /\ request'[x].post \in posts'
                                         /\ writer'[request'[x].post] = {x}
    <3> SUFFICES ASSUME NEW x \in Requests, Holds(x)'
                 PROVE  request'[x].post \in posts' /\ writer'[request'[x].post] = {x}
      OBVIOUS
    <3>1. /\ x # r /\ request'[x].post \in posts /\ request'[x].post \in Posts
          /\ writer[request'[x].post] = {x}
      BY <1>1, <2>1 DEF LocksHeld, SocialTypes
    <3>2. QED
      BY <1>3, <1>6, <3>1
  <2>3. \A x \in Posts : \/ writer'[x] = {}
                         \/ readers'[x] = {} /\ \E y \in Requests : writer'[x] = {y}
    BY <1>1, <1>3, <1>6 DEF LocksHeld
  <2>4. QED
    BY <1>1, <1>3, <2>2, <2>3 DEF LocksHeld
<1>11. RowsHavePosts'
  BY <1>1, <1>2, <1>3, <1>4, <1>7 DEF RowsHavePosts
<1>12. EventsTrue'
  <2>1. comments \subseteq comments'
    BY <1>3
  <2>2. Announces(q) /\ q.op = "comment" => c \in comments'
    BY <1>3
  <2>3. QED
    BY <1>1, <1>3, <1>4, <1>8, <2>1, <2>2 DEF EventsTrue
<1>13. DeliveriesTrue'
  BY <1>1, <1>3, <1>8 DEF DeliveriesTrue
<1>14. NoticesTrue'
  <2>1. \A m \in notices : m.event \in DOMAIN events /\ events'[m.event] = events[m.event]
    BY <1>1, <1>8 DEF SocialTypes
  <2>2. QED
    BY <1>1, <1>3, <2>1 DEF NoticesTrue
<1>15. LikesCounted'
  <2> SUFFICES ASSUME NEW x \in Posts, NEW u \in Readers PROVE LikesBalance(x, u)'
    BY DEF LikesCounted
  <2>1. LikesBalance(x, u)
    BY <1>1 DEF LikesCounted
  <2>2. Told(x, u)' = IF Announces(q) /\ q.op = "like" /\ x = q.post /\ u = q.user
                        THEN Told(x, u) \cup {n} ELSE Told(x, u)
    BY <1>4, <1>8 DEF Told
  <2>3. Unliked(x, u)' = IF q.op = "unlike" /\ x = q.post /\ u = q.user
                           THEN Unliked(x, u) \cup {r} ELSE Unliked(x, u)
    BY <1>2, <1>5 DEF Unliked, q
  <2>4. /\ IsFiniteSet(Told(x, u)) /\ Cardinality(Told(x, u)) \in Nat
        /\ IsFiniteSet(Unliked(x, u)) /\ Cardinality(Unliked(x, u)) \in Nat
    BY <1>1, LikeCounts
  <2>5. n \notin Told(x, u) /\ r \notin Unliked(x, u)
    BY <1>2, <1>4 DEF Told, Unliked, q
  <2>6. /\ Cardinality(Told(x, u) \cup {n}) = Cardinality(Told(x, u)) + 1
        /\ Cardinality(Unliked(x, u) \cup {r}) = Cardinality(Unliked(x, u)) + 1
    BY <2>4, <2>5, FS_AddElement
  <2>7. posts' = posts
    BY <1>3
  <2>8. CASE x = q.post /\ u = q.user /\ q.op = "unlike"
    <3>1. ~Announces(q)
      BY <1>4, <2>8
    <3>2. Told(x, u)' = Told(x, u) /\ Unliked(x, u)' = Unliked(x, u) \cup {r}
      BY <2>2, <2>3, <2>8, <3>1
    <3>3. QED
      BY <2>1, <2>4, <2>6, <2>7, <3>2 DEF LikesBalance
  <2>9. CASE x = q.post /\ u = q.user /\ q.op = "like"
    <3>1. Unliked(x, u)' = Unliked(x, u) /\ x \in posts /\ <<x, u>> \in likes'
      BY <1>2, <1>3, <1>7, <2>3, <2>9
    <3>2. CASE Announces(q)
      <4>1. Told(x, u)' = Told(x, u) \cup {n} /\ <<x, u>> \notin likes
        BY <1>4, <1>7, <2>2, <2>9, <3>2
      <4>2. QED
        BY <2>1, <2>4, <2>6, <2>7, <3>1, <4>1 DEF LikesBalance
    <3>3. CASE ~Announces(q)
      <4>1. Told(x, u)' = Told(x, u)
        BY <2>2, <3>3
      <4>2. QED
        BY <2>1, <2>4, <2>7, <3>1, <4>1 DEF LikesBalance
    <3>4. QED
      BY <3>2, <3>3
  <2>10. CASE ~(x = q.post /\ u = q.user /\ q.op \in {"like", "unlike"})
    <3>1. Told(x, u)' = Told(x, u) /\ Unliked(x, u)' = Unliked(x, u)
      BY <2>2, <2>3, <2>10
    <3>2. <<x, u>> \in likes' <=> <<x, u>> \in likes
      BY <1>3, <1>7, <2>10
    <3>3. QED
      BY <2>1, <2>7, <3>1, <3>2 DEF LikesBalance
  <2>11. QED
    BY <2>8, <2>9, <2>10
<1>16. QED
  BY <1>9, <1>10, <1>11, <1>12, <1>13, <1>14, <1>15 DEF SocialInv
\* The rest of the invariant does not mind what a worker does that writes no notice.
LEMMA WorkersOnly ==
  ASSUME SocialInv, UNCHANGED <<facts, events, notices, request>>
  PROVE  RowsHavePosts' /\ EventsTrue' /\ LikesCounted'
<1>1. RowsHavePosts /\ EventsTrue /\ LikesCounted
  BY DEF SocialInv
<1>2. RowsHavePosts' /\ EventsTrue'
  BY <1>1 DEF facts, RowsHavePosts, EventsTrue
<1>3. \A p, u : Told(p, u)' = Told(p, u)
  BY DEF Told
<1>4. \A p, u : Unliked(p, u)' = Unliked(p, u)
  BY DEF Unliked
<1>5. LikesCounted'
  <2> SUFFICES ASSUME NEW p \in Posts, NEW u \in Readers PROVE LikesBalance(p, u)'
    BY DEF LikesCounted
  <2>1. LikesBalance(p, u)
    BY <1>1 DEF LikesCounted
  <2>2. QED
    BY <1>3, <1>4, <2>1 DEF facts, LikesBalance
<1>6. QED
  BY <1>2, <1>5

\* A delivery is received, acknowledged, or sent again.
LEMMA SocialDeliver ==
  ASSUME SocialInv, NEW w \in Workers, Receive(w) \/ Acknowledge(w)
  PROVE  SocialInv'
<1>1. SocialTypes /\ LocksHeld /\ DeliveriesTrue /\ NoticesTrue
  BY DEF SocialInv
<1>2. UNCHANGED <<facts, events, notices, request, locks, faults>>
  BY DEF Receive, Acknowledge
<1>3. PICK n \in DOMAIN events, j \in Jobs :
        /\ worker' = [worker EXCEPT ![w] = j]
        /\ queue' \subseteq queue /\ done' \subseteq done \cup {n}
        /\ \/ /\ j.at = "share" /\ j.event = n /\ j.post = events[n].post
              /\ done' = done
           \/ j.at = "free" /\ worker[w].at = "ack" /\ worker[w].event = n
  <2>1. CASE Receive(w)
    <3>1. PICK n \in queue :
            /\ queue' = queue \ {n} /\ done' = done
            /\ worker' = [worker EXCEPT ![w] = [at |-> "share", event |-> n,
                                                post |-> events[n].post]]
      BY <2>1 DEF Receive
    <3> DEFINE j == [at |-> "share", event |-> n, post |-> events[n].post]
    <3>2. n \in DOMAIN events /\ n \in Nat /\ events[n].post \in Posts
      <4>1. n \in DOMAIN events /\ n \in Nat /\ events[n] \in Announcements
        BY <1>1, <3>1 DEF SocialTypes
      <4>2. QED
        BY <4>1 DEF Announcements
    <3>3. j \in Jobs /\ j.at = "share" /\ j.event = n /\ j.post = events[n].post
      BY <3>2 DEF Jobs
    <3> HIDE DEF j
    <3>4. worker' = [worker EXCEPT ![w] = j]
      BY <3>1 DEF j
    <3>5. QED
      BY <3>1, <3>2, <3>3, <3>4
  <2>2. CASE Acknowledge(w)
    <3> DEFINE n == worker[w].event
    <3>1. n \in DOMAIN events /\ Free \in Jobs /\ Free.at = "free"
      BY <1>1, <2>2 DEF Acknowledge, DeliveriesTrue, Free, Jobs
    <3>2. /\ worker[w].at = "ack" /\ worker' = [worker EXCEPT ![w] = Free]
          /\ queue' = queue /\ done' = done \cup {n}
      BY <2>2 DEF Acknowledge
    <3>3. QED
      BY <3>1, <3>2
  <2>3. QED
    BY <2>1, <2>2
<1>4. /\ worker' \in [Workers -> Jobs] /\ worker'[w] = j
      /\ \A x \in Workers \ {w} : worker'[x] = worker[x]
  BY <1>1, <1>3 DEF SocialTypes
<1>5. SocialTypes'
  BY <1>1, <1>2, <1>3, <1>4 DEF SocialTypes, facts, locks
<1>6. LocksHeld'
  BY <1>1, <1>2, <1>3, <1>4 DEF LocksHeld, Holds, facts, locks
<1>7. DeliveriesTrue'
  BY <1>1, <1>2, <1>3, <1>4 DEF DeliveriesTrue, facts
<1>8. NoticesTrue'
  <2>1. \A x \in done' : \E m \in notices : m.event = x
    BY <1>1, <1>3 DEF NoticesTrue, DeliveriesTrue
  <2>2. QED
    BY <1>1, <1>2, <2>1 DEF NoticesTrue, facts
<1>9. QED
  BY <1>2, <1>5, <1>6, <1>7, <1>8, WorkersOnly DEF SocialInv

LEMMA SocialSendAgain ==
  ASSUME SocialInv, NEW n \in 1..MaxEvents, SendAgain(n)
  PROVE  SocialInv'
<1>1. SocialTypes /\ LocksHeld /\ DeliveriesTrue /\ NoticesTrue
  BY DEF SocialInv
<1>2. /\ UNCHANGED <<facts, events, done, notices, request, worker, locks>>
      /\ n \in DOMAIN events /\ queue' = queue \cup {n}
      /\ faults < MaxFaults /\ faults' = faults + 1
  BY DEF SendAgain
<1>3. faults' \in 0..MaxFaults
  BY <1>1, <1>2, SocialAssumption DEF SocialTypes
<1>4. SocialTypes'
  BY <1>1, <1>2, <1>3 DEF SocialTypes, facts, locks
<1>5. LocksHeld' /\ DeliveriesTrue' /\ NoticesTrue'
  BY <1>1, <1>2 DEF LocksHeld, Holds, DeliveriesTrue, NoticesTrue, facts, locks
<1>6. QED
  BY <1>2, <1>4, <1>5, WorkersOnly DEF SocialInv

\* The row is shared when no writer has it; when it is gone, the notice will name none.
LEMMA SocialShare ==
  ASSUME SocialInv, NEW w \in Workers, Share(w)
  PROVE  SocialInv'
<1> DEFINE p == worker[w].post
<1>1. SocialTypes /\ LocksHeld /\ DeliveriesTrue /\ NoticesTrue
  BY DEF SocialInv
<1>2. /\ worker[w].at = "share" /\ worker[w].event \in DOMAIN events
      /\ p = events[worker[w].event].post /\ p \in Posts /\ writer[p] = {}
  <2>1. worker[w].at = "share" /\ writer[p] = {}
    BY DEF Share
  <2>2. worker[w].event \in DOMAIN events /\ p = events[worker[w].event].post
    BY <1>1, <2>1 DEF DeliveriesTrue
  <2>3. events[worker[w].event] \in Announcements
    BY <1>1, <2>2 DEF SocialTypes
  <2>4. QED
    BY <2>1, <2>2, <2>3 DEF Announcements
<1>3. UNCHANGED <<facts, events, broker, notices, request, writer, faults>>
  BY DEF Share
<1>4. /\ worker' \in [Workers -> Jobs]
      /\ worker'[w].at = "insert" /\ worker'[w].event = worker[w].event
      /\ \/ worker'[w].post = p /\ p \in posts
         \/ worker'[w].post = None /\ p \notin posts
      /\ \A x \in Workers \ {w} : worker'[x] = worker[x]
  <2>1. worker \in [Workers -> Jobs]
    BY <1>1 DEF SocialTypes
  <2>2. CASE p \in posts
    <3>1. worker' = [worker EXCEPT ![w].at = "insert"]
      BY <2>2 DEF Share
    <3>2. QED
      BY <2>1, <2>2, <3>1 DEF Jobs
  <2>3. CASE p \notin posts
    <3>1. worker' = [worker EXCEPT ![w].at = "insert", ![w].post = None]
      BY <2>3 DEF Share
    <3>2. QED
      BY <2>1, <2>3, <3>1 DEF Jobs
  <2>4. QED
    BY <2>2, <2>3
<1>5. /\ readers' \in [Posts -> SUBSET Workers]
      /\ \A x \in Posts : readers[x] \subseteq readers'[x]
      /\ \A x \in Posts \ {p} : readers'[x] = readers[x]
      /\ p \in posts => w \in readers'[p]
  <2>1. readers \in [Posts -> SUBSET Workers]
    BY <1>1 DEF SocialTypes
  <2>2. CASE p \in posts
    <3>1. readers' = [readers EXCEPT ![p] = @ \cup {w}]
      BY <2>2 DEF Share
    <3>2. QED
      BY <1>2, <2>1, <3>1
  <2>3. CASE p \notin posts
    <3>1. readers' = readers
      BY <2>3 DEF Share
    <3>2. QED
      BY <2>1, <2>3, <3>1
  <2>4. QED
    BY <2>2, <2>3
<1> HIDE DEF p
<1>6. SocialTypes'
  BY <1>1, <1>3, <1>4, <1>5 DEF SocialTypes, facts, broker
<1>7. LocksHeld'
  <2>1. \A x \in Posts : writer[x] = {} \/ (readers'[x] = {} /\ \E y \in Requests : writer[x] = {y})
    BY <1>1, <1>2, <1>5 DEF LocksHeld
  <2>2. \A x \in Workers : worker'[x].at = "insert" /\ worker'[x].post # None =>
                             worker'[x].post \in posts /\ worker'[x].post \in Posts
    BY <1>1, <1>4 DEF LocksHeld, SocialTypes
  <2>3. \A x \in Workers : worker'[x].at = "insert" /\ worker'[x].post # None =>
                             x \in readers'[worker'[x].post]
    BY <1>1, <1>4, <1>5, <2>2 DEF LocksHeld
  <2>4. QED
    BY <1>1, <1>3, <2>1, <2>2, <2>3 DEF LocksHeld, Holds, facts
<1>8. DeliveriesTrue'
  BY <1>1, <1>2, <1>3, <1>4 DEF DeliveriesTrue, facts
<1>9. NoticesTrue'
  BY <1>1, <1>3 DEF NoticesTrue, facts, broker
<1>10. QED
  BY <1>3, <1>6, <1>7, <1>8, <1>9, WorkersOnly DEF SocialInv

\* A worker that dies gives up its shared lock; its event is delivered again.
LEMMA SocialDie ==
  ASSUME SocialInv, NEW w \in Workers, Die(w)
  PROVE  SocialInv'
<1>1. SocialTypes /\ LocksHeld /\ DeliveriesTrue /\ NoticesTrue
  BY DEF SocialInv
<1>2. /\ UNCHANGED <<facts, events, done, notices, request, writer>>
      /\ worker[w].event \in DOMAIN events /\ queue' = queue \cup {worker[w].event}
      /\ faults < MaxFaults /\ faults' = faults + 1
      /\ readers' = [p \in Posts |-> readers[p] \ {w}]
  BY <1>1 DEF Die, DeliveriesTrue
<1>3. /\ worker' \in [Workers -> Jobs] /\ worker'[w].at = "free"
      /\ \A x \in Workers \ {w} : worker'[x] = worker[x]
  BY <1>1 DEF Die, SocialTypes, Free, Jobs
<1>4. faults' \in 0..MaxFaults
  BY <1>1, <1>2, SocialAssumption DEF SocialTypes
<1>5. SocialTypes'
  BY <1>1, <1>2, <1>3, <1>4 DEF SocialTypes, facts
<1>6. LocksHeld'
  BY <1>1, <1>2, <1>3 DEF LocksHeld, Holds, facts, SocialTypes
<1>7. DeliveriesTrue' /\ NoticesTrue'
  BY <1>1, <1>2, <1>3 DEF DeliveriesTrue, NoticesTrue, facts
<1>8. QED
  BY <1>2, <1>5, <1>6, <1>7, WorkersOnly DEF SocialInv

\* The event becomes a notice unless it is one already; its post is still locked.
LEMMA SocialInsert ==
  ASSUME SocialInv, NEW w \in Workers, Insert(w)
  PROVE  SocialInv'
<1> DEFINE v == worker[w].event
           m == Notice(w)
<1>1. /\ SocialTypes /\ LocksHeld /\ RowsHavePosts /\ EventsTrue /\ DeliveriesTrue
      /\ NoticesTrue /\ LikesCounted
  BY DEF SocialInv
<1>2. /\ worker[w].at = "insert" /\ v \in DOMAIN events /\ v \in Nat
      /\ events[v].post \in Posts /\ events[v].kind \in {"like", "comment"}
      /\ worker[w].post \in Posts \cup {None}
      /\ \/ worker[w].post = None /\ events[v].post \notin posts
         \/ worker[w].post \in posts /\ worker[w].post = events[v].post
  <2>1. worker[w].at = "insert"
    BY DEF Insert
  <2>2. v \in DOMAIN events /\ v \in Nat
    BY <1>1, <2>1 DEF DeliveriesTrue, SocialTypes
  <2>3. events[v] \in Announcements
    BY <1>1, <2>2 DEF SocialTypes
  <2>4. worker[w].post = None \/ worker[w].post \in posts
    BY <1>1, <2>1 DEF LocksHeld
  <2>5. QED
    BY <1>1, <2>1, <2>2, <2>3, <2>4, SocialAssumption
    DEF DeliveriesTrue, Announcements, SocialTypes
<1>3. /\ UNCHANGED <<facts, events, broker, request, writer, faults>>
      /\ notices' = IF \E x \in notices : x.event = v THEN notices ELSE notices \cup {m}
      /\ readers' = [p \in Posts |-> readers[p] \ {w}]
  BY DEF Insert
<1>4. /\ m \in Notifications /\ m.event = v /\ m.post = worker[w].post
      /\ m.comment => m.post # None /\ events[v].kind = "comment"
  BY <1>2 DEF Notice, Notifications
<1>5. /\ worker' \in [Workers -> Jobs] /\ worker'[w].at = "ack" /\ worker'[w].event = v
      /\ \A x \in Workers \ {w} : worker'[x] = worker[x]
  BY <1>1 DEF Insert, SocialTypes, Jobs
<1> HIDE DEF m, v
<1>6. /\ notices \subseteq notices' /\ \E x \in notices' : x.event = v
      /\ \A x \in notices' \ notices : x = m
      /\ m \in notices' \ notices => \A x \in notices : x.event # v
  BY <1>3, <1>4
<1>7. SocialTypes'
  BY <1>1, <1>2, <1>3, <1>4, <1>5, <1>6 DEF SocialTypes, facts, broker
<1>8. LocksHeld'
  BY <1>1, <1>3, <1>5 DEF LocksHeld, Holds, facts, SocialTypes
<1>9. DeliveriesTrue'
  BY <1>1, <1>2, <1>3, <1>5, <1>6 DEF DeliveriesTrue, facts
<1>10. NoticesTrue'
  <2>1. \A x, y \in notices' : x.event = y.event => x = y
    BY <1>1, <1>4, <1>6 DEF NoticesTrue
  <2>2. \A x \in done : \E y \in notices' : y.event = x
    BY <1>1, <1>6 DEF NoticesTrue
  <2>3. \A x \in notices' :
       /\ \/ x.post = None /\ events[x.event].post \notin posts
          \/ x.post \in posts /\ x.post = events[x.event].post
       /\ x.comment => x.post # None /\ events[x.event].kind = "comment"
    BY <1>1, <1>2, <1>4, <1>6 DEF NoticesTrue
  <2>4. QED
    BY <1>3, <2>1, <2>2, <2>3 DEF NoticesTrue, facts, broker
<1>11. RowsHavePosts' /\ EventsTrue'
  BY <1>1, <1>3 DEF RowsHavePosts, EventsTrue, facts
<1>12. LikesCounted'
  <2> SUFFICES ASSUME NEW x \in Posts, NEW u \in Readers PROVE LikesBalance(x, u)'
    BY DEF LikesCounted
  <2>1. LikesBalance(x, u)
    BY <1>1 DEF LikesCounted
  <2>2. Told(x, u)' = Told(x, u) /\ Unliked(x, u)' = Unliked(x, u)
    BY <1>3 DEF Told, Unliked
  <2>3. QED
    BY <1>3, <2>1, <2>2 DEF facts, LikesBalance
<1>13. QED
  BY <1>7, <1>8, <1>9, <1>10, <1>11, <1>12 DEF SocialInv

LEMMA SocialStep == SocialInv /\ [AllNext]_allVars => SocialInv'
<1> SUFFICES ASSUME SocialInv, [AllNext]_allVars PROVE SocialInv'
  OBVIOUS
<1>1. CASE UNCHANGED vars
  <2>1. RowsHavePosts' /\ EventsTrue' /\ LikesCounted'
    BY <1>1, WorkersOnly DEF vars, facts
  <2>2. SocialTypes' /\ LocksHeld' /\ DeliveriesTrue' /\ NoticesTrue'
    BY <1>1 DEF vars, SocialInv, SocialTypes, LocksHeld, Holds, DeliveriesTrue, NoticesTrue
  <2>3. QED
    BY <2>1, <2>2 DEF SocialInv
<1>2. CASE Next
  <2>1. CASE \E r \in Requests : Serve(r) \/ Disconnect(r)
    BY <2>1, SocialRequireExists, SocialLockPost, SocialWrite, SocialDelete, SocialMarkRead,
       SocialDisconnect DEF Serve
  <2>2. CASE \E r \in Requests, op \in Ops, p \in Posts, u \in Users : Ask(r, op, p, u)
    BY <2>2, SocialAsk
  <2>3. CASE \E w \in Workers : Work(w) \/ Die(w)
    BY <2>3, SocialDeliver, SocialShare, SocialInsert, SocialDie DEF Work
  <2>4. CASE \E n \in 1..MaxEvents : SendAgain(n)
    BY <2>4, SocialSendAgain
  <2>5. QED
    BY <1>2, <2>1, <2>2, <2>3, <2>4 DEF Next
<1>3. QED
  BY <1>1, <1>2 DEF AllNext, allVars

\* The invariant of Social holds in every reachable state.
THEOREM SocialInvariant == AllSpec => []SocialInv
<1>1. AllInit => SocialInv
  BY SocialInit DEF AllInit
<1>2. QED
  BY <1>1, SocialStep, PTL DEF AllSpec

\* No like, bookmark, comment or notice names a post that is gone; an event becomes one
\* notice however often it is delivered, and an acknowledged one has become one; a like
\* is announced once for each time it came to be, whatever is repeated, lost or deleted
\* meanwhile (like, bookmark, comment, notification and post/delete.go).
THEOREM SocialStaysSafe == AllSpec => []SocialSafe
<1>1. SocialInv => SocialSafe
  <2> SUFFICES ASSUME SocialInv PROVE SocialSafe
    OBVIOUS
  <2>1. /\ SocialTypes /\ LocksHeld /\ RowsHavePosts /\ EventsTrue /\ NoticesTrue
        /\ LikesCounted
    BY DEF SocialInv
  <2>2. TypeOK
    <3>1. \A p \in Posts : Cardinality(writer[p]) <= 1
      <4> SUFFICES ASSUME NEW p \in Posts PROVE Cardinality(writer[p]) <= 1
        OBVIOUS
      <4>1. CASE writer[p] = {}
        BY <4>1, FS_EmptySet
      <4>2. CASE \E r \in Requests : writer[p] = {r}
        <5>1. PICK r \in Requests : writer[p] = {r}
          BY <4>2
        <5>2. Cardinality({r}) = 1
          BY FS_Singleton
        <5>3. QED
          BY <5>1, <5>2
      <4>3. QED
        BY <2>1, <4>1, <4>2 DEF LocksHeld
    <3>2. \A r \in Requests : request[r].ended \in Endings
      BY <2>1 DEF SocialTypes, Calls
    <3>3. QED
      BY <2>1, <3>1, <3>2 DEF TypeOK, SocialTypes, Endings
  <2>3. NothingDangles
    <3>1. \A n \in notices : n.comment => \E c \in comments : c.event = n.event
      BY <2>1 DEF NoticesTrue, EventsTrue, SocialTypes
    <3>2. \A n \in notices : /\ n.post = None \/ n.post \in posts
                             /\ n.post = None => events[n.event].post \notin posts
      BY <2>1, SocialAssumption DEF NoticesTrue, SocialTypes
    <3>3. QED
      BY <2>1, <3>1, <3>2 DEF NothingDangles, RowsHavePosts
  <2>4. OneNoticeEach
    <3>1. \A n \in notices : n.to = Owner /\ n.event \in DOMAIN events
      BY <2>1 DEF SocialTypes, Notifications
    <3>2. QED
      BY <2>1, <3>1 DEF OneNoticeEach, NoticesTrue, EventsTrue
  <2>5. LikeAnnouncedOnce
    <3> SUFFICES ASSUME NEW p \in Posts, NEW u \in Readers
                 PROVE  Cardinality(Told(p, u)) <= 1 + Cardinality(Unliked(p, u))
      BY DEF LikeAnnouncedOnce
    <3>1. LikesBalance(p, u)
      BY <2>1 DEF LikesCounted
    <3>2. Cardinality(Told(p, u)) \in Nat /\ Cardinality(Unliked(p, u)) \in Nat
      BY <2>1, LikeCounts
    <3>3. QED
      BY <3>1, <3>2 DEF LikesBalance
  <2>6. QED
    BY <2>2, <2>3, <2>4, <2>5 DEF SocialSafe
<1>2. QED
  BY <1>1, SocialInvariant, PTL

-----------------------------------------------------------------------------
(* Accounts.                                                                *)

Roles == {"none", "user", "super_admin"}
Asks == [op : {"none", "follow", "unfollow", "role", "declare"},
         at : {"idle", "authorize", "actor", "target", "root", "insert_root",
               "insert_follow", "commit", "done"},
         actor : People \cup {Account!Nobody}, target : People \cup {Account!Nobody},
         next : Roles, before : Roles,
         ended : {"no", "ok", "denied", "not_found", "protected", "deadlock", "lost"}]
Entries == [by : People \cup {Account!Nobody}, user : People, before : Roles, after : Roles]

\* What a request asks, and which statements are its own.
Steps(op) ==
  CASE op = "role" -> {"authorize", "actor", "target", "root", "commit", "done"}
    [] op = "declare" -> {"root", "target", "insert_root", "commit", "done"}
    [] op \in {"follow", "unfollow"} -> {"actor", "insert_follow", "commit", "done"}
    [] OTHER -> {"idle"}
WellAsked(q) ==
  /\ q \in Asks /\ q.at \in Steps(q.op)
  /\ q.at = "done" <=> q.ended # "no"
  /\ q.at # "idle" => q.actor \in People /\ q.target \in People
  /\ q.op \in {"follow", "unfollow"} => q.actor # q.target
  /\ q.op = "role" => q.next # "none"
  /\ q.op = "declare" => q.next = "super_admin"

AccountTypes ==
  /\ role \in [People -> Roles] /\ root \in People \cup {Account!Nobody}
  /\ audit \in Seq(Entries)
  /\ follows \subseteq Account!Pairs /\ announced \in [Account!Pairs -> Nat]
  /\ now \in 1 .. MaxClock /\ outages \in 0 .. MaxOutages
  /\ asked \in [Visits -> Asks] /\ \A r \in Visits : WellAsked(asked[r])
  /\ exclusive \in [Account!Rows -> SUBSET Visits]
  /\ shared \in [Account!Rows -> SUBSET Visits] /\ gap \subseteq Visits

\* An exclusive lock has one holder, who shares the row with nobody; the gap of the
\* missing singleton is locked only while there is no root, and who has inserted the
\* singleton is alone in it.
LocksExclusive ==
  /\ \A w \in Account!Rows : exclusive[w] = {} \/ \E r \in Visits : exclusive[w] = {r}
  /\ \A w \in People : exclusive[w] # {} => shared[w] \subseteq exclusive[w]
  /\ gap # {} => root = Account!Nobody
  /\ exclusive["singleton"] # {} => gap \subseteq exclusive["singleton"]

Locked(r, w) == exclusive[w] = {r}

\* What a request has found under a lock still holds.
RoleStands(r, q) ==
  /\ q.at \in {"target", "root", "commit"} => Locked(r, q.actor) /\ role[q.actor] = "super_admin"
  /\ q.at \in {"root", "commit"} => Locked(r, q.target) /\ q.before = role[q.target]
                                    /\ q.before # "none"
  /\ q.at = "commit" => /\ Locked(r, "singleton") /\ root # Account!Nobody
                        /\ root = q.target => q.next = "super_admin"
DeclareStands(r, q) ==
  /\ q.at = "target" => \/ root = Account!Nobody /\ r \in gap
                        \/ root = q.target /\ Locked(r, "singleton")
  /\ q.at = "insert_root" => r \in gap
  /\ q.at \in {"insert_root", "commit"} => Locked(r, q.target) /\ q.before = role[q.target]
                                           /\ q.before # "none"
  /\ q.at = "commit" => Locked(r, "singleton") /\ root \in {Account!Nobody, q.target}
FollowStands(r, q) ==
  /\ q.at \in {"insert_follow", "commit"} => Locked(r, q.actor)
  /\ q.at = "commit" /\ q.op = "follow" => <<q.actor, q.target>> \notin follows
Stands(r, q) ==
  /\ q.op = "role" => RoleStands(r, q)
  /\ q.op = "declare" => DeclareStands(r, q)
  /\ q.op \in {"follow", "unfollow"} => FollowStands(r, q)
FindingsStand == \A r \in Visits : Stands(r, asked[r])

\* Of an account that is not there nothing is audited, and the founders are there.
AuditTrue ==
  /\ \A i \in DOMAIN audit : role[audit[i].user] # "none"
  /\ \A u \in Founders : role[u] # "none"
  /\ \A i \in DOMAIN audit : audit[i].by = Account!Nobody => root # Account!Nobody
  /\ \A i, j \in DOMAIN audit :
       audit[i].by = Account!Nobody /\ audit[j].by = Account!Nobody => i = j
RootIsAdmin == root # Account!Nobody => role[root] = "super_admin"

\* A pair in force, or ended by a request, has been announced once for each time it began.
FollowBalance(p) ==
  /\ p \in follows => announced[p] > 0
  /\ announced[p] <= Cardinality(Account!Undone(p)) + (IF p \in follows THEN 1 ELSE 0)
FollowsCounted == \A p \in Account!Pairs : FollowBalance(p)

\* The inductive invariant of Accounts.
AccountInv ==
  /\ AccountTypes /\ LocksExclusive /\ FindingsStand /\ AuditTrue /\ RootIsAdmin
  /\ Account!AuditExplainsRoles /\ FollowsCounted
-----------------------------------------------------------------------------
\* The other requests keep what they hold.
Kept(r) ==
  \A s \in Visits \ {r} :
    /\ \A w \in Account!Rows : exclusive[w] = {s} => exclusive'[w] = {s}
    /\ s \in gap => s \in gap'

LEMMA RowsOf ==
  /\ Account!Rows = People \cup {"singleton"} /\ "singleton" \notin People
  /\ Account!Nobody \notin People
  /\ \A p : p \in Account!Pairs <=> p \in People \X People /\ p[1] # p[2]
BY AccountsAssumption DEF Account!Rows, Account!Nobody, Account!Pairs

\* What the others have found under their locks still stands.
LEMMA OthersStand ==
  ASSUME AccountInv, NEW r \in Visits, NEW s \in Visits \ {r}, Kept(r),
         asked'[s] = asked[s],
         \A u \in People : role'[u] = role[u] \/ role[u] = "none" \/ exclusive[u] = {r},
         root' = root \/ exclusive["singleton"] = {r},
         \A p \in Account!Pairs : p \in follows' => p \in follows \/ exclusive[p[1]] = {r}
  PROVE  Stands(s, asked[s])'
<1> DEFINE q == asked[s]
<1>1. /\ q \in Asks /\ q.at \in Steps(q.op) /\ Stands(s, q) /\ s # r
      /\ q.at # "idle" => q.actor \in People /\ q.target \in People
      /\ q.op \in {"follow", "unfollow"} => q.actor # q.target
  BY DEF AccountInv, AccountTypes, WellAsked, FindingsStand
<1>2. q.op \notin {"none"} => q.at # "idle"
  BY <1>1 DEF Steps, Asks
<1>3. \A w \in Account!Rows : exclusive[w] = {s} => exclusive'[w] = {s} /\ exclusive[w] # {r}
  BY <1>1 DEF Kept
<1>4. s \in gap => s \in gap' /\ root' = root
  <2>1. SUFFICES ASSUME s \in gap PROVE s \in gap' /\ root' = root
    OBVIOUS
  <2>2. exclusive["singleton"] # {r}
    BY <1>1, <2>1 DEF AccountInv, LocksExclusive
  <2>3. QED
    BY <1>1, <2>1, <2>2 DEF Kept
<1>5. exclusive["singleton"] = {s} => exclusive'["singleton"] = {s} /\ root' = root
  BY <1>3, RowsOf
<1>6. ASSUME q.op = "role" PROVE RoleStands(s, q)'
  BY <1>1, <1>2, <1>3, <1>5, <1>6, RowsOf DEF Stands, RoleStands, Locked
<1>7. ASSUME q.op = "declare" PROVE DeclareStands(s, q)'
  BY <1>1, <1>2, <1>3, <1>4, <1>5, <1>7, RowsOf DEF Stands, DeclareStands, Locked
<1>8. ASSUME q.op \in {"follow", "unfollow"} PROVE FollowStands(s, q)'
  <2>1. q.actor \in People /\ q.target \in People /\ q.actor # q.target
    BY <1>1, <1>2, <1>8
  <2>2. <<q.actor, q.target>> \in Account!Pairs
    BY <2>1, RowsOf
  <2>3. q.at = "commit" /\ q.op = "follow" => <<q.actor, q.target>> \notin follows'
    BY <1>1, <1>3, <1>8, <2>1, <2>2, RowsOf DEF Stands, FollowStands, Locked
  <2>4. q.at \in {"insert_follow", "commit"} => exclusive'[q.actor] = {s}
    BY <1>1, <1>3, <1>8, <2>1, RowsOf DEF Stands, FollowStands, Locked
  <2>5. QED
    BY <2>3, <2>4 DEF FollowStands, Locked
<1>9. QED
  BY <1>6, <1>7, <1>8 DEF Stands
\* A lock taken on a row that no other request has a lock on.
LEMMA LockTaken ==
  ASSUME AccountInv, NEW r \in Visits, NEW w \in Account!Rows,
         exclusive[w] \subseteq {r}, w \in People => shared[w] \subseteq {r},
         w = "singleton" => gap \subseteq {r},
         exclusive' = [exclusive EXCEPT ![w] = @ \cup {r}],
         UNCHANGED <<shared, gap, root>>
  PROVE  /\ exclusive' \in [Account!Rows -> SUBSET Visits]
         /\ LocksExclusive' /\ Kept(r) /\ exclusive'[w] = {r}
         /\ \A x \in Account!Rows : exclusive[x] = {r} => exclusive'[x] = {r}
<1>1. exclusive' \in [Account!Rows -> SUBSET Visits] /\ exclusive'[w] = {r}
      /\ \A x \in Account!Rows \ {w} : exclusive'[x] = exclusive[x]
  BY DEF AccountInv, AccountTypes
<1>2. LocksExclusive'
  BY <1>1, RowsOf DEF AccountInv, LocksExclusive
<1>3. Kept(r)
  BY <1>1 DEF Kept
<1>4. QED
  BY <1>1, <1>2, <1>3

\* At the end of its transaction a request gives up what it holds.
LEMMA LocksReleased ==
  ASSUME AccountInv, NEW r \in Visits, Account!Release(r),
         root' = root \/ gap \subseteq {r}
  PROVE  /\ exclusive' \in [Account!Rows -> SUBSET Visits]
         /\ shared' \in [Account!Rows -> SUBSET Visits] /\ gap' \subseteq Visits
         /\ LocksExclusive' /\ Kept(r)
<1>1. /\ \A w \in Account!Rows : /\ exclusive'[w] = exclusive[w] \ {r}
                                 /\ shared'[w] = shared[w] \ {r}
      /\ gap' = gap \ {r}
      /\ exclusive' \in [Account!Rows -> SUBSET Visits]
      /\ shared' \in [Account!Rows -> SUBSET Visits] /\ gap' \subseteq Visits
  BY DEF AccountInv, AccountTypes, Account!Release
<1>2. \A w \in Account!Rows : exclusive'[w] = {} \/ \E s \in Visits : exclusive'[w] = {s}
  BY <1>1 DEF AccountInv, LocksExclusive
<1>3. \A w \in People : exclusive'[w] # {} => shared'[w] \subseteq exclusive'[w]
  BY <1>1, RowsOf DEF AccountInv, LocksExclusive
<1>4. gap' # {} => root' = Account!Nobody
  BY <1>1 DEF AccountInv, LocksExclusive
<1>5. exclusive'["singleton"] # {} => gap' \subseteq exclusive'["singleton"]
  BY <1>1, RowsOf DEF AccountInv, LocksExclusive
<1>6. Kept(r)
  BY <1>1 DEF Kept
<1>7. QED
  BY <1>1, <1>2, <1>3, <1>4, <1>5, <1>6 DEF LocksExclusive

\* A request that is not at its end, or did not end a pair, has not ended one.
LEMMA UndoneKept ==
  ASSUME AccountInv, NEW r \in Visits, NEW q,
         asked' = [asked EXCEPT ![r] = q], asked[r].at # "done",
         q.op = "unfollow" => q.ended # "ok", NEW p
  PROVE  Account!Undone(p)' = Account!Undone(p)
<1>1. \A s \in Visits : asked'[s] = IF s = r THEN q ELSE asked[s]
  BY DEF AccountInv, AccountTypes
<1>2. asked[r].ended = "no"
  BY DEF AccountInv, AccountTypes, WellAsked
<1>3. QED
  BY <1>1, <1>2 DEF Account!Undone

\* Every step of a request but its commit changes no table.
LEMMA StepKeeps ==
  ASSUME AccountInv, NEW r \in Visits, NEW q, WellAsked(q), asked[r].at # "done",
         q.op = "unfollow" => q.ended # "ok",
         asked' = [asked EXCEPT ![r] = q],
         UNCHANGED <<role, root, audit, follows, announced, now>>,
         outages' \in 0 .. MaxOutages,
         exclusive' \in [Account!Rows -> SUBSET Visits],
         shared' \in [Account!Rows -> SUBSET Visits], gap' \subseteq Visits,
         LocksExclusive', Kept(r), Stands(r, q)'
  PROVE  AccountInv'
<1>1. \A s \in Visits : asked'[s] = IF s = r THEN q ELSE asked[s]
  BY DEF AccountInv, AccountTypes
<1>2. AccountTypes'
  <2>1. asked' \in [Visits -> Asks]
    BY DEF AccountInv, AccountTypes, WellAsked
  <2>2. \A s \in Visits : WellAsked(asked'[s])
    BY <1>1 DEF AccountInv, AccountTypes
  <2>3. QED
    BY <2>1, <2>2 DEF AccountInv, AccountTypes
<1>3. FindingsStand'
  <2> SUFFICES ASSUME NEW s \in Visits PROVE Stands(s, asked[s])'
    BY DEF FindingsStand
  <2>1. CASE s = r
    BY <1>1, <2>1 DEF Stands, RoleStands, DeclareStands, FollowStands, Locked
  <2>2. CASE s # r
    BY <1>1, <2>2, OthersStand
  <2>3. QED
    BY <2>1, <2>2
<1>4. AuditTrue' /\ RootIsAdmin'
  BY DEF AccountInv, AuditTrue, RootIsAdmin
<1>5. Account!AuditExplainsRoles'
  <2>1. role' = role /\ root' = root /\ audit' = audit
    OBVIOUS
  <2>2. Account!AuditExplainsRoles
    BY DEF AccountInv
  <2>3. QED
    BY <2>1, <2>2 DEF Account!AuditExplainsRoles, Account!After, Account!Initially,
                      Account!FirstRole
<1>6. FollowsCounted'
  <2> SUFFICES ASSUME NEW p \in Account!Pairs PROVE FollowBalance(p)'
    BY DEF FollowsCounted, Account!Pairs
  <2>1. FollowBalance(p)
    BY DEF AccountInv, FollowsCounted
  <2>2. Account!Undone(p)' = Account!Undone(p)
    BY UndoneKept
  <2>3. QED
    BY <2>1, <2>2 DEF FollowBalance
<1>7. QED
  BY <1>2, <1>3, <1>4, <1>5, <1>6 DEF AccountInv
\* What is unchanged keeps its locks.
LEMMA LocksUnchanged ==
  ASSUME AccountInv, NEW r \in Visits, UNCHANGED <<exclusive, shared, gap, root>>
  PROVE  /\ exclusive' \in [Account!Rows -> SUBSET Visits]
         /\ shared' \in [Account!Rows -> SUBSET Visits] /\ gap' \subseteq Visits
         /\ LocksExclusive' /\ Kept(r)
BY DEF AccountInv, AccountTypes, LocksExclusive, Kept

\* A request at a statement that needs nothing found before.
LEMMA PlainStep ==
  ASSUME AccountInv, NEW r \in Visits, NEW q, WellAsked(q), asked[r].at # "done",
         q.at \in {"authorize", "actor"} \/ (q.op = "declare" /\ q.at = "root")
           \/ (q.at = "done" /\ q.ended # "ok"),
         asked' = [asked EXCEPT ![r] = q],
         UNCHANGED <<role, root, audit, follows, announced, now, exclusive, shared, gap,
                     outages>>
  PROVE  AccountInv'
<1>1. q.at \notin {"target", "commit", "insert_root", "insert_follow"}
      /\ (q.op = "role" => q.at # "root")
  BY DEF WellAsked, Steps
<1>2. Stands(r, q)'
  BY <1>1 DEF Stands, RoleStands, DeclareStands, FollowStands
<1>3. q.op = "unfollow" => q.ended # "ok"
  BY DEF WellAsked
<1>4. outages' \in 0 .. MaxOutages
  BY DEF AccountInv, AccountTypes
<1>5. QED
  BY <1>2, <1>3, <1>4, LocksUnchanged, StepKeeps

LEMMA BegunAsks ==
  ASSUME NEW op \in {"follow", "unfollow", "role", "declare"}, NEW at, NEW u \in People,
         NEW v \in People, NEW next \in Roles, at \in Steps(op), at # "done",
         at \in {"authorize", "actor", "root"},
         op \in {"follow", "unfollow"} => u # v, op = "role" => next # "none",
         op = "declare" => next = "super_admin"
  PROVE  LET q == Account!Begun(op, at, u, v, next) IN
         WellAsked(q) /\ q.op = op /\ q.at = at
<1> DEFINE q == Account!Begun(op, at, u, v, next)
<1>1. /\ q = [op |-> op, at |-> at, actor |-> u, target |-> v, next |-> next,
              before |-> "none", ended |-> "no"]
  BY DEF Account!Begun
<1>2. q \in Asks /\ q.op = op /\ q.at = at /\ q.actor = u /\ q.target = v /\ q.next = next
      /\ q.ended = "no"
  BY <1>1 DEF Asks, Roles
<1> HIDE DEF q
<1>3. WellAsked(q)
  BY <1>2 DEF WellAsked
<1>4. QED
  BY <1>2, <1>3 DEF q

LEMMA AskKeeps ==
  ASSUME AccountInv, NEW r \in Visits, NEW u \in People, NEW v \in People,
         \/ Account!AskFollow(r, u, v, "follow") \/ Account!AskFollow(r, u, v, "unfollow")
         \/ Account!AskRole(r, u, v, "user") \/ Account!AskRole(r, u, v, "super_admin")
         \/ Account!AskDeclare(r, u)
  PROVE  AccountInv'
<1>1. ASSUME NEW q, WellAsked(q), Account!Start(r, q),
             q.at \in {"authorize", "actor"} \/ (q.op = "declare" /\ q.at = "root")
      PROVE  AccountInv'
  BY <1>1, PlainStep DEF Account!Start, Account!tables, Account!locks
<1>2. CASE Account!AskFollow(r, u, v, "follow")
  <2>1. u # v /\ Account!Start(r, Account!Begun("follow", "actor", u, v, "none"))
    BY <1>2 DEF Account!AskFollow
  <2>2. QED
    BY <1>1, <2>1, BegunAsks DEF Steps, Roles
<1>3. CASE Account!AskFollow(r, u, v, "unfollow")
  <2>1. u # v /\ Account!Start(r, Account!Begun("unfollow", "actor", u, v, "none"))
    BY <1>3 DEF Account!AskFollow
  <2>2. QED
    BY <1>1, <2>1, BegunAsks DEF Steps, Roles
<1>4. ASSUME NEW next \in {"user", "super_admin"}, Account!AskRole(r, u, v, next)
      PROVE  AccountInv'
  <2>1. Account!Start(r, Account!Begun("role", "authorize", u, v, next))
    BY <1>4 DEF Account!AskRole
  <2>2. QED
    BY <1>1, <1>4, <2>1, BegunAsks DEF Steps, Roles
<1>5. CASE Account!AskDeclare(r, u)
  <2>1. Account!Start(r, Account!Begun("declare", "root", u, u, "super_admin"))
    BY <1>5 DEF Account!AskDeclare
  <2>2. QED
    BY <1>1, <2>1, BegunAsks DEF Steps, Roles
<1>6. QED
  BY <1>2, <1>3, <1>4, <1>5

\* q is the request p after a step that changes its next statement, and its end or the
\* role it has found.
Becomes(q, p, at, how) == q = [p EXCEPT !.at = at, !.ended = how]
GoesOn(q, p, at, before) ==
  \/ q = [p EXCEPT !.at = at] /\ before = p.before
  \/ q = [p EXCEPT !.at = at, !.before = before]

LEMMA AskMoved ==
  ASSUME AccountInv, NEW r \in Visits, asked[r].at # "idle", NEW at \in Steps(asked[r].op),
         NEW how \in {"no", "ok", "denied", "not_found", "protected", "deadlock", "lost"},
         at = "done" <=> how # "no", at # "idle",
         NEW q, Becomes(q, asked[r], at, how)
  PROVE  WellAsked(q) /\ q.at = at /\ q.ended = how /\ q.op = asked[r].op
<1> DEFINE p == asked[r]
<1>1. p \in Asks /\ WellAsked(p) /\ p.at # "idle" /\ at \in Steps(p.op)
      /\ q = [p EXCEPT !.at = at, !.ended = how]
  BY DEF AccountInv, AccountTypes, Becomes
<1> HIDE DEF p
<1>2. at \in {"idle", "authorize", "actor", "target", "root", "insert_root",
               "insert_follow", "commit", "done"}
  BY <1>1 DEF Steps
<1>3. /\ q \in Asks /\ q.at = at /\ q.ended = how /\ q.op = p.op
      /\ q.actor = p.actor /\ q.target = p.target /\ q.next = p.next
  BY <1>1, <1>2 DEF Asks
<1>4. WellAsked(q)
  BY <1>1, <1>3 DEF WellAsked
<1>5. QED
  BY <1>3, <1>4 DEF p

\* The same of a request that goes on to its next statement.
LEMMA MovedOn ==
  ASSUME AccountInv, NEW r \in Visits, asked[r].at \notin {"idle", "done"},
         NEW at \in Steps(asked[r].op), at \notin {"idle", "done"}, NEW before \in Roles,
         NEW q, GoesOn(q, asked[r], at, before)
  PROVE  /\ WellAsked(q) /\ q.at = at /\ q.ended = "no" /\ q.op = asked[r].op
         /\ q.actor = asked[r].actor /\ q.target = asked[r].target
         /\ q.next = asked[r].next /\ q.before = before
<1> DEFINE p == asked[r]
<1>1. p \in Asks /\ WellAsked(p) /\ p.at \notin {"idle", "done"} /\ at \in Steps(p.op)
  BY DEF AccountInv, AccountTypes
<1>2. \/ q = [p EXCEPT !.at = at] /\ before = p.before
      \/ q = [p EXCEPT !.at = at, !.before = before]
  BY DEF GoesOn
<1> HIDE DEF p
<1>3. at \in {"authorize", "actor", "target", "root", "insert_root", "insert_follow",
               "commit"}
  BY <1>1 DEF Steps
<1>4. /\ q \in Asks /\ q.at = at /\ q.op = p.op /\ q.before = before /\ q.ended = p.ended
      /\ q.actor = p.actor /\ q.target = p.target /\ q.next = p.next
  BY <1>1, <1>2, <1>3 DEF Asks
<1>5. p.ended = "no"
  BY <1>1 DEF WellAsked
<1>6. WellAsked(q)
  BY <1>1, <1>4, <1>5 DEF WellAsked
<1>7. QED
  BY <1>4, <1>5, <1>6 DEF p

\* What a request is, by its statement.
LEMMA AskedBy ==
  ASSUME AccountInv, NEW r \in Visits
  PROVE  /\ asked[r] \in Asks /\ WellAsked(asked[r]) /\ Stands(r, asked[r])
         /\ asked[r].at # "idle" => /\ asked[r].op # "none" /\ "done" \in Steps(asked[r].op)
                                    /\ asked[r].actor \in People /\ asked[r].target \in People
         /\ asked[r].at \in Steps(asked[r].op)
<1>1. asked[r] \in Asks /\ WellAsked(asked[r]) /\ Stands(r, asked[r])
  BY DEF AccountInv, AccountTypes, FindingsStand
<1>2. QED
  BY <1>1 DEF WellAsked, Steps, Asks

LEMMA EndKeeps ==
  ASSUME AccountInv, NEW r \in Visits, asked[r].at \notin {"idle", "done"},
         NEW how \in {"ok", "denied", "not_found", "protected", "deadlock", "lost"},
         asked[r].op = "unfollow" => how # "ok",
         asked' = [asked EXCEPT ![r].at = "done", ![r].ended = how],
         Account!Release(r), UNCHANGED <<Account!tables, now>>,
         outages' \in 0 .. MaxOutages
  PROVE  AccountInv'
<1>1. PICK q : Becomes(q, asked[r], "done", how)
  BY DEF Becomes
<1>2. asked' = [asked EXCEPT ![r] = q]
  BY <1>1 DEF AccountInv, AccountTypes, Becomes
<1>3. WellAsked(q) /\ q.at = "done" /\ q.ended = how /\ q.op = asked[r].op
  BY <1>1, AskedBy, AskMoved
<1>4. Stands(r, q)'
  BY <1>3 DEF Stands, RoleStands, DeclareStands, FollowStands
<1>5. UNCHANGED <<role, root, audit, follows, announced, now>>
  BY DEF Account!tables
<1>6. QED
  BY <1>2, <1>3, <1>4, <1>5, LocksReleased, StepKeeps

LEMMA EndOfStep ==
  ASSUME AccountInv, NEW r \in Visits, asked[r].at \notin {"idle", "done"},
         NEW how \in {"ok", "denied", "not_found", "protected", "deadlock", "lost"},
         asked[r].op = "unfollow" => how # "ok", Account!End(r, how)
  PROVE  AccountInv'
<1>1. /\ asked' = [asked EXCEPT ![r].at = "done", ![r].ended = how]
      /\ Account!Release(r) /\ UNCHANGED <<Account!tables, now, outages>>
  BY DEF Account!End
<1>2. outages' \in 0 .. MaxOutages
  BY <1>1 DEF AccountInv, AccountTypes
<1>3. QED
  BY <1>1, <1>2, EndKeeps

LEMMA AuthorizeKeeps ==
  ASSUME AccountInv, NEW r \in Visits, Account!Authorize(r) PROVE AccountInv'
<1> DEFINE granted == role[asked[r].actor] = "super_admin" /\ root # Account!Nobody
           at == IF granted THEN "actor" ELSE "done"
           how == IF granted THEN "no" ELSE "denied"
<1>0. PICK q : Becomes(q, asked[r], at, how)
  BY DEF Becomes
<1>1. asked' = [asked EXCEPT ![r] = q] /\ asked[r].at = "authorize"
  BY <1>0 DEF AccountInv, AccountTypes, Becomes, Account!Authorize
<1>2. UNCHANGED <<role, root, audit, follows, announced, now, exclusive, shared, gap, outages>>
  BY DEF Account!Authorize, Account!tables, Account!locks
<1>3. asked[r].op = "role"
  BY <1>1, AskedBy DEF Steps, Asks
<1>4. at \in Steps(asked[r].op) /\ at \in {"actor", "done"} /\ (at = "done" <=> how = "denied")
      /\ (at = "done" <=> how # "no") /\ how \in {"no", "denied"}
  BY <1>3 DEF Steps
<1> HIDE DEF at, how
<1>5. WellAsked(q) /\ q.at = at /\ q.ended = how
  BY <1>0, <1>1, <1>4, AskMoved
<1>6. QED
  BY <1>1, <1>2, <1>4, <1>5, PlainStep
\* What the database waits for before it lets a statement go on.
LEMMA Unblocked ==
  ASSUME NEW r \in Visits, Account!Free(r)
  PROVE  /\ asked[r].at = "actor" => exclusive[asked[r].actor] \subseteq {r}
                                     /\ shared[asked[r].actor] \subseteq {r}
         /\ asked[r].at = "target" => exclusive[asked[r].target] \subseteq {r}
                                      /\ shared[asked[r].target] \subseteq {r}
         /\ asked[r].at = "root" => exclusive["singleton"] \subseteq {r}
         /\ asked[r].at = "insert_root" => exclusive["singleton"] \subseteq {r}
                                           /\ gap \subseteq {r}
         /\ asked[r].at = "insert_follow" => exclusive[asked[r].target] \subseteq {r}
<1>1. Account!Blockers(r) = {}
  BY DEF Account!Free
<1>2. ASSUME asked[r].at = "actor"
      PROVE  exclusive[asked[r].actor] \subseteq {r} /\ shared[asked[r].actor] \subseteq {r}
  BY <1>1, <1>2 DEF Account!Blockers, Account!Others
<1>3. ASSUME asked[r].at = "target"
      PROVE  exclusive[asked[r].target] \subseteq {r} /\ shared[asked[r].target] \subseteq {r}
  BY <1>1, <1>3 DEF Account!Blockers, Account!Others
<1>4. ASSUME asked[r].at = "root" PROVE exclusive["singleton"] \subseteq {r}
  BY <1>1, <1>4 DEF Account!Blockers, Account!Others
<1>5. ASSUME asked[r].at = "insert_root"
      PROVE  exclusive["singleton"] \subseteq {r} /\ gap \subseteq {r}
  BY <1>1, <1>5 DEF Account!Blockers, Account!Others
<1>6. ASSUME asked[r].at = "insert_follow" PROVE exclusive[asked[r].target] \subseteq {r}
  BY <1>1, <1>6 DEF Account!Blockers, Account!Others
<1>7. QED
  BY <1>2, <1>3, <1>4, <1>5, <1>6

\* A request that goes on with one more lock.
LEMMA LockStep ==
  ASSUME AccountInv, NEW r \in Visits, asked[r].at # "done", NEW w \in Account!Rows,
         exclusive[w] \subseteq {r}, w \in People => shared[w] \subseteq {r},
         w = "singleton" => gap \subseteq {r},
         NEW q, WellAsked(q), q.ended = "no", Account!Lock(r, w, q),
         exclusive'[w] = {r} /\ (\A x \in Account!Rows : exclusive[x] = {r} => exclusive'[x] = {r})
           => Stands(r, q)'
  PROVE  AccountInv'
<1>1. /\ exclusive' = [exclusive EXCEPT ![w] = @ \cup {r}] /\ asked' = [asked EXCEPT ![r] = q]
      /\ UNCHANGED <<role, root, audit, follows, announced, now, shared, gap, outages>>
  BY DEF Account!Lock, Account!tables
<1>2. /\ exclusive' \in [Account!Rows -> SUBSET Visits] /\ LocksExclusive' /\ Kept(r)
      /\ Stands(r, q)'
  BY <1>1, LockTaken
<1>3. /\ shared' \in [Account!Rows -> SUBSET Visits] /\ gap' \subseteq Visits
      /\ outages' \in 0 .. MaxOutages
  BY <1>1 DEF AccountInv, AccountTypes
<1>4. QED
  BY <1>1, <1>2, <1>3, StepKeeps

LEMMA LockActorKeeps ==
  ASSUME AccountInv, NEW r \in Visits, Account!LockActor(r) PROVE AccountInv'
<1> DEFINE u == asked[r].actor
<1>1. /\ asked[r].at = "actor" /\ u \in People /\ u \in Account!Rows
      /\ asked[r].op \in {"role", "follow", "unfollow"}
      /\ exclusive[u] \subseteq {r} /\ shared[u] \subseteq {r} /\ u # "singleton"
  <2>1. asked[r].at = "actor" /\ Account!Free(r)
    BY DEF Account!LockActor
  <2>2. asked[r].op \in {"role", "follow", "unfollow"}
    BY <2>1, AskedBy DEF Steps, Asks
  <2>3. QED
    BY <2>1, <2>2, AskedBy, Unblocked, RowsOf
<1>2. CASE asked[r].op = "role" /\ role[u] # "super_admin"
  <2>1. Account!End(r, "denied")
    BY <1>2 DEF Account!LockActor
  <2>2. QED
    BY <1>1, <1>2, <2>1, EndOfStep
<1>3. CASE asked[r].op = "role" /\ role[u] = "super_admin"
  <2>1. PICK q : GoesOn(q, asked[r], "target", asked[r].before) /\ Account!Lock(r, u, q)
    BY <1>3 DEF Account!LockActor, GoesOn
  <2>2. /\ WellAsked(q) /\ q.at = "target" /\ q.op = "role" /\ q.actor = u /\ q.ended = "no"
    <3>1. "target" \in Steps(asked[r].op) /\ asked[r].before \in Roles
      BY <1>3, AskedBy DEF Steps, Asks
    <3>2. QED
      BY <1>1, <1>3, <2>1, <3>1, MovedOn
  <2>3. role' = role
    BY <2>1 DEF Account!Lock, Account!tables
  <2>4. exclusive'[u] = {r} => Stands(r, q)'
    BY <1>3, <2>2, <2>3 DEF Stands, RoleStands, Locked
  <2>5. QED
    BY <1>1, <2>1, <2>2, <2>4, LockStep
<1>4. CASE asked[r].op # "role"
  <2>1. PICK q : GoesOn(q, asked[r], "insert_follow", asked[r].before) /\ Account!Lock(r, u, q)
    BY <1>4 DEF Account!LockActor, GoesOn
  <2>2. /\ WellAsked(q) /\ q.at = "insert_follow" /\ q.op = asked[r].op /\ q.actor = u
        /\ q.ended = "no"
    <3>1. "insert_follow" \in Steps(asked[r].op) /\ asked[r].before \in Roles
      BY <1>1, <1>4, AskedBy DEF Steps, Asks
    <3>2. QED
      BY <1>1, <2>1, <3>1, MovedOn
  <2>3. exclusive'[u] = {r} => Stands(r, q)'
    BY <1>1, <1>4, <2>2 DEF Stands, FollowStands, Locked
  <2>4. QED
    BY <1>1, <2>1, <2>2, <2>3, LockStep
<1>5. QED
  BY <1>2, <1>3, <1>4
LEMMA LockTargetKeeps ==
  ASSUME AccountInv, NEW r \in Visits, Account!LockTarget(r) PROVE AccountInv'
<1> DEFINE u == asked[r].target
<1>1. /\ asked[r].at = "target" /\ u \in People /\ u \in Account!Rows
      /\ asked[r].op \in {"role", "declare"} /\ role[u] \in Roles
      /\ exclusive[u] \subseteq {r} /\ shared[u] \subseteq {r} /\ u # "singleton"
  <2>1. asked[r].at = "target" /\ Account!Free(r)
    BY DEF Account!LockTarget
  <2>2. asked[r].op \in {"role", "declare"}
    BY <2>1, AskedBy DEF Steps, Asks
  <2>3. u \in People
    BY <2>1, AskedBy
  <2>4. role[u] \in Roles
    BY <2>3 DEF AccountInv, AccountTypes
  <2>5. QED
    BY <2>1, <2>2, <2>3, <2>4, Unblocked, RowsOf
<1>2. CASE role[u] = "none"
  <2>1. Account!End(r, "not_found")
    BY <1>2 DEF Account!LockTarget
  <2>2. QED
    BY <1>1, <1>2, <2>1, EndOfStep
<1>3. CASE role[u] # "none" /\ asked[r].op = "role"
  <2>1. PICK q : GoesOn(q, asked[r], "root", role[u]) /\ Account!Lock(r, u, q)
    BY <1>3 DEF Account!LockTarget, GoesOn
  <2>2. /\ WellAsked(q) /\ q.at = "root" /\ q.op = "role" /\ q.actor = asked[r].actor
        /\ q.target = u /\ q.before = role[u] /\ q.ended = "no"
    <3>1. "root" \in Steps(asked[r].op)
      BY <1>3 DEF Steps
    <3>2. QED
      BY <1>1, <1>3, <2>1, <3>1, MovedOn
  <2>3. role' = role
    BY <2>1 DEF Account!Lock, Account!tables
  <2>4. asked[r].actor \in Account!Rows /\ exclusive[asked[r].actor] = {r}
        /\ role[asked[r].actor] = "super_admin"
    BY <1>1, <1>3, AskedBy, RowsOf DEF Stands, RoleStands, Locked
  <2>5. exclusive'[u] = {r} /\ exclusive'[asked[r].actor] = {r} => Stands(r, q)'
    BY <1>3, <2>2, <2>3, <2>4 DEF Stands, RoleStands, Locked
  <2>6. QED
    BY <1>1, <2>1, <2>2, <2>4, <2>5, LockStep
<1>4. CASE role[u] # "none" /\ asked[r].op = "declare"
  <2> DEFINE at == IF root = Account!Nobody THEN "insert_root" ELSE "commit"
  <2>1. PICK q : GoesOn(q, asked[r], at, role[u]) /\ Account!Lock(r, u, q)
    <3>1. Account!Lock(r, u, [asked[r] EXCEPT !.before = role[u], !.at = at])
      BY <1>4 DEF Account!LockTarget
    <3>2. [asked[r] EXCEPT !.before = role[u], !.at = at]
            = [asked[r] EXCEPT !.at = at, !.before = role[u]]
      BY AskedBy DEF Asks
    <3>3. QED
      BY <3>1, <3>2 DEF GoesOn
  <2>2. at \in {"insert_root", "commit"} /\ at \in Steps(asked[r].op)
    BY <1>4 DEF Steps
  <2>3. (at = "insert_root") <=> (root = Account!Nobody)
    OBVIOUS
  <2> HIDE DEF at
  <2>4. /\ WellAsked(q) /\ q.at = at /\ q.op = "declare" /\ q.target = u
        /\ q.before = role[u] /\ q.ended = "no"
    BY <1>1, <1>4, <2>1, <2>2, MovedOn
  <2>5. role' = role /\ root' = root /\ gap' = gap
    BY <2>1 DEF Account!Lock, Account!tables
  <2>6. \/ root = Account!Nobody /\ r \in gap
        \/ root = u /\ exclusive["singleton"] = {r}
    BY <1>1, <1>4, AskedBy DEF Stands, DeclareStands, Locked
  <2>7. root = u => root # Account!Nobody
    BY <1>1, RowsOf
  <2>8. ASSUME exclusive'[u] = {r}, exclusive["singleton"] = {r} => exclusive'["singleton"] = {r}
        PROVE  Stands(r, q)'
    BY <1>4, <2>2, <2>3, <2>4, <2>5, <2>6, <2>7, <2>8 DEF Stands, DeclareStands, Locked
  <2>9. "singleton" \in Account!Rows
    BY RowsOf
  <2>10. QED
    BY <1>1, <2>1, <2>2, <2>4, <2>8, <2>9, LockStep
<1>5. QED
  BY <1>1, <1>2, <1>3, <1>4

LEMMA InsertRootKeeps ==
  ASSUME AccountInv, NEW r \in Visits, Account!InsertRoot(r) PROVE AccountInv'
<1>1. asked[r].at = "insert_root" /\ exclusive["singleton"] \subseteq {r} /\ gap \subseteq {r}
  BY Unblocked DEF Account!InsertRoot
<1>2. asked[r].op = "declare" /\ asked[r].before \in Roles /\ asked[r].target \in People
  BY <1>1, AskedBy DEF Steps, Asks
<1>3. PICK q : GoesOn(q, asked[r], "commit", asked[r].before) /\ Account!Lock(r, "singleton", q)
  BY DEF Account!InsertRoot, GoesOn
<1>4. /\ WellAsked(q) /\ q.at = "commit" /\ q.op = "declare" /\ q.target = asked[r].target
      /\ q.before = asked[r].before /\ q.ended = "no"
  <2>1. "commit" \in Steps(asked[r].op)
    BY <1>2 DEF Steps
  <2>2. QED
    BY <1>1, <1>2, <1>3, <2>1, MovedOn
<1>5. role' = role /\ root' = root
  BY <1>3 DEF Account!Lock, Account!tables
<1>6. /\ exclusive[asked[r].target] = {r} /\ asked[r].before = role[asked[r].target]
      /\ asked[r].before # "none" /\ r \in gap
  BY <1>1, <1>2, AskedBy DEF Stands, DeclareStands, Locked
<1>7. root = Account!Nobody
  BY <1>6 DEF AccountInv, LocksExclusive
<1>8. "singleton" \in Account!Rows /\ "singleton" \notin People /\ asked[r].target \in Account!Rows
  BY <1>2, RowsOf
<1>9. exclusive'["singleton"] = {r} /\ exclusive'[asked[r].target] = {r} => Stands(r, q)'
  BY <1>4, <1>5, <1>6, <1>7 DEF Stands, DeclareStands, Locked
<1>10. QED
  BY <1>1, <1>3, <1>4, <1>6, <1>8, <1>9, LockStep
LEMMA LockRootKeeps ==
  ASSUME AccountInv, NEW r \in Visits, Account!LockRoot(r) PROVE AccountInv'
<1> DEFINE u == asked[r].actor
           v == asked[r].target
<1>1. /\ asked[r].at = "root" /\ u \in People /\ v \in People
      /\ asked[r].op \in {"role", "declare"} /\ exclusive["singleton"] \subseteq {r}
      /\ asked[r].before \in Roles
  <2>1. asked[r].at = "root" /\ Account!Free(r)
    BY DEF Account!LockRoot
  <2>2. asked[r].op \in {"role", "declare"} /\ asked[r].before \in Roles
    BY <2>1, AskedBy DEF Steps, Asks
  <2>3. QED
    BY <2>1, <2>2, AskedBy, Unblocked
<1>2. "singleton" \in Account!Rows /\ "singleton" \notin People
      /\ u \in Account!Rows /\ v \in Account!Rows
  BY <1>1, RowsOf
<1>3. ASSUME NEW how \in {"denied", "protected"}, Account!End(r, how) PROVE AccountInv'
  BY <1>1, <1>3, EndOfStep
<1>4. CASE root = Account!Nobody /\ asked[r].op = "role"
  <2>1. Account!End(r, "denied")
    BY <1>4 DEF Account!LockRoot
  <2>2. QED
    BY <1>3, <2>1
<1>5. CASE root = Account!Nobody /\ asked[r].op = "declare"
  <2>1. /\ gap' = gap \cup {r} /\ asked' = [asked EXCEPT ![r].at = "target"]
        /\ UNCHANGED <<role, root, audit, follows, announced, now, exclusive, shared, outages>>
    BY <1>5 DEF Account!LockRoot, Account!tables
  <2>2. PICK q : GoesOn(q, asked[r], "target", asked[r].before)
                 /\ asked' = [asked EXCEPT ![r] = q]
    BY <2>1 DEF GoesOn, AccountInv, AccountTypes
  <2>3. WellAsked(q) /\ q.at = "target" /\ q.op = "declare" /\ q.ended = "no"
    <3>1. "target" \in Steps(asked[r].op)
      BY <1>5 DEF Steps
    <3>2. QED
      BY <1>1, <1>5, <2>2, <3>1, MovedOn
  <2>4. Stands(r, q)'
    BY <1>5, <2>1, <2>3 DEF Stands, DeclareStands, Locked
  <2>5. LocksExclusive'
    BY <1>1, <1>5, <2>1 DEF AccountInv, LocksExclusive
  <2>6. Kept(r)
    BY <2>1 DEF Kept
  <2>7. /\ exclusive' \in [Account!Rows -> SUBSET Visits] /\ gap' \subseteq Visits
        /\ shared' \in [Account!Rows -> SUBSET Visits] /\ outages' \in 0 .. MaxOutages
    BY <2>1 DEF AccountInv, AccountTypes
  <2>8. QED
    BY <1>1, <2>1, <2>2, <2>3, <2>4, <2>5, <2>6, <2>7, StepKeeps
<1>6. CASE root # Account!Nobody
  <2> DEFINE protected == \/ asked[r].op = "declare" /\ root # v
                          \/ asked[r].op = "role" /\ root = v /\ asked[r].next # "super_admin"
  <2>1. CASE protected
    <3>1. Account!End(r, "protected")
      BY <1>6, <2>1 DEF Account!LockRoot
    <3>2. QED
      BY <1>3, <3>1
  <2>2. ASSUME ~protected, asked[r].op = "role" PROVE AccountInv'
    <3>1. PICK q : GoesOn(q, asked[r], "commit", asked[r].before)
                   /\ Account!Lock(r, "singleton", q)
      BY <1>6, <2>2 DEF Account!LockRoot, GoesOn
    <3>2. /\ WellAsked(q) /\ q.at = "commit" /\ q.op = "role" /\ q.ended = "no"
          /\ q.actor = u /\ q.target = v /\ q.next = asked[r].next
          /\ q.before = asked[r].before
      <4>1. "commit" \in Steps(asked[r].op)
        BY <2>2 DEF Steps
      <4>2. QED
        BY <1>1, <2>2, <3>1, <4>1, MovedOn
    <3>3. role' = role /\ root' = root /\ gap = {}
      BY <1>6, <3>1 DEF Account!Lock, Account!tables, AccountInv, LocksExclusive
    <3>4. /\ exclusive[u] = {r} /\ role[u] = "super_admin"
          /\ exclusive[v] = {r} /\ asked[r].before = role[v] /\ asked[r].before # "none"
      BY <1>1, <2>2, AskedBy DEF Stands, RoleStands, Locked
    <3>5. ASSUME exclusive'["singleton"] = {r}, exclusive'[u] = {r}, exclusive'[v] = {r}
          PROVE  Stands(r, q)'
      BY <1>6, <2>2, <3>2, <3>3, <3>4, <3>5 DEF Stands, RoleStands, Locked
    <3>6. QED
      BY <1>1, <1>2, <3>1, <3>2, <3>3, <3>4, <3>5, LockStep
  <2>3. ASSUME ~protected, asked[r].op = "declare" PROVE AccountInv'
    <3>1. PICK q : GoesOn(q, asked[r], "target", asked[r].before)
                   /\ Account!Lock(r, "singleton", q)
      BY <1>6, <2>3 DEF Account!LockRoot, GoesOn
    <3>2. /\ WellAsked(q) /\ q.at = "target" /\ q.op = "declare" /\ q.ended = "no"
          /\ q.target = v
      <4>1. "target" \in Steps(asked[r].op)
        BY <2>3 DEF Steps
      <4>2. QED
        BY <1>1, <2>3, <3>1, <4>1, MovedOn
    <3>3. role' = role /\ root' = root /\ gap = {}
      BY <1>6, <3>1 DEF Account!Lock, Account!tables, AccountInv, LocksExclusive
    <3>4. exclusive'["singleton"] = {r} => Stands(r, q)'
      BY <2>3, <3>2, <3>3 DEF Stands, DeclareStands, Locked
    <3>5. QED
      BY <1>1, <1>2, <3>1, <3>2, <3>3, <3>4, LockStep
  <2>4. QED
    BY <1>1, <2>1, <2>2, <2>3
<1>7. QED
  BY <1>1, <1>4, <1>5, <1>6

LEMMA WriteFollowKeeps ==
  ASSUME AccountInv, NEW r \in Visits, Account!WriteFollow(r) PROVE AccountInv'
<1> DEFINE v == asked[r].target
           p == <<asked[r].actor, v>>
<1>1. /\ asked[r].at = "insert_follow" /\ asked[r].op \in {"follow", "unfollow"}
      /\ v \in People /\ v \in Account!Rows /\ v # "singleton" /\ asked[r].before \in Roles
      /\ exclusive[asked[r].actor] = {r}
  <2>1. asked[r].at = "insert_follow"
    BY DEF Account!WriteFollow
  <2>2. asked[r].op \in {"follow", "unfollow"} /\ asked[r].before \in Roles
    BY <2>1, AskedBy DEF Steps, Asks
  <2>3. exclusive[asked[r].actor] = {r}
    BY <2>1, <2>2, AskedBy DEF Stands, FollowStands, Locked
  <2>4. QED
    BY <2>1, <2>2, <2>3, AskedBy, RowsOf
<1>2. CASE role[v] = "none"
  <2>1. Account!End(r, "not_found")
    BY <1>2 DEF Account!WriteFollow
  <2>2. QED
    BY <1>1, <2>1, EndOfStep
<1>3. CASE role[v] # "none" /\ asked[r].op = "follow" /\ p \in follows
  <2>1. Account!End(r, "ok")
    BY <1>3 DEF Account!WriteFollow
  <2>2. QED
    BY <1>1, <1>3, <2>1, EndOfStep
<1>4. CASE role[v] # "none" /\ ~(asked[r].op = "follow" /\ p \in follows)
  <2>1. /\ asked[r].op = "follow" => Account!Free(r)
        /\ asked' = [asked EXCEPT ![r].at = "commit"]
        /\ shared' = IF asked[r].op = "follow" THEN [shared EXCEPT ![v] = @ \cup {r}]
                                               ELSE shared
        /\ UNCHANGED <<role, root, audit, follows, announced, now, exclusive, gap, outages>>
    BY <1>4 DEF Account!WriteFollow, Account!tables
  <2>2. PICK q : GoesOn(q, asked[r], "commit", asked[r].before)
                 /\ asked' = [asked EXCEPT ![r] = q]
    BY <2>1 DEF GoesOn, AccountInv, AccountTypes
  <2>3. /\ WellAsked(q) /\ q.at = "commit" /\ q.op = asked[r].op /\ q.ended = "no"
        /\ q.actor = asked[r].actor /\ q.target = v
    <3>1. "commit" \in Steps(asked[r].op)
      BY <1>1 DEF Steps
    <3>2. QED
      BY <1>1, <2>2, <3>1, MovedOn
  <2>4. Stands(r, q)'
    BY <1>1, <1>4, <2>1, <2>3 DEF Stands, FollowStands, Locked
  <2>5. /\ exclusive' \in [Account!Rows -> SUBSET Visits] /\ gap' \subseteq Visits
        /\ shared' \in [Account!Rows -> SUBSET Visits] /\ outages' \in 0 .. MaxOutages
    BY <2>1 DEF AccountInv, AccountTypes
  <2>6. \A w \in People : exclusive'[w] # {} => shared'[w] \subseteq exclusive'[w]
    <3>1. asked[r].op = "follow" => exclusive[v] \subseteq {r}
      BY <1>1, <2>1, Unblocked
    <3>2. \A w \in People : shared'[w] = shared[w] \/ /\ w = v /\ exclusive[v] \subseteq {r}
                                                      /\ shared'[w] = shared[w] \cup {r}
      BY <1>1, <2>1, <3>1, RowsOf DEF AccountInv, AccountTypes
    <3>3. QED
      BY <2>1, <3>2 DEF AccountInv, LocksExclusive
  <2>7. LocksExclusive'
    BY <2>1, <2>6 DEF AccountInv, LocksExclusive
  <2>8. Kept(r)
    BY <2>1 DEF Kept
  <2>9. QED
    BY <1>1, <2>1, <2>2, <2>3, <2>4, <2>5, <2>7, <2>8, StepKeeps
<1>5. QED
  BY <1>2, <1>3, <1>4

LEMMA GivenUpKeeps ==
  ASSUME AccountInv, NEW r \in Visits, Account!Victim(r) \/ Account!Disconnect(r)
  PROVE  AccountInv'
<1>1. asked[r].at \notin {"idle", "done"}
  BY DEF Account!Victim, Account!Disconnect, Account!InTransaction
<1>2. CASE Account!Victim(r)
  BY <1>1, <1>2, EndOfStep DEF Account!Victim
<1>3. CASE Account!Disconnect(r)
  <2>1. /\ asked' = [asked EXCEPT ![r].at = "done", ![r].ended = "lost"]
        /\ Account!Release(r) /\ UNCHANGED <<Account!tables, now>>
        /\ outages < MaxOutages /\ outages' = outages + 1
    BY <1>3 DEF Account!Disconnect
  <2>2. outages' \in 0 .. MaxOutages
    BY <2>1, AccountsAssumption DEF AccountInv, AccountTypes
  <2>3. QED
    BY <1>1, <2>1, <2>2, EndKeeps
<1>4. QED
  BY <1>2, <1>3
-----------------------------------------------------------------------------
\* After one more entry.
LEMMA AfterOneMore ==
  ASSUME NEW s \in Seq(Entries), NEW e \in Entries, NEW f, NEW u, NEW x
  PROVE  /\ \A n \in 0 .. Len(s) :
              Account!After(f, Append(s, e), n, u, x) <=> Account!After(f, s, n, u, x)
         /\ u # e.user /\ Account!After(f, s, Len(s), u, x)
              => Account!After(f, Append(s, e), Len(Append(s, e)), u, x)
         /\ Account!After(f, Append(s, e), Len(Append(s, e)), e.user, e.after)
<1> DEFINE t == Append(s, e)
<1>1. /\ Len(s) \in Nat /\ Len(t) = Len(s) + 1 /\ t[Len(s) + 1] = e
      /\ \A i \in 1 .. Len(s) : t[i] = s[i]
  OBVIOUS
<1> HIDE DEF t
<1>2. ASSUME NEW n \in 0 .. Len(s)
      PROVE  Account!After(f, t, n, u, x) <=> Account!After(f, s, n, u, x)
  <2>1. \A i \in 0 .. n : /\ \A j \in i + 1 .. n : t[j] = s[j]
                          /\ i # 0 => t[i] = s[i]
    BY <1>1
  <2>2. ASSUME Account!After(f, t, n, u, x) PROVE Account!After(f, s, n, u, x)
    <3>1. PICK i \in 0 .. n : /\ \A j \in i + 1 .. n : t[j].user # u
                              /\ IF i = 0 THEN x = f ELSE t[i].user = u /\ t[i].after = x
      BY <2>2 DEF Account!After
    <3>2. QED
      BY <2>1, <3>1 DEF Account!After
  <2>3. ASSUME Account!After(f, s, n, u, x) PROVE Account!After(f, t, n, u, x)
    <3>1. PICK i \in 0 .. n : /\ \A j \in i + 1 .. n : s[j].user # u
                              /\ IF i = 0 THEN x = f ELSE s[i].user = u /\ s[i].after = x
      BY <2>3 DEF Account!After
    <3>2. QED
      BY <2>1, <3>1 DEF Account!After
  <2>4. QED
    BY <2>2, <2>3
<1>3. ASSUME u # e.user, Account!After(f, s, Len(s), u, x)
      PROVE  Account!After(f, t, Len(t), u, x)
  <2>1. PICK i \in 0 .. Len(s) :
               /\ \A j \in i + 1 .. Len(s) : s[j].user # u
               /\ IF i = 0 THEN x = f ELSE s[i].user = u /\ s[i].after = x
    BY <1>3 DEF Account!After
  <2>2. \A j \in i + 1 .. Len(t) : t[j].user # u
    BY <1>1, <1>3, <2>1
  <2>3. i \in 0 .. Len(t) /\ (i # 0 => t[i] = s[i])
    BY <1>1
  <2>4. QED
    BY <2>1, <2>2, <2>3 DEF Account!After
<1>4. Account!After(f, t, Len(t), e.user, e.after)
  <2>1. Len(t) \in 0 .. Len(t) /\ Len(t) # 0 /\ t[Len(t)] = e
        /\ \A j \in Len(t) + 1 .. Len(t) : FALSE
    BY <1>1
  <2>2. QED
    BY <2>1 DEF Account!After
<1>5. QED
  BY <1>2, <1>3, <1>4 DEF t

\* A change of a role that is audited: its author is an administrator, or it declares
\* the root.
LEMMA AuditGrows ==
  ASSUME AccountInv, NEW e \in Entries, audit' = Append(audit, e),
         role' = [role EXCEPT ![e.user] = e.after], e.after # "none",
         e.before = role[e.user], e.before # "none",
         \/ e.by = Account!Nobody /\ root = Account!Nobody /\ root' = e.user
         \/ e.by \in People /\ role[e.by] = "super_admin" /\ root' = root
            /\ root # Account!Nobody
  PROVE  Account!AuditExplainsRoles' /\ AuditTrue'
<1> DEFINE n == Len(audit)
<1>1. /\ audit \in Seq(Entries) /\ n \in Nat /\ Len(audit') = n + 1 /\ audit'[n + 1] = e
      /\ \A i \in 1 .. n : audit'[i] = audit[i] /\ audit[i] \in Entries
      /\ DOMAIN audit' = 1 .. n + 1 /\ DOMAIN audit = 1 .. n
  BY DEF AccountInv, AccountTypes
<1>2. e.user \in People /\ (e.by \in People => e.by # Account!Nobody)
      /\ role'[e.user] = e.after /\ \A u \in People \ {e.user} : role'[u] = role[u]
  BY RowsOf DEF AccountInv, AccountTypes, Entries
<1>3. \A u : Account!Initially(u)' = Account!Initially(u)
  <2>1. (root' = Account!Nobody \/ \E i \in DOMAIN audit' : audit'[i].by = Account!Nobody)
          <=> (root = Account!Nobody \/ \E i \in DOMAIN audit : audit[i].by = Account!Nobody)
    BY <1>1, <1>2
  <2>2. QED
    BY <2>1 DEF Account!Initially, Account!FirstRole
<1>4. Account!AuditExplainsRoles
  BY DEF AccountInv
<1>5. ASSUME NEW u \in People, role'[u] # "none"
      PROVE  Account!After(Account!Initially(u), audit', Len(audit'), u, role'[u])
  <2>1. CASE u = e.user
    BY <1>1, <1>2, <2>1, AfterOneMore
  <2>2. CASE u # e.user
    <3>1. Account!After(Account!Initially(u), audit, Len(audit), u, role[u])
      BY <1>2, <1>4, <1>5, <2>2 DEF Account!AuditExplainsRoles
    <3>2. QED
      BY <1>1, <1>2, <2>2, <3>1, AfterOneMore
  <2>3. QED
    BY <2>1, <2>2
<1>6. ASSUME NEW i \in DOMAIN audit'
      PROVE  /\ Account!After(Account!Initially(audit'[i].user), audit', i - 1, audit'[i].user,
                              audit'[i].before)
             /\ audit'[i].by # Account!Nobody =>
                  Account!After(Account!Initially(audit'[i].by), audit', i - 1, audit'[i].by,
                                "super_admin")
  <2>1. i - 1 \in 0 .. n
    BY <1>1
  <2>2. \A f, u, x : Account!After(f, audit', i - 1, u, x) <=> Account!After(f, audit, i - 1, u, x)
    BY <1>1, <2>1, AfterOneMore
  <2>3. CASE i # n + 1
    <3>1. i \in DOMAIN audit /\ audit'[i] = audit[i]
      BY <1>1, <2>3
    <3>2. QED
      BY <1>4, <2>2, <3>1 DEF Account!AuditExplainsRoles
  <2>4. CASE i = n + 1
    <3>1. i - 1 = Len(audit) /\ audit'[i] = e
      BY <1>1, <2>4
    <3>2. Account!After(Account!Initially(e.user), audit, Len(audit), e.user, e.before)
      BY <1>2, <1>4 DEF Account!AuditExplainsRoles
    <3>3. e.by # Account!Nobody =>
            Account!After(Account!Initially(e.by), audit, Len(audit), e.by, "super_admin")
      BY <1>4 DEF Account!AuditExplainsRoles
    <3>4. QED
      BY <2>2, <3>1, <3>2, <3>3
  <2>5. QED
    BY <2>3, <2>4
<1>7. Account!AuditExplainsRoles'
  BY <1>3, <1>5, <1>6 DEF Account!AuditExplainsRoles
<1>8. AuditTrue'
  <2>1. AuditTrue
    BY DEF AccountInv
  <2>2. \A i \in DOMAIN audit' : role'[audit'[i].user] # "none"
    BY <1>1, <1>2, <2>1 DEF AuditTrue, Entries
  <2>3. \A u \in Founders : role'[u] # "none"
    BY <1>2, <2>1, AccountsAssumption DEF AuditTrue
  <2>4. \A i \in DOMAIN audit' : audit'[i].by = Account!Nobody => root' # Account!Nobody
    BY <1>1, <1>2, <2>1, RowsOf DEF AuditTrue
  <2>5. \A i, j \in DOMAIN audit' :
          audit'[i].by = Account!Nobody /\ audit'[j].by = Account!Nobody => i = j
    <3>1. \A i \in DOMAIN audit : e.by = Account!Nobody => audit[i].by # Account!Nobody
      BY <1>2, <2>1 DEF AuditTrue
    <3>2. \A i, j \in DOMAIN audit :
            audit[i].by = Account!Nobody /\ audit[j].by = Account!Nobody => i = j
      BY <2>1 DEF AuditTrue
    <3>3. \A i \in DOMAIN audit' : i = n + 1 \/ (i \in DOMAIN audit /\ audit'[i] = audit[i])
      BY <1>1
    <3>4. QED
      BY <1>1, <3>1, <3>2, <3>3
  <2>6. QED
    BY <2>2, <2>3, <2>4, <2>5 DEF AuditTrue
<1>9. QED
  BY <1>7, <1>8

\* A request that ends keeps what it asked for.
LEMMA AskEnded ==
  ASSUME AccountInv, NEW r \in Visits, asked[r].at \notin {"idle", "done"},
         NEW how \in {"ok", "denied", "not_found", "protected", "deadlock", "lost"},
         NEW q, Becomes(q, asked[r], "done", how)
  PROVE  /\ WellAsked(q) /\ q.at = "done" /\ q.ended = how /\ q.op = asked[r].op
         /\ q.actor = asked[r].actor /\ q.target = asked[r].target
<1>1. WellAsked(q) /\ q.at = "done" /\ q.ended = how /\ q.op = asked[r].op
  <2>1. asked[r].at # "idle" /\ "done" \in Steps(asked[r].op) /\ how # "no"
    BY AskedBy
  <2>2. QED
    BY <2>1, AskMoved
<1>2. q.actor = asked[r].actor /\ q.target = asked[r].target
  BY AskedBy DEF Becomes, Asks
<1>3. QED
  BY <1>1, <1>2

\* What a commit with an effect leaves of the requests and their locks.
LEMMA CommitFrame ==
  ASSUME AccountInv, NEW r \in Visits, asked[r].at = "commit",
         asked' = [asked EXCEPT ![r].at = "done", ![r].ended = "ok"],
         Account!Release(r), UNCHANGED <<now, outages>>,
         role' \in [People -> Roles],
         \A u \in People : role'[u] = role[u] \/ exclusive[u] = {r},
         root' \in People \cup {Account!Nobody},
         root' = root \/ exclusive["singleton"] = {r},
         \A p \in Account!Pairs : p \in follows' => p \in follows \/ exclusive[p[1]] = {r},
         follows' \subseteq Account!Pairs, announced' \in [Account!Pairs -> Nat],
         audit' \in Seq(Entries)
  PROVE  /\ AccountTypes' /\ LocksExclusive' /\ FindingsStand'
         /\ \A s \in Visits \ {r} : asked'[s] = asked[s]
         /\ asked'[r].at = "done" /\ asked'[r].ended = "ok" /\ asked'[r].op = asked[r].op
         /\ asked'[r].actor = asked[r].actor /\ asked'[r].target = asked[r].target
<1>1. PICK q : Becomes(q, asked[r], "done", "ok")
  BY DEF Becomes
<1>2. asked' = [asked EXCEPT ![r] = q]
  BY <1>1 DEF AccountInv, AccountTypes, Becomes
<1>3. WellAsked(q) /\ q.at = "done" /\ q.ended = "ok" /\ q.op = asked[r].op
      /\ q.actor = asked[r].actor /\ q.target = asked[r].target
  <2>1. asked[r].at \notin {"idle", "done"}
    OBVIOUS
  <2>2. QED
    BY <1>1, <2>1, AskEnded
<1>4. \A s \in Visits : asked'[s] = IF s = r THEN q ELSE asked[s]
  BY <1>2 DEF AccountInv, AccountTypes
<1>5. root' = root \/ gap \subseteq {r}
  BY DEF AccountInv, LocksExclusive
<1>6. /\ exclusive' \in [Account!Rows -> SUBSET Visits]
      /\ shared' \in [Account!Rows -> SUBSET Visits] /\ gap' \subseteq Visits
      /\ LocksExclusive' /\ Kept(r)
  BY <1>5, LocksReleased
<1>7. AccountTypes'
  <2>1. asked' \in [Visits -> Asks]
    BY <1>2, <1>3 DEF AccountInv, AccountTypes, WellAsked
  <2>2. \A s \in Visits : WellAsked(asked'[s])
    BY <1>3, <1>4 DEF AccountInv, AccountTypes
  <2>3. QED
    BY <1>6, <2>1, <2>2 DEF AccountInv, AccountTypes
<1>8. FindingsStand'
  <2> SUFFICES ASSUME NEW s \in Visits PROVE Stands(s, asked[s])'
    BY DEF FindingsStand
  <2>1. CASE s = r
    BY <1>3, <1>4, <2>1 DEF Stands, RoleStands, DeclareStands, FollowStands
  <2>2. CASE s # r
    BY <1>4, <1>6, <2>2, OthersStand
  <2>3. QED
    BY <2>1, <2>2
<1>9. QED
  BY <1>3, <1>4, <1>6, <1>7, <1>8

\* An unchanged audit explains unchanged roles.
LEMMA AuditUnchanged ==
  ASSUME AccountInv, UNCHANGED <<role, root, audit>>
  PROVE  AuditTrue' /\ RootIsAdmin' /\ Account!AuditExplainsRoles'
<1>1. role' = role /\ root' = root /\ audit' = audit
  OBVIOUS
<1>2. AuditTrue' /\ RootIsAdmin'
  BY DEF AccountInv, AuditTrue, RootIsAdmin
<1>3. Account!AuditExplainsRoles
  BY DEF AccountInv
<1>4. Account!AuditExplainsRoles'
  BY <1>1, <1>3 DEF Account!AuditExplainsRoles, Account!After, Account!Initially,
                    Account!FirstRole
<1>5. QED
  BY <1>2, <1>4

\* What Commit does, whatever the request asked.
LEMMA Committed ==
  ASSUME AccountInv, NEW r \in Visits, Account!Commit(r)
  PROVE  /\ asked[r].at = "commit" /\ asked[r].op \in {"role", "declare", "follow", "unfollow"}
         /\ asked[r].actor \in People /\ asked[r].target \in People
         /\ asked' = [asked EXCEPT ![r].at = "done", ![r].ended = "ok"]
         /\ Account!Release(r) /\ UNCHANGED <<now, outages>>
<1>1. /\ asked[r].at = "commit"
      /\ asked' = [asked EXCEPT ![r].at = "done", ![r].ended = "ok"]
      /\ Account!Release(r) /\ UNCHANGED <<now, outages>>
  BY DEF Account!Commit
<1>2. asked[r].op \in {"role", "declare", "follow", "unfollow"}
  BY <1>1, AskedBy DEF Asks
<1>3. QED
  BY <1>1, <1>2, AskedBy

\* The commit of a change of a role, of a user or of the new root.
LEMMA CommitRole ==
  ASSUME AccountInv, NEW r \in Visits, Account!Commit(r),
         \/ asked[r].op = "role" /\ asked[r].before # asked[r].next
         \/ asked[r].op = "declare" /\ root = Account!Nobody
  PROVE  AccountInv'
<1> DEFINE q == asked[r]
           v == asked[r].target
           e == Account!Entry(asked[r])
<1>1. /\ q.at = "commit" /\ q.actor \in People /\ v \in People
      /\ q.op \in {"role", "declare"}
  BY Committed
<1>2. /\ role' = [role EXCEPT ![v] = q.next] /\ audit' = Append(audit, e)
      /\ root' = IF q.op = "declare" THEN v ELSE root
      /\ follows' = follows /\ announced' = announced
  BY <1>1 DEF Account!Commit
<1>3. /\ e.user = v /\ e.before = q.before /\ e.after = q.next
      /\ e.by = IF q.op = "declare" THEN Account!Nobody ELSE q.actor
      /\ e = [by |-> e.by, user |-> v, before |-> q.before, after |-> q.next]
  BY DEF Account!Entry
<1> HIDE DEF e
<1>4. /\ q.before \in Roles /\ q.next \in Roles /\ q.next # "none" /\ q.before # "none"
      /\ q.op = "declare" => q.next = "super_admin"
      /\ q.before = role[v] /\ exclusive[v] = {r} /\ exclusive["singleton"] = {r}
      /\ q.op = "role" => /\ role[q.actor] = "super_admin" /\ root # Account!Nobody
                          /\ root = v => q.next = "super_admin"
  <2>1. WellAsked(q) /\ q \in Asks /\ Stands(r, q)
    BY AskedBy
  <2>2. q.before \in Roles /\ q.next \in Roles
    BY <2>1 DEF Asks
  <2>3. q.next # "none" /\ (q.op = "declare" => q.next = "super_admin")
    BY <1>1, <2>1 DEF WellAsked
  <2>4. QED
    BY <1>1, <2>1, <2>2, <2>3 DEF Stands, RoleStands, DeclareStands, Locked
<1>5. e \in Entries
  BY <1>1, <1>3, <1>4 DEF Entries
<1>6. /\ role' \in [People -> Roles] /\ role'[v] = q.next
      /\ \A u \in People \ {v} : role'[u] = role[u]
  BY <1>1, <1>2, <1>4 DEF AccountInv, AccountTypes
<1>7. /\ root' \in People \cup {Account!Nobody} /\ audit' \in Seq(Entries)
      /\ follows' \subseteq Account!Pairs /\ announced' \in [Account!Pairs -> Nat]
  BY <1>1, <1>2, <1>5 DEF AccountInv, AccountTypes
<1>8. AccountTypes' /\ LocksExclusive' /\ FindingsStand'
  BY <1>1, <1>2, <1>4, <1>6, <1>7, Committed, CommitFrame
<1>9. Account!AuditExplainsRoles' /\ AuditTrue'
  BY <1>1, <1>2, <1>3, <1>4, <1>5, AuditGrows
<1>10. RootIsAdmin'
  BY <1>1, <1>2, <1>4, <1>6 DEF AccountInv, AccountTypes, RootIsAdmin
<1>11. FollowsCounted'
  <2> SUFFICES ASSUME NEW p \in Account!Pairs PROVE FollowBalance(p)'
    BY DEF FollowsCounted, Account!Pairs
  <2>1. FollowBalance(p)
    BY DEF AccountInv, FollowsCounted
  <2>2. PICK q2 : Becomes(q2, q, "done", "ok")
    BY DEF Becomes
  <2>3. asked' = [asked EXCEPT ![r] = q2]
    BY <2>2, Committed DEF AccountInv, AccountTypes, Becomes
  <2>4. q2.op = q.op
    BY <1>1, <2>2, AskedBy, AskMoved
  <2>5. Account!Undone(p)' = Account!Undone(p)
    BY <1>1, <2>3, <2>4, UndoneKept
  <2>6. QED
    BY <1>2, <2>1, <2>5 DEF FollowBalance
<1>12. QED
  BY <1>8, <1>9, <1>10, <1>11 DEF AccountInv
\* A commit that changes no row.
LEMMA CommitPlain ==
  ASSUME AccountInv, NEW r \in Visits, Account!Commit(r),
         \/ asked[r].op = "role" /\ asked[r].before = asked[r].next
         \/ asked[r].op = "declare" /\ root # Account!Nobody
  PROVE  AccountInv'
<1>1. asked[r].at = "commit" /\ asked[r].op \in {"role", "declare"}
  BY Committed
<1>2. /\ role' = role /\ audit' = audit /\ follows' = follows /\ announced' = announced
      /\ root' = IF asked[r].op = "declare" THEN asked[r].target ELSE root
  BY <1>1 DEF Account!Commit
<1>3. root' = root
  <2>1. asked[r].op = "declare" => root \in {Account!Nobody, asked[r].target}
    BY <1>1, AskedBy DEF Stands, DeclareStands
  <2>2. QED
    BY <1>2, <2>1
<1>4. UNCHANGED <<Account!tables, now>> /\ outages' \in 0 .. MaxOutages
  BY <1>2, <1>3, Committed DEF Account!tables, AccountInv, AccountTypes
<1>5. QED
  BY <1>1, <1>4, Committed, EndKeeps

LEMMA UndoneFinite ==
  ASSUME NEW p
  PROVE  IsFiniteSet(Account!Undone(p)) /\ Cardinality(Account!Undone(p)) \in Nat
<1>1. Account!Undone(p) \subseteq Visits
  BY DEF Account!Undone
<1>2. QED
  BY <1>1, AccountsAssumption, FS_Subset, FS_CardinalityType

LEMMA CommitFollow ==
  ASSUME AccountInv, NEW r \in Visits, Account!Commit(r),
         asked[r].op \in {"follow", "unfollow"}
  PROVE  AccountInv'
<1> DEFINE q == asked[r]
           p == <<asked[r].actor, asked[r].target>>
<1>1. /\ q.at = "commit" /\ q.ended = "no" /\ p \in Account!Pairs /\ exclusive[q.actor] = {r}
      /\ p[1] = q.actor /\ (q.op = "follow" => p \notin follows)
      /\ p[2] = q.target
  <2>1. /\ q.at = "commit" /\ q.actor \in People /\ q.target \in People
        /\ q.ended = "no" /\ q.actor # q.target
    BY Committed, AskedBy DEF WellAsked
  <2>2. p \in Account!Pairs /\ p[1] = q.actor /\ p[2] = q.target
    BY <2>1, RowsOf
  <2>3. exclusive[q.actor] = {r} /\ (q.op = "follow" => p \notin follows)
    BY <2>1, AskedBy DEF Stands, FollowStands, Locked
  <2>4. QED
    BY <2>1, <2>2, <2>3
<1>2. /\ role' = role /\ audit' = audit /\ root' = root
      /\ q.op = "follow" => /\ follows' = follows \cup {p}
                            /\ announced' = [announced EXCEPT ![p] = @ + 1]
      /\ q.op = "unfollow" => follows' = follows \ {p} /\ announced' = announced
  BY DEF Account!Commit
<1> HIDE DEF p
<1>3. /\ follows' \subseteq Account!Pairs /\ announced' \in [Account!Pairs -> Nat]
      /\ role' \in [People -> Roles] /\ root' \in People \cup {Account!Nobody}
      /\ audit' \in Seq(Entries)
      /\ \A x \in Account!Pairs : x \in follows' => x \in follows \/ exclusive[x[1]] = {r}
  <2>1. /\ follows \subseteq Account!Pairs /\ announced \in [Account!Pairs -> Nat]
        /\ role \in [People -> Roles] /\ root \in People \cup {Account!Nobody}
        /\ audit \in Seq(Entries)
    BY DEF AccountInv, AccountTypes
  <2>2. CASE q.op = "follow"
    <3>1. announced' \in [Account!Pairs -> Nat]
      BY <1>1, <1>2, <2>1, <2>2
    <3>2. QED
      BY <1>1, <1>2, <2>1, <2>2, <3>1
  <2>3. CASE q.op = "unfollow"
    BY <1>1, <1>2, <2>1, <2>3
  <2>4. QED
    BY <2>2, <2>3
<1>4. /\ AccountTypes' /\ LocksExclusive' /\ FindingsStand'
      /\ \A s \in Visits \ {r} : asked'[s] = asked[s]
      /\ asked'[r].ended = "ok" /\ asked'[r].op = q.op
      /\ asked'[r].actor = q.actor /\ asked'[r].target = q.target
  BY <1>1, <1>2, <1>3, Committed, CommitFrame
<1>5. AuditTrue' /\ RootIsAdmin' /\ Account!AuditExplainsRoles'
  BY <1>2, AuditUnchanged
<1>6. \A x \in Account!Pairs :
        Account!Undone(x)' = IF q.op = "unfollow" /\ x = p THEN Account!Undone(x) \cup {r}
                                                          ELSE Account!Undone(x)
  <2> SUFFICES ASSUME NEW x \in Account!Pairs
               PROVE  Account!Undone(x)' = IF q.op = "unfollow" /\ x = p
                                             THEN Account!Undone(x) \cup {r}
                                             ELSE Account!Undone(x)
    OBVIOUS
  <2>1. x = p <=> x[1] = q.actor /\ x[2] = q.target
    BY <1>1, RowsOf DEF p
  <2>2. r \in Account!Undone(x)' <=> q.op = "unfollow" /\ x = p
    BY <1>4, <2>1 DEF Account!Undone
  <2>3. r \notin Account!Undone(x)
    BY <1>1 DEF Account!Undone
  <2>4. \A s \in Visits \ {r} : s \in Account!Undone(x)' <=> s \in Account!Undone(x)
    BY <1>4 DEF Account!Undone
  <2>5. Account!Undone(x) \subseteq Visits /\ Account!Undone(x)' \subseteq Visits
    BY DEF Account!Undone
  <2>6. QED
    BY <2>2, <2>3, <2>4, <2>5
<1>7. FollowsCounted'
  <2> SUFFICES ASSUME NEW x \in Account!Pairs PROVE FollowBalance(x)'
    BY DEF FollowsCounted, Account!Pairs
  <2>1. FollowBalance(x) /\ announced[x] \in Nat
    BY DEF AccountInv, FollowsCounted, AccountTypes
  <2>2. IsFiniteSet(Account!Undone(x)) /\ Cardinality(Account!Undone(x)) \in Nat
    BY UndoneFinite
  <2>3. CASE x # p
    <3>1. announced'[x] = announced[x] /\ (x \in follows' <=> x \in follows)
      BY <1>1, <1>2, <2>3 DEF AccountInv, AccountTypes
    <3>2. Account!Undone(x)' = Account!Undone(x)
      BY <1>6, <2>3
    <3>3. QED
      BY <2>1, <3>1, <3>2 DEF FollowBalance
  <2>4. CASE x = p /\ q.op = "follow"
    <3>1. announced'[x] = announced[x] + 1 /\ x \in follows' /\ x \notin follows
      BY <1>1, <1>2, <2>4 DEF AccountInv, AccountTypes
    <3>2. Account!Undone(x)' = Account!Undone(x)
      BY <1>6, <2>4
    <3>3. QED
      BY <2>1, <2>2, <3>1, <3>2 DEF FollowBalance
  <2>5. CASE x = p /\ q.op = "unfollow"
    <3>1. announced'[x] = announced[x] /\ x \notin follows'
      BY <1>1, <1>2, <2>5
    <3>2. Account!Undone(x)' = Account!Undone(x) \cup {r}
      BY <1>6, <2>5
    <3>3. r \notin Account!Undone(x)
      BY <1>1 DEF Account!Undone
    <3>4. Cardinality(Account!Undone(x)') = Cardinality(Account!Undone(x)) + 1
      BY <2>2, <3>2, <3>3, FS_AddElement
    <3>5. QED
      BY <2>1, <2>2, <3>1, <3>4 DEF FollowBalance
  <2>6. QED
    BY <2>3, <2>4, <2>5
<1>8. QED
  BY <1>4, <1>5, <1>7 DEF AccountInv

LEMMA CommitKeeps ==
  ASSUME AccountInv, NEW r \in Visits, Account!Commit(r) PROVE AccountInv'
BY Committed, CommitRole, CommitPlain, CommitFollow

\* The clock and sessions.
LEMMA SessionsKeep ==
  ASSUME AccountInv,
         \/ Account!Tick
         \/ \E u \in People : Account!Login(u) \/ Account!Logout(u)
  PROVE  AccountInv'
<1>1. /\ UNCHANGED <<role, root, audit, follows, announced, asked, exclusive, shared, gap,
                     outages>>
      /\ now' \in 1 .. MaxClock
  <2>1. now \in 1 .. MaxClock
    BY DEF AccountInv, AccountTypes
  <2>2. CASE Account!Tick
    BY <2>1, <2>2, AccountsAssumption DEF Account!Tick, Account!tables, Account!locks
  <2>3. CASE \E u \in People : Account!Login(u) \/ Account!Logout(u)
    BY <2>1, <2>3 DEF Account!Login, Account!Logout, Account!tables, Account!locks
  <2>4. QED
    BY <2>2, <2>3
<1>2. AccountTypes' /\ LocksExclusive'
  BY <1>1 DEF AccountInv, AccountTypes, LocksExclusive
<1>3. FindingsStand'
  <2> SUFFICES ASSUME NEW s \in Visits PROVE Stands(s, asked[s])'
    BY DEF FindingsStand
  <2>1. Stands(s, asked[s])
    BY DEF AccountInv, FindingsStand
  <2>2. QED
    BY <1>1, <2>1 DEF Stands, RoleStands, DeclareStands, FollowStands, Locked
<1>4. AuditTrue' /\ RootIsAdmin' /\ Account!AuditExplainsRoles'
  BY <1>1, AuditUnchanged
<1>5. FollowsCounted'
  <2> SUFFICES ASSUME NEW x \in Account!Pairs PROVE FollowBalance(x)'
    BY DEF FollowsCounted, Account!Pairs
  <2>1. FollowBalance(x)
    BY DEF AccountInv, FollowsCounted
  <2>2. Account!Undone(x)' = Account!Undone(x)
    BY <1>1 DEF Account!Undone
  <2>3. QED
    BY <1>1, <2>1, <2>2 DEF FollowBalance
<1>6. QED
  BY <1>2, <1>3, <1>4, <1>5 DEF AccountInv

LEMMA RegisterKeeps ==
  ASSUME AccountInv, NEW u \in People, Account!Register(u) PROVE AccountInv'
<1>1. /\ role[u] = "none" /\ role' = [role EXCEPT ![u] = "user"]
      /\ UNCHANGED <<root, audit, follows, announced, now, asked, exclusive, shared, gap,
                     outages>>
  BY DEF Account!Register, Account!locks
<1>2. role' \in [People -> Roles] /\ role'[u] = "user"
      /\ \A v \in People \ {u} : role'[v] = role[v]
  BY <1>1 DEF AccountInv, AccountTypes, Roles
<1>3. AccountTypes' /\ LocksExclusive'
  BY <1>1, <1>2 DEF AccountInv, AccountTypes, LocksExclusive
<1>4. FindingsStand'
  <2> SUFFICES ASSUME NEW s \in Visits PROVE Stands(s, asked[s])'
    BY DEF FindingsStand
  <2>1. Stands(s, asked[s]) /\ WellAsked(asked[s])
    BY AskedBy
  <2>2. asked'[s] = asked[s] /\ (asked[s].op # "none" => asked[s].actor \in People
                                                       /\ asked[s].target \in People)
    BY <1>1, <2>1 DEF WellAsked, Steps, Asks
  <2>3. QED
    BY <1>1, <1>2, <2>1, <2>2 DEF Stands, RoleStands, DeclareStands, FollowStands, Locked
<1>5. AuditTrue
  BY DEF AccountInv
<1>6. AuditTrue'
  <2>1. \A i \in DOMAIN audit : audit[i].user \in People
    <3>1. \A i \in DOMAIN audit : audit[i] \in Entries
      BY DEF AccountInv, AccountTypes
    <3>2. QED
      BY <3>1 DEF Entries
  <2>2. QED
    BY <1>1, <1>2, <1>5, <2>1, AccountsAssumption DEF AuditTrue
<1>7. RootIsAdmin'
  BY <1>1, <1>2 DEF AccountInv, AccountTypes, RootIsAdmin
<1>8. \A v : Account!Initially(v)' = Account!Initially(v)
  BY <1>1 DEF Account!Initially, Account!FirstRole
<1>9. Account!After(Account!Initially(u), audit, Len(audit), u, "user")
  <2>1. u \notin Founders /\ \A i \in DOMAIN audit : audit[i].user # u
    BY <1>1, <1>5 DEF AuditTrue
  <2>2. Account!Initially(u) = "user"
    BY <2>1 DEF Account!Initially
  <2>3. Len(audit) \in Nat /\ DOMAIN audit = 1 .. Len(audit)
    BY DEF AccountInv, AccountTypes
  <2>4. 0 \in 0 .. Len(audit) /\ \A j \in 0 + 1 .. Len(audit) : audit[j].user # u
    BY <2>1, <2>3
  <2>5. QED
    BY <2>2, <2>4 DEF Account!After
<1>10. Account!AuditExplainsRoles
  BY DEF AccountInv
<1>11. \A v \in People : role'[v] # "none" =>
         Account!After(Account!Initially(v), audit, Len(audit), v, role'[v])
  BY <1>2, <1>9, <1>10 DEF Account!AuditExplainsRoles
<1>12. audit' = audit
  BY <1>1
<1>13. Account!AuditExplainsRoles'
  BY <1>8, <1>10, <1>11, <1>12 DEF Account!AuditExplainsRoles
<1>14. FollowsCounted'
  <2> SUFFICES ASSUME NEW x \in Account!Pairs PROVE FollowBalance(x)'
    BY DEF FollowsCounted, Account!Pairs
  <2>1. FollowBalance(x)
    BY DEF AccountInv, FollowsCounted
  <2>2. Account!Undone(x)' = Account!Undone(x)
    BY <1>1 DEF Account!Undone
  <2>3. QED
    BY <1>1, <2>1, <2>2 DEF FollowBalance
<1>15. QED
  BY <1>3, <1>4, <1>6, <1>7, <1>13, <1>14 DEF AccountInv
LEMMA AccountInit == Account!Init => AccountInv
<1> SUFFICES ASSUME Account!Init PROVE AccountInv
  OBVIOUS
<1>1. /\ role = [u \in People |-> IF u \in Founders THEN Account!FirstRole(root = Account!Nobody)
                                                     ELSE "none"]
      /\ root \in Founders \cup {Account!Nobody}
      /\ audit = <<>> /\ follows = {} /\ announced = [p \in Account!Pairs |-> 0]
      /\ now = 1 /\ outages = 0 /\ gap = {} /\ asked = [r \in Visits |-> Account!Idle]
      /\ exclusive = [w \in Account!Rows |-> {}] /\ shared = [w \in Account!Rows |-> {}]
  BY DEF Account!Init
<1>2. Account!Idle \in Asks /\ Account!Idle.at = "idle" /\ Account!Idle.op = "none"
      /\ Account!Idle.ended = "no"
  BY DEF Account!Idle, Account!Begun, Asks, Roles
<1>3. WellAsked(Account!Idle)
  BY <1>2 DEF WellAsked, Steps
<1>4. /\ Account!FirstRole(TRUE) = "user" /\ Account!FirstRole(FALSE) = "super_admin"
      /\ role \in [People -> Roles] /\ \A u \in Founders : role[u] # "none"
      /\ \A u \in People : role[u] # "none" =>
           u \in Founders /\ role[u] = Account!FirstRole(root = Account!Nobody)
  BY <1>1, AccountsAssumption DEF Account!FirstRole, Roles
<1>5. AccountTypes
  <2>1. audit \in Seq(Entries)
    BY <1>1
  <2>2. QED
    BY <1>1, <1>2, <1>3, <1>4, <2>1, AccountsAssumption DEF AccountTypes
<1>6. LocksExclusive
  BY <1>1, RowsOf DEF LocksExclusive
<1>7. FindingsStand
  BY <1>1, <1>2 DEF FindingsStand, Stands
<1>8. DOMAIN audit = {} /\ Len(audit) = 0
  BY <1>1
<1>9. AuditTrue
  BY <1>4, <1>8 DEF AuditTrue
<1>10. RootIsAdmin
  <2>1. root # Account!Nobody => root \in Founders /\ root \in People
    BY <1>1, AccountsAssumption
  <2>2. QED
    BY <1>4, <2>1 DEF RootIsAdmin, Account!FirstRole
<1>11. Account!AuditExplainsRoles
  <2>1. \A u \in People : role[u] # "none" => role[u] = Account!Initially(u)
    BY <1>4, <1>8 DEF Account!Initially, Account!FirstRole
  <2>2. \A u, x : x = Account!Initially(u) => Account!After(Account!Initially(u), audit, 0, u, x)
    BY DEF Account!After
  <2>3. QED
    BY <1>8, <2>1, <2>2 DEF Account!AuditExplainsRoles
<1>12. FollowsCounted
  <2> SUFFICES ASSUME NEW p \in Account!Pairs PROVE FollowBalance(p)
    BY DEF FollowsCounted
  <2>1. Account!Undone(p) = {}
    BY <1>1, <1>2 DEF Account!Undone
  <2>2. QED
    BY <1>1, <2>1, FS_EmptySet DEF FollowBalance
<1>13. QED
  BY <1>5, <1>6, <1>7, <1>9, <1>10, <1>11, <1>12 DEF AccountInv

\* Other components, and steps of none, leave the variables of Accounts alone.
LEMMA AccountsRest == AccountInv /\ UNCHANGED accountVars => AccountInv'
<1> SUFFICES ASSUME AccountInv, UNCHANGED accountVars PROVE AccountInv'
  OBVIOUS
<1>1. UNCHANGED <<role, root, audit, follows, announced, now, asked, exclusive, shared, gap,
                  outages>>
  BY DEF accountVars
<1>2. AccountTypes' /\ LocksExclusive'
  BY <1>1 DEF AccountInv, AccountTypes, LocksExclusive
<1>3. FindingsStand'
  <2> SUFFICES ASSUME NEW s \in Visits PROVE Stands(s, asked[s])'
    BY DEF FindingsStand
  <2>1. Stands(s, asked[s])
    BY DEF AccountInv, FindingsStand
  <2>2. QED
    BY <1>1, <2>1 DEF Stands, RoleStands, DeclareStands, FollowStands, Locked
<1>4. AuditTrue' /\ RootIsAdmin' /\ Account!AuditExplainsRoles'
  BY <1>1, AuditUnchanged
<1>5. FollowsCounted'
  <2> SUFFICES ASSUME NEW x \in Account!Pairs PROVE FollowBalance(x)'
    BY DEF FollowsCounted, Account!Pairs
  <2>1. FollowBalance(x)
    BY DEF AccountInv, FollowsCounted
  <2>2. Account!Undone(x)' = Account!Undone(x)
    BY <1>1 DEF Account!Undone
  <2>3. QED
    BY <1>1, <2>1, <2>2 DEF FollowBalance
<1>6. QED
  BY <1>2, <1>3, <1>4, <1>5 DEF AccountInv

LEMMA AccountNext == AccountInv /\ Account!Next => AccountInv'
<1> SUFFICES ASSUME AccountInv, Account!Next PROVE AccountInv'
  OBVIOUS
<1>1. CASE Account!Tick \/ \E u \in People : Account!Login(u) \/ Account!Logout(u)
  BY <1>1, SessionsKeep
<1>2. CASE \E u \in People : Account!Register(u)
  BY <1>2, RegisterKeeps
<1>3. CASE \E r \in Visits : Account!Advance(r) \/ Account!Disconnect(r)
  BY <1>3, AuthorizeKeeps, LockActorKeeps, LockTargetKeeps, LockRootKeeps, InsertRootKeeps,
     WriteFollowKeeps, CommitKeeps, GivenUpKeeps DEF Account!Advance
<1>4. ASSUME NEW r \in Visits, NEW u \in People, NEW v \in People,
             \/ Account!AskFollow(r, u, v, "follow") \/ Account!AskFollow(r, u, v, "unfollow")
             \/ Account!AskRole(r, u, v, "user") \/ Account!AskRole(r, u, v, "super_admin")
             \/ Account!AskDeclare(r, u)
      PROVE  AccountInv'
  BY <1>4, AskKeeps
<1>5. QED
  BY <1>1, <1>2, <1>3, <1>4 DEF Account!Next

LEMMA AccountStep == AccountInv /\ [AllNext]_allVars => AccountInv'
<1> SUFFICES ASSUME AccountInv, [AllNext]_allVars PROVE AccountInv'
  OBVIOUS
<1>1. Account!Next \/ UNCHANGED accountVars
  BY DEF AllNext, allVars
<1>2. QED
  BY <1>1, AccountNext, AccountsRest

\* The inductive invariant of Accounts holds in every behaviour.
THEOREM AccountsInvariant == AllSpec => []AccountInv
<1>1. AllInit => AccountInv
  BY AccountInit DEF AllInit
<1>2. QED
  BY <1>1, AccountStep, PTL DEF AllSpec

\* Whatever administrators do to each other at the same time, whoever was lost or rolled
\* back on the way: the audit trail leads to the roles in force, each change was made by
\* an administrator of that moment, at most one root is declared and it stays one, and a
\* follow is announced once for each time it begins (management.go, follow.go).
THEOREM AccountsStaySafe == AllSpec => []AccountsSafe
<1>1. AccountInv => AccountsSafe
  <2> SUFFICES ASSUME AccountInv PROVE AccountsSafe
    OBVIOUS
  <2>1. \A S : Account!Cardinality(S) = Cardinality(S)
    BY DEF Account!Cardinality, Cardinality
  <2>2. Account!TypeOK
    <3>1. \A w \in Account!Rows : Account!Cardinality(exclusive[w]) <= 1
      <4> SUFFICES ASSUME NEW w \in Account!Rows PROVE Cardinality(exclusive[w]) <= 1
        BY <2>1
      <4>1. CASE exclusive[w] = {}
        BY <4>1, FS_EmptySet
      <4>2. CASE exclusive[w] # {}
        <5>1. PICK r \in Visits : exclusive[w] = {r}
          BY <4>2 DEF AccountInv, LocksExclusive
        <5>2. Cardinality({r}) = 1
          BY FS_Singleton
        <5>3. QED
          BY <5>1, <5>2
      <4>3. QED
        BY <4>1, <4>2
    <3>2. QED
      BY <3>1 DEF AccountInv, AccountTypes, LocksExclusive, Account!TypeOK, Roles
  <2>3. Account!RootStands
    <3> DEFINE D == {i \in DOMAIN audit : audit[i].by = Account!Nobody}
    <3>1. \A i, j \in D : i = j
      BY DEF AccountInv, AuditTrue
    <3>2. Cardinality(D) <= 1
      <4>1. CASE D = {}
        BY <4>1, FS_EmptySet
      <4>2. CASE D # {}
        <5>1. PICK i \in D : D = {i}
          BY <3>1, <4>2
        <5>2. Cardinality({i}) = 1
          BY FS_Singleton
        <5>3. QED
          BY <5>1, <5>2
      <4>3. QED
        BY <4>1, <4>2
    <3>3. QED
      BY <2>1, <3>2 DEF Account!RootStands, AccountInv, RootIsAdmin
  <2>4. Account!AnnouncedOnce
    <3> SUFFICES ASSUME NEW p \in Account!Pairs
                 PROVE  /\ p \in follows => announced[p] > 0
                        /\ announced[p] <= 1 + Cardinality(Account!Undone(p))
      BY <2>1 DEF Account!AnnouncedOnce
    <3>1. FollowBalance(p) /\ announced[p] \in Nat
      BY DEF AccountInv, FollowsCounted, AccountTypes
    <3>2. Cardinality(Account!Undone(p)) \in Nat
      BY UndoneFinite
    <3>3. QED
      BY <3>1, <3>2 DEF FollowBalance
  <2>5. QED
    BY <2>2, <2>3, <2>4 DEF AccountInv, AccountsSafe
<1>2. QED
  BY <1>1, AccountsInvariant, PTL
-----------------------------------------------------------------------------
(* Stage queries.                                                           *)

Durables == [legacy : BOOLEAN, command : {"none", "committed", "expired", "gone"},
             outbox : {"none", "pending", "published", "gone"},
             need : {"none", "open", "closed", "gone"}, failed : BOOLEAN, result : BOOLEAN]
Consumers == [quality : {"known", "stale_epoch"}, status : {"completed", "none", "pending"},
              failed : BOOLEAN]
Replies == [current : 0 .. MaxEpoch, command : Stages!Qualities, broker : Stages!Qualities,
            row : {"none", "pending", "published"}, event : BOOLEAN, post : BOOLEAN,
            bound : BOOLEAN, consumers : SUBSET Consumers, visibility : Stages!Qualities,
            fact : 0 .. MaxRevision, generation : 0 .. MaxEpoch, matched : BOOLEAN,
            logs : Stages!Qualities]
Stations == {"asked", "environment", "command", "broker", "consumers", "choose", "fact",
             "alias", "index", "logs", "done"}
Asking == [at : Stations, waits : BOOLEAN, outcome : {"none", "ok", "busy", "unavailable"},
           ask : Stages!Queries, ans : Replies]
Resting == {Stages!Idle, [Stages!Idle EXCEPT !.at = "done", !.outcome = "busy"]}
Memories == [env : 0 .. MaxEpoch, rev : 0 .. MaxRevision,
             rows : SUBSET {"command", "outbox", "need", "result"}]

StagesTypes ==
  /\ epoch \in 1 .. MaxEpoch /\ alias \in 1 .. MaxEpoch /\ revision \in 0 .. MaxRevision
  /\ durable \in Durables
  /\ applied \in [1 .. MaxEpoch -> 0 .. MaxRevision]
  /\ searchable \in [1 .. MaxEpoch -> 0 .. MaxRevision]
  /\ query \in [Callers -> Resting \cup Asking]
  /\ seen \in [Callers -> Memories]
  /\ failures \in 0 .. MaxFailures

\* A search finds what was written, of what MySQL holds, a result is recorded as long as
\* its requirement is closed, and before its creation a post has no rows.
WorldAgrees ==
  /\ \A e \in 1 .. MaxEpoch : searchable[e] <= applied[e] /\ applied[e] <= revision
  /\ durable.result <=> durable.need = "closed"
  /\ revision = 0 => durable.command = "none" /\ durable.outbox = "none" /\ durable.need = "none"

\* What a query has seen has not been undone but by the cleanup.
MemoryTrue(s) ==
  /\ s.env <= epoch /\ s.rev <= revision
  /\ "command" \in s.rows => durable.command \in {"committed", "expired", "gone"}
  /\ "outbox" \in s.rows => durable.outbox \in {"pending", "published", "gone"}
  /\ "need" \in s.rows => durable.need \in {"open", "closed", "gone"}
  /\ "result" \in s.rows => durable.need \in {"closed", "gone"}

\* The stations behind a query, and those that an answer has behind it.
Past(x, stations) == x.at \in stations \/ (x.at = "done" /\ x.outcome = "ok")
Chosen == {"choose", "fact", "alias", "index", "logs"}

\* The epoch was read after the query began, and what is known is of that epoch.
EpochTrue(x, s) ==
  LET a == x.ans  wanted == x.ask.epoch IN
  /\ x.at \in {"asked", "environment"} => a = Stages!Blank
  /\ a.current # 0 => s.env <= a.current
  /\ a.command = "known" => wanted = 1 /\ a.current = wanted
  /\ a.broker = "known" => ~durable.legacy /\ wanted = 1 /\ a.current = wanted
  /\ \A k \in a.consumers : k.quality = "known" => a.current = wanted

\* On the way to a match: the epoch asked for, the revision of MySQL, the index of the
\* epoch, and what it was found to hold.
MatchTrue(x, s) ==
  LET a == x.ans  wanted == x.ask.epoch IN
  /\ x.at \in {"fact", "alias", "index"} => a.current = wanted
  /\ x.at \in {"alias", "index"} => s.rev <= a.fact
  /\ x.at = "index" => a.generation = wanted
  /\ a.matched => /\ x.at \in {"logs", "done"} /\ a.visibility = "known" /\ a.current = wanted
                  /\ a.generation = wanted /\ s.rev <= a.fact /\ a.fact <= applied[wanted]

\* What was there at the beginning and was not found has been cleaned up meanwhile.
NothingMissed(x, s) ==
  LET a == x.ans IN
  x.ask.epoch = 1 =>
    /\ Past(x, {"broker", "consumers"} \cup Chosen) /\ "command" \in s.rows =>
         a.command \in {"known", "stale_epoch", "expired"} \/ durable.command = "gone"
    /\ Past(x, {"consumers"} \cup Chosen) /\ a.event /\ "outbox" \in s.rows =>
         a.row # "none" \/ durable.outbox = "gone"
    /\ Past(x, Chosen) /\ a.event /\ "need" \in s.rows =>
         a.consumers # {} \/ durable.need = "gone"

ConsumersTrue(x, s) ==
  \A k \in x.ans.consumers : /\ k.status = "pending" => "result" \notin s.rows
                             /\ k.status = "completed" => durable.need \in {"closed", "gone"}

QueryTrue(x, s) ==
  EpochTrue(x, s) /\ MatchTrue(x, s) /\ NothingMissed(x, s) /\ ConsumersTrue(x, s)

\* Who waits is under way, and nobody has an answer before the end.
Placed(x) == (x.waits => x.at # "done") /\ (x.outcome = "ok" => x.at = "done")

QueriesTrue ==
  \A c \in Callers : /\ MemoryTrue(seen[c])
                     /\ query[c] \in Asking => QueryTrue(query[c], seen[c]) /\ Placed(query[c])

StagesInv == StagesTypes /\ WorldAgrees /\ QueriesTrue /\ Stages!SlotsExact

USE StagesAssumption

LEMMA QualityKinds ==
  Stages!Qualities = {"none", "known", "no_evidence", "legacy_unknown", "stale_epoch",
                      "expired", "not_requested", "backend_error"}
BY DEF Stages!Qualities

LEMMA BlankReply == Stages!Blank \in Replies
BY QualityKinds DEF Stages!Blank, Replies

LEMMA RestingCallers ==
  \A x \in Resting : /\ x.at \in {"idle", "done"} /\ x.waits = FALSE
                     /\ x.outcome \in {"none", "busy"}
<1>1. PICK x, y : x = Stages!Idle /\ y = [Stages!Idle EXCEPT !.at = "done", !.outcome = "busy"]
  OBVIOUS
<1>2. x.at = "idle" /\ x.waits = FALSE /\ x.outcome = "none"
  BY <1>1 DEF Stages!Idle
<1>3. y.at = "done" /\ y.waits = FALSE /\ y.outcome = "busy"
  BY <1>1 DEF Stages!Idle
<1>4. Resting = {x, y}
  BY <1>1 DEF Resting
<1>5. QED
  BY <1>2, <1>3, <1>4

\* A caller whose query is not at an end has asked.
LEMMA UnderWay ==
  ASSUME StagesInv, NEW c \in Callers, query[c].at \notin {"idle", "done"}
  PROVE  /\ query[c] \in Asking /\ QueryTrue(query[c], seen[c]) /\ Placed(query[c])
         /\ MemoryTrue(seen[c]) /\ seen[c] \in Memories
<1>1. query[c] \in Resting \cup Asking /\ seen[c] \in Memories
  BY DEF StagesInv, StagesTypes
<1>2. query[c] \in Asking
  BY <1>1, RestingCallers
<1>3. QED
  BY <1>1, <1>2 DEF StagesInv, QueriesTrue

LEMMA StagesTypeCorrect == StagesInv => Stages!TypeOK
<1> SUFFICES ASSUME StagesInv PROVE Stages!TypeOK
  OBVIOUS
<1>1. \A c \in Callers : query[c].outcome \in {"none", "ok", "busy", "unavailable"}
  <2> SUFFICES ASSUME NEW c \in Callers
               PROVE  query[c].outcome \in {"none", "ok", "busy", "unavailable"}
    OBVIOUS
  <2>1. query[c] \in Resting \cup Asking
    BY DEF StagesInv, StagesTypes
  <2>2. QED
    BY <2>1, RestingCallers DEF Asking
<1>2. /\ durable.outbox \in {"none", "pending", "published", "gone"}
      /\ durable.need \in {"none", "open", "closed", "gone"}
      /\ durable.command \in {"none", "committed", "expired", "gone"}
  BY DEF StagesInv, StagesTypes, Durables
<1>3. QED
  BY <1>1, <1>2 DEF StagesInv, StagesTypes, Stages!TypeOK, Stages!Epochs

Runs(x) == x.at \notin {"idle", "asked", "done"}
Runners == {c \in Callers : Runs(query[c])}
Waiters == {c \in Callers : query[c].waits}

LEMMA SlotsAre ==
  Stages!SlotsExact <=> /\ servers = Cardinality(Runners) /\ servers <= ServerSlots
                        /\ clients = Cardinality(Waiters) /\ clients <= ClientSlots
<1>1. \A S : Stages!Cardinality(S) = Cardinality(S)
  BY DEF Stages!Cardinality, Cardinality
<1>2. Runners = {c \in Callers : Stages!Running(c)}
  BY DEF Runners, Runs, Stages!Running
<1>3. QED
  BY <1>1, <1>2, Zenon DEF Stages!SlotsExact, Waiters

LEMMA StagesStart == Stages!Init => StagesInv
<1> SUFFICES ASSUME Stages!Init PROVE StagesInv
  OBVIOUS
<1>1. /\ epoch = 1 /\ revision = 0 /\ alias = 1 /\ clients = 0 /\ servers = 0 /\ failures = 0
      /\ applied = [e \in 1 .. MaxEpoch |-> 0] /\ searchable = [e \in 1 .. MaxEpoch |-> 0]
      /\ query = [c \in Callers |-> Stages!Idle]
      /\ seen = [c \in Callers |-> [env |-> 0, rev |-> 0, rows |-> {}]]
      /\ \E legacy \in BOOLEAN : durable = Stages!NewRow(legacy)
  BY DEF Stages!Init, Stages!Epochs
<1>2. /\ durable \in Durables /\ durable.result = FALSE /\ durable.need = "none"
      /\ durable.command = "none" /\ durable.outbox = "none"
  BY <1>1 DEF Stages!NewRow, Durables
<1>3. Stages!Idle \in Resting
  BY DEF Resting
<1>4. [env |-> 0, rev |-> 0, rows |-> {}] \in Memories
  BY DEF Memories
<1>5. StagesTypes
  BY <1>1, <1>2, <1>3, <1>4 DEF StagesTypes
<1>6. WorldAgrees
  BY <1>1, <1>2 DEF WorldAgrees
<1>7. \A c \in Callers : /\ seen[c].env = 0 /\ seen[c].rev = 0 /\ seen[c].rows = {}
                         /\ query[c].at = "idle" /\ query[c].waits = FALSE
  BY <1>1 DEF Stages!Idle
<1>8. QueriesTrue
  <2>1. \A c \in Callers : MemoryTrue(seen[c])
    BY <1>1, <1>7 DEF MemoryTrue
  <2>2. \A c \in Callers : query[c] \notin Asking
    BY <1>7 DEF Asking, Stations
  <2>3. QED
    BY <2>1, <2>2 DEF QueriesTrue
<1>9. Stages!SlotsExact
  <2>1. Runners = {} /\ Waiters = {}
    BY <1>7 DEF Runners, Runs, Waiters
  <2>2. Cardinality({}) = 0
    BY FS_EmptySet
  <2>3. QED
    BY <1>1, <2>1, <2>2, SlotsAre
<1>10. QED
  BY <1>5, <1>6, <1>8, <1>9 DEF StagesInv

-----------------------------------------------------------------------------
(* The world moves on: nothing that queries have seen comes back as absent. *)

Onward ==
  /\ epoch' \in 1 .. MaxEpoch /\ alias' \in 1 .. MaxEpoch /\ revision' \in 0 .. MaxRevision
  /\ durable' \in Durables /\ failures' \in 0 .. MaxFailures
  /\ applied' \in [1 .. MaxEpoch -> 0 .. MaxRevision]
  /\ searchable' \in [1 .. MaxEpoch -> 0 .. MaxRevision]
  /\ WorldAgrees'
  /\ epoch <= epoch' /\ revision <= revision' /\ durable'.legacy = durable.legacy
  /\ \A e \in 1 .. MaxEpoch : applied[e] <= applied'[e]
  /\ durable.command \in {"committed", "expired", "gone"} =>
       durable'.command \in {"committed", "expired", "gone"}
  /\ durable.command = "gone" => durable'.command = "gone"
  /\ durable.outbox \in {"pending", "published", "gone"} =>
       durable'.outbox \in {"pending", "published", "gone"}
  /\ durable.outbox = "gone" => durable'.outbox = "gone"
  /\ durable.need \in {"open", "closed", "gone"} => durable'.need \in {"open", "closed", "gone"}
  /\ durable.need \in {"closed", "gone"} => durable'.need \in {"closed", "gone"}
  /\ durable.need = "gone" => durable'.need = "gone"

QueriesStay == UNCHANGED <<clients, servers, query, seen>>

LEMMA OnwardKeeps ==
  ASSUME StagesInv, Onward, QueriesStay
  PROVE  StagesInv'
<1>1. UNCHANGED clients /\ UNCHANGED servers /\ UNCHANGED query /\ UNCHANGED seen
  BY DEF QueriesStay
<1>2. StagesTypes'
  BY <1>1 DEF Onward, StagesInv, StagesTypes
<1>3. Stages!SlotsExact'
  BY <1>1 DEF StagesInv, Stages!SlotsExact, Stages!Running
<1>4. \A s \in Memories : MemoryTrue(s) => MemoryTrue(s)'
  <2> SUFFICES ASSUME NEW s \in Memories, MemoryTrue(s) PROVE MemoryTrue(s)'
    OBVIOUS
  <2>1. s.env \in Int /\ s.rev \in Int
    BY DEF Memories
  <2>2. /\ epoch \in Int /\ epoch' \in Int /\ epoch <= epoch'
        /\ revision \in Int /\ revision' \in Int /\ revision <= revision'
    BY DEF Onward, StagesInv, StagesTypes
  <2>3. s.env <= epoch' /\ s.rev <= revision'
    BY <2>1, <2>2 DEF MemoryTrue
  <2>4. QED
    BY <2>3 DEF MemoryTrue, Onward
<1>5. ASSUME NEW x \in Asking, NEW s \in Memories, QueryTrue(x, s)
      PROVE  QueryTrue(x, s)'
  <2>1. EpochTrue(x, s)'
    BY <1>5 DEF Onward, QueryTrue, EpochTrue
  <2>2. MatchTrue(x, s)'
    <3>1. x.ans.fact \in Int /\ x.ask.epoch \in 1 .. MaxEpoch
      BY DEF Asking, Replies, Stages!Queries, Stages!Epochs
    <3>2. applied[x.ask.epoch] \in Int /\ applied'[x.ask.epoch] \in Int
          /\ applied[x.ask.epoch] <= applied'[x.ask.epoch]
      <4>1. PICK e : e = x.ask.epoch
        OBVIOUS
      <4>2. e \in 1 .. MaxEpoch /\ 0 .. MaxRevision \subseteq Int
        BY <3>1, <4>1
      <4>3. applied[e] \in 0 .. MaxRevision /\ applied'[e] \in 0 .. MaxRevision
        BY <4>2 DEF Onward, StagesInv, StagesTypes
      <4>4. applied[e] <= applied'[e]
        BY <4>2 DEF Onward
      <4>5. QED
        BY <4>1, <4>2, <4>3, <4>4
    <3>3. x.ans.fact <= applied[x.ask.epoch] => x.ans.fact <= applied'[x.ask.epoch]
      BY <3>1, <3>2
    <3>4. QED
      BY <1>5, <3>3 DEF QueryTrue, MatchTrue
  <2>3. NothingMissed(x, s)'
    BY <1>5 DEF Onward, QueryTrue, NothingMissed, Past
  <2>4. ConsumersTrue(x, s)'
    BY <1>5 DEF Onward, QueryTrue, ConsumersTrue
  <2>5. QED
    BY <2>1, <2>2, <2>3, <2>4 DEF QueryTrue
<1>6. QueriesTrue'
  <2> SUFFICES ASSUME NEW c \in Callers
               PROVE  /\ MemoryTrue(seen[c])'
                      /\ query'[c] \in Asking => QueryTrue(query[c], seen[c])' /\ Placed(query'[c])
    BY DEF QueriesTrue, Placed
  <2>1. PICK x, s : x = query[c] /\ x = query'[c] /\ s = seen[c] /\ s = seen'[c]
    BY <1>1
  <2>2. s \in Memories
    BY <2>1 DEF StagesInv, StagesTypes
  <2>3. MemoryTrue(s) /\ (x \in Asking => QueryTrue(x, s) /\ Placed(x))
    BY <2>1 DEF StagesInv, QueriesTrue
  <2>4. MemoryTrue(s)' /\ (x \in Asking => QueryTrue(x, s)' /\ Placed(x))
    BY <1>4, <1>5, <2>2, <2>3
  <2>5. QED
    BY <2>1, <2>4
<1>7. QED
  BY <1>2, <1>3, <1>6 DEF Onward, StagesInv

\* A step of the world leaves the queries alone.
LEMMA WorldAlone == Stages!World => QueriesStay
BY DEF Stages!World, Stages!Commit, Stages!Edit, Stages!Publish, Stages!Apply,
   Stages!RecordResult, Stages!RecordFailure, Stages!Clean, Stages!Restore,
   Stages!SwitchAlias, Stages!LogArrives, Stages!Refresh, Stages!Quiet, Stages!pools,
   QueriesStay

\* A step of one durable row, nothing else but the failures changing, and at the
\* creation the revision.
LEMMA RowsMove ==
  ASSUME StagesInv, NEW d \in Durables, durable' = d, d.legacy = durable.legacy,
         d.result <=> d.need = "closed",
         revision' = 0 => d.command = "none" /\ d.outbox = "none" /\ d.need = "none",
         \/ d.command = durable.command
         \/ durable.command = "none" /\ d.command = "committed"
         \/ durable.command \in {"committed", "expired"} /\ d.command \in {"expired", "gone"},
         \/ d.outbox = durable.outbox
         \/ durable.outbox = "none" /\ d.outbox = "pending"
         \/ durable.outbox \in {"pending", "published"} /\ d.outbox \in {"published", "gone"},
         \/ d.need = durable.need
         \/ durable.need = "none" /\ d.need = "open"
         \/ durable.need = "open" /\ d.need = "closed"
         \/ durable.need = "closed" /\ d.need = "gone",
         UNCHANGED <<epoch, alias, applied, searchable>>, failures' \in 0 .. MaxFailures,
         revision' \in 0 .. MaxRevision, revision <= revision'
  PROVE  Onward
<1>1. /\ UNCHANGED epoch /\ UNCHANGED alias /\ UNCHANGED applied /\ UNCHANGED searchable
  OBVIOUS
<1>2. WorldAgrees'
  <2>1. \A e \in 1 .. MaxEpoch : searchable[e] <= applied[e] /\ applied[e] <= revision'
    <3>1. SUFFICES ASSUME NEW e \in 1 .. MaxEpoch
                   PROVE  searchable[e] <= applied[e] /\ applied[e] <= revision'
      OBVIOUS
    <3>2. applied[e] \in 0 .. MaxRevision /\ revision \in 0 .. MaxRevision
      BY DEF StagesInv, StagesTypes
    <3>3. searchable[e] <= applied[e] /\ applied[e] <= revision
      BY DEF StagesInv, WorldAgrees
    <3>4. QED
      BY <3>2, <3>3
  <2>2. QED
    BY <1>1, <2>1 DEF WorldAgrees
<1>3. epoch \in 1 .. MaxEpoch /\ \A e \in 1 .. MaxEpoch : applied[e] \in 0 .. MaxRevision
  BY DEF StagesInv, StagesTypes
<1>4. epoch <= epoch /\ \A e \in 1 .. MaxEpoch : applied[e] <= applied[e]
  BY <1>3
<1>5. QED
  BY <1>1, <1>2, <1>4 DEF Onward, StagesInv, StagesTypes

LEMMA DurableOf ==
  ASSUME StagesInv
  PROVE  /\ durable \in Durables /\ (durable.result <=> durable.need = "closed")
         /\ durable.outbox = "none" \/ revision > 0
         /\ durable.need = "none" \/ revision > 0
         /\ durable.command = "none" \/ revision > 0
         /\ revision = 0 => durable.command = "none" /\ durable.outbox = "none" /\ durable.need = "none"
         /\ durable.result \in BOOLEAN /\ durable.legacy \in BOOLEAN /\ durable.failed \in BOOLEAN
         /\ failures \in 0 .. MaxFailures /\ revision \in 0 .. MaxRevision /\ revision <= revision
         /\ epoch \in 1 .. MaxEpoch /\ alias \in 1 .. MaxEpoch
         /\ applied \in [1 .. MaxEpoch -> 0 .. MaxRevision]
         /\ searchable \in [1 .. MaxEpoch -> 0 .. MaxRevision]
         /\ \A e \in 1 .. MaxEpoch : searchable[e] <= applied[e] /\ applied[e] <= revision
BY DEF StagesInv, StagesTypes, WorldAgrees, Durables

LEMMA RowStepsOnward ==
  ASSUME StagesInv,
         \/ Stages!Commit \/ Stages!Publish \/ Stages!RecordResult \/ Stages!RecordFailure
         \/ Stages!Clean
  PROVE  Onward
<1> USE DurableOf
<1>1. UNCHANGED <<epoch, alias, applied, searchable>>
  BY DEF Stages!Commit, Stages!Publish, Stages!RecordResult, Stages!RecordFailure, Stages!Clean
<1>2. CASE Stages!Commit
  <2>1. PICK d : d = [durable EXCEPT !.outbox = "pending",
                        !.command = IF durable.legacy THEN "none" ELSE "committed",
                        !.need = IF durable.legacy THEN "none" ELSE "open"]
    OBVIOUS
  <2>2. d \in Durables /\ d.legacy = durable.legacy /\ d.result = durable.result
        /\ d.need \in {"none", "open"} /\ d.command \in {"none", "committed"}
        /\ d.outbox = "pending"
    BY <2>1 DEF Durables
  <2>3. /\ durable' = d /\ revision = 0 /\ revision' = 1 /\ failures' = failures
    BY <1>2, <2>1 DEF Stages!Commit, Stages!Quiet
  <2>4. /\ durable.command = "none" /\ durable.outbox = "none" /\ durable.need = "none"
        /\ durable.result = FALSE
    BY <2>3
  <2>5. revision' \in 0 .. MaxRevision /\ revision <= revision'
    BY <2>3, StagesAssumption
  <2>6. QED
    BY <1>1, <2>2, <2>3, <2>4, <2>5, RowsMove
<1>3. CASE Stages!Publish
  <2>1. PICK d : d = [durable EXCEPT !.outbox = "published"]
    OBVIOUS
  <2>2. d \in Durables /\ d.legacy = durable.legacy /\ d.result = durable.result
        /\ d.need = durable.need /\ d.command = durable.command /\ d.outbox = "published"
    BY <2>1 DEF Durables
  <2>3. durable' = d /\ durable.outbox = "pending" /\ revision' = revision /\ failures' = failures
    BY <1>3, <2>1 DEF Stages!Publish, Stages!Quiet
  <2>4. QED
    BY <1>1, <2>2, <2>3, RowsMove
<1>4. CASE Stages!RecordResult
  <2>1. PICK d : d = [durable EXCEPT !.need = "closed", !.result = TRUE]
    OBVIOUS
  <2>2. d \in Durables /\ d.legacy = durable.legacy /\ d.result = TRUE
        /\ d.need = "closed" /\ d.command = durable.command /\ d.outbox = durable.outbox
    BY <2>1 DEF Durables
  <2>3. durable' = d /\ durable.need = "open" /\ revision' = revision /\ failures' = failures
    BY <1>4, <2>1 DEF Stages!RecordResult, Stages!Quiet
  <2>4. QED
    BY <1>1, <2>2, <2>3, RowsMove
<1>5. CASE Stages!RecordFailure
  <2>1. PICK d : d = [durable EXCEPT !.failed = TRUE]
    OBVIOUS
  <2>2. d \in Durables /\ d.legacy = durable.legacy /\ d.result = durable.result
        /\ d.need = durable.need /\ d.command = durable.command /\ d.outbox = durable.outbox
    BY <2>1 DEF Durables
  <2>3. durable' = d /\ revision' = revision /\ failures < MaxFailures /\ failures' = failures + 1
    BY <1>5, <2>1 DEF Stages!RecordFailure
  <2>4. failures' \in 0 .. MaxFailures
    BY <2>3
  <2>5. QED
    BY <1>1, <2>2, <2>3, <2>4, RowsMove
<1>6. CASE Stages!Clean
  <2>1. revision' = revision /\ failures' = failures
    BY <1>6 DEF Stages!Clean, Stages!Quiet
  <2>2. CASE durable.outbox = "published" /\ durable' = [durable EXCEPT !.outbox = "gone"]
    <3>1. PICK d : d = [durable EXCEPT !.outbox = "gone"]
      OBVIOUS
    <3>2. d \in Durables /\ d.legacy = durable.legacy /\ d.result = durable.result
          /\ d.need = durable.need /\ d.command = durable.command /\ d.outbox = "gone"
      BY <3>1 DEF Durables
    <3>3. QED
      BY <1>1, <2>1, <2>2, <3>1, <3>2, RowsMove
  <2>3. CASE durable.need = "closed"
             /\ durable' = [durable EXCEPT !.need = "gone", !.result = FALSE, !.failed = FALSE]
    <3>1. PICK d : d = [durable EXCEPT !.need = "gone", !.result = FALSE, !.failed = FALSE]
      OBVIOUS
    <3>2. d \in Durables /\ d.legacy = durable.legacy /\ d.result = FALSE
          /\ d.need = "gone" /\ d.command = durable.command /\ d.outbox = durable.outbox
      BY <3>1 DEF Durables
    <3>3. QED
      BY <1>1, <2>1, <2>3, <3>1, <3>2, RowsMove
  <2>4. CASE durable.command = "committed" /\ durable' = [durable EXCEPT !.command = "expired"]
    <3>1. PICK d : d = [durable EXCEPT !.command = "expired"]
      OBVIOUS
    <3>2. d \in Durables /\ d.legacy = durable.legacy /\ d.result = durable.result
          /\ d.need = durable.need /\ d.command = "expired" /\ d.outbox = durable.outbox
      BY <3>1 DEF Durables
    <3>3. QED
      BY <1>1, <2>1, <2>4, <3>1, <3>2, RowsMove
  <2>5. CASE durable.command = "expired" /\ durable' = [durable EXCEPT !.command = "gone"]
    <3>1. PICK d : d = [durable EXCEPT !.command = "gone"]
      OBVIOUS
    <3>2. d \in Durables /\ d.legacy = durable.legacy /\ d.result = durable.result
          /\ d.need = durable.need /\ d.command = "gone" /\ d.outbox = durable.outbox
      BY <3>1 DEF Durables
    <3>3. QED
      BY <1>1, <2>1, <2>5, <3>1, <3>2, RowsMove
  <2>6. QED
    BY <1>6, <2>2, <2>3, <2>4, <2>5 DEF Stages!Clean
<1>7. QED
  BY <1>2, <1>3, <1>4, <1>5, <1>6

LEMMA SearchStepsOnward ==
  ASSUME StagesInv, NEW f \in [1 .. MaxEpoch -> 0 .. MaxRevision],
         NEW g \in [1 .. MaxEpoch -> 0 .. MaxRevision], NEW n \in 1 .. MaxEpoch,
         NEW m \in 1 .. MaxEpoch, NEW r \in 0 .. MaxRevision,
         epoch <= n, revision <= r, epoch' = n, alias' = m, revision' = r,
         applied' = f, searchable' = g, UNCHANGED <<durable, failures>>,
         revision > 0 \/ r = 0,
         \A e \in 1 .. MaxEpoch : applied[e] <= f[e] /\ g[e] <= f[e] /\ f[e] <= r
  PROVE  Onward
<1>1. UNCHANGED durable /\ UNCHANGED failures
  OBVIOUS
<1>2. durable \in Durables /\ failures \in 0 .. MaxFailures
      /\ (durable.result <=> durable.need = "closed")
      /\ (revision = 0 => durable.command = "none" /\ durable.outbox = "none" /\ durable.need = "none")
  BY DurableOf
<1>3. WorldAgrees'
  <2>1. r = 0 => revision = 0
    BY DurableOf
  <2>2. QED
    BY <1>1, <1>2, <2>1 DEF WorldAgrees
<1>4. QED
  BY <1>1, <1>2, <1>3 DEF Onward

LEMMA OtherStepsOnward ==
  ASSUME StagesInv,
         \/ Stages!Edit \/ Stages!Apply \/ Stages!Restore \/ Stages!SwitchAlias
         \/ Stages!LogArrives
         \/ \E e \in Stages!Epochs : Stages!Refresh(e)
  PROVE  Onward
<1>0. /\ failures \in 0 .. MaxFailures /\ revision \in 0 .. MaxRevision /\ revision <= revision
      /\ epoch \in 1 .. MaxEpoch /\ alias \in 1 .. MaxEpoch /\ epoch <= epoch
      /\ applied \in [1 .. MaxEpoch -> 0 .. MaxRevision]
      /\ searchable \in [1 .. MaxEpoch -> 0 .. MaxRevision]
      /\ \A e \in 1 .. MaxEpoch : searchable[e] <= applied[e] /\ applied[e] <= revision
  BY DurableOf
<1>1. \A e \in 1 .. MaxEpoch : /\ applied[e] \in 0 .. MaxRevision
                               /\ searchable[e] \in 0 .. MaxRevision
                               /\ applied[e] <= applied[e]
  BY <1>0
<1>2. UNCHANGED <<durable, failures>>
  BY DEF Stages!Edit, Stages!Apply, Stages!Restore, Stages!SwitchAlias, Stages!LogArrives,
     Stages!Refresh, Stages!Quiet
<1>3. CASE Stages!Edit
  <2>1. /\ revision \in 1 .. MaxRevision - 1 /\ revision' = revision + 1
        /\ epoch' = epoch /\ alias' = alias /\ applied' = applied /\ searchable' = searchable
    BY <1>3 DEF Stages!Edit
  <2>2. PICK r : r = revision + 1
    OBVIOUS
  <2>3. r \in 0 .. MaxRevision /\ revision <= r /\ revision > 0 /\ revision' = r
    BY <1>0, <2>1, <2>2, StagesAssumption
  <2>4. \A e \in 1 .. MaxEpoch : applied[e] <= r
    BY <1>0, <1>1, <2>3
  <2>5. QED
    BY <1>0, <1>1, <1>2, <2>1, <2>3, <2>4, SearchStepsOnward
<1>4. CASE Stages!Apply
  <2>1. PICK f : f = [applied EXCEPT ![epoch] = revision]
    OBVIOUS
  <2>2. /\ applied' = f /\ revision' = revision /\ applied[epoch] < revision
        /\ epoch' = epoch /\ alias' = alias /\ searchable' = searchable
    BY <1>4, <2>1 DEF Stages!Apply
  <2>3. f \in [1 .. MaxEpoch -> 0 .. MaxRevision]
    BY <1>0, <2>1
  <2>4. \A e \in 1 .. MaxEpoch : applied[e] <= f[e] /\ searchable[e] <= f[e] /\ f[e] <= revision
    BY <1>0, <1>1, <2>1, <2>2
  <2>5. revision > 0 \/ revision = 0
    BY <1>0
  <2>6. QED
    BY <1>0, <1>2, <2>2, <2>3, <2>4, <2>5, SearchStepsOnward
<1>5. CASE Stages!Restore
  <2>1. /\ epoch < MaxEpoch /\ epoch' = epoch + 1 /\ revision' = revision
        /\ alias' = alias /\ applied' = applied /\ searchable' = searchable
    BY <1>5 DEF Stages!Restore
  <2>2. PICK n : n = epoch + 1
    OBVIOUS
  <2>3. n \in 1 .. MaxEpoch /\ epoch <= n /\ epoch' = n
    BY <1>0, <2>1, <2>2, StagesAssumption
  <2>4. revision > 0 \/ revision = 0
    BY <1>0
  <2>5. QED
    BY <1>0, <1>1, <1>2, <2>1, <2>3, <2>4, SearchStepsOnward
<1>6. CASE Stages!SwitchAlias
  <2>1. PICK f, g : /\ f = [applied EXCEPT ![epoch] = revision]
                    /\ g = [searchable EXCEPT ![epoch] = revision]
    OBVIOUS
  <2>2. /\ applied' = f /\ searchable' = g /\ revision' = revision
        /\ epoch' = epoch /\ alias' = epoch
    BY <1>6, <2>1 DEF Stages!SwitchAlias
  <2>3. f \in [1 .. MaxEpoch -> 0 .. MaxRevision] /\ g \in [1 .. MaxEpoch -> 0 .. MaxRevision]
    BY <1>0, <2>1
  <2>4. \A e \in 1 .. MaxEpoch : applied[e] <= f[e] /\ g[e] <= f[e] /\ f[e] <= revision
    BY <1>0, <1>1, <2>1, <2>2
  <2>5. revision > 0 \/ revision = 0
    BY <1>0
  <2>6. QED
    BY <1>0, <1>2, <2>2, <2>3, <2>4, <2>5, SearchStepsOnward
<1>7. CASE Stages!LogArrives
  <2>1. /\ epoch' = epoch /\ revision' = revision
        /\ alias' = alias /\ applied' = applied /\ searchable' = searchable
    BY <1>7 DEF Stages!LogArrives
  <2>2. revision > 0 \/ revision = 0
    BY <1>0
  <2>3. QED
    BY <1>0, <1>1, <1>2, <2>1, <2>2, SearchStepsOnward
<1>8. ASSUME NEW n \in Stages!Epochs, Stages!Refresh(n)
      PROVE  Onward
  <2>0. n \in 1 .. MaxEpoch
    BY DEF Stages!Epochs
  <2>1. PICK g : g = [searchable EXCEPT ![n] = applied[n]]
    OBVIOUS
  <2>2. /\ searchable' = g /\ revision' = revision
        /\ epoch' = epoch /\ alias' = alias /\ applied' = applied
    BY <1>8, <2>1 DEF Stages!Refresh
  <2>3. g \in [1 .. MaxEpoch -> 0 .. MaxRevision]
    BY <1>0, <1>1, <2>0, <2>1
  <2>4. \A e \in 1 .. MaxEpoch : applied[e] <= applied[e] /\ g[e] <= applied[e]
                                 /\ applied[e] <= revision
    BY <1>0, <1>1, <2>1
  <2>5. revision > 0 \/ revision = 0
    BY <1>0
  <2>6. QED
    BY <1>0, <1>2, <2>2, <2>3, <2>4, <2>5, SearchStepsOnward
<1>9. QED
  BY <1>3, <1>4, <1>5, <1>6, <1>7, <1>8

LEMMA WorldKeeps == ASSUME StagesInv, Stages!World PROVE StagesInv'
<1>1. QueriesStay
  BY WorldAlone
<1>2. Onward
  BY RowStepsOnward, OtherStepsOnward DEF Stages!World
<1>3. QED
  BY <1>1, <1>2, OnwardKeeps

-----------------------------------------------------------------------------
(* One query moves: the rest, its answer and the slots.                     *)

WorldStays ==
  UNCHANGED <<epoch, durable, revision, applied, searchable, alias>>

\* The slots follow the query: of the service while it runs, of the adapter while its
\* caller waits.
SlotsFollow(x, q) ==
  /\ \/ Runs(q) = Runs(x) /\ servers' = servers
     \/ Runs(q) /\ ~Runs(x) /\ servers < ServerSlots /\ servers' = servers + 1
     \/ ~Runs(q) /\ Runs(x) /\ servers' = servers - 1
  /\ \/ q.waits = x.waits /\ clients' = clients
     \/ q.waits = TRUE /\ x.waits = FALSE /\ clients < ClientSlots /\ clients' = clients + 1
     \/ q.waits = FALSE /\ x.waits = TRUE /\ clients' = clients - 1

LEMMA SlotsMove ==
  ASSUME StagesInv, NEW c \in Callers, NEW q, query' = [query EXCEPT ![c] = q],
         q.waits \in BOOLEAN, SlotsFollow(query[c], q)
  PROVE  Stages!SlotsExact'
<1>1. /\ servers = Cardinality(Runners) /\ servers <= ServerSlots
      /\ clients = Cardinality(Waiters) /\ clients <= ClientSlots
  BY SlotsAre DEF StagesInv
<1>2. query \in [Callers -> Resting \cup Asking]
  BY DEF StagesInv, StagesTypes
<1>3. IsFiniteSet(Runners) /\ IsFiniteSet(Waiters) /\ IsFiniteSet(Runners') /\ IsFiniteSet(Waiters')
  <2>1. Runners \subseteq Callers /\ Waiters \subseteq Callers
        /\ Runners' \subseteq Callers /\ Waiters' \subseteq Callers
    BY DEF Runners, Waiters
  <2>2. QED
    BY <2>1, FS_Subset, StagesAssumption
<1>4. /\ query'[c] = q /\ \A d \in Callers : d # c => query'[d] = query[d]
  BY <1>2
<1>5. Runners \ {c} = Runners' \ {c}
  BY <1>4 DEF Runners
<1>6. Waiters \ {c} = Waiters' \ {c}
  BY <1>4, Zenon DEF Waiters
<1>7. (c \in Runners <=> Runs(query[c])) /\ (c \in Runners' <=> Runs(q))
  BY <1>4 DEF Runners
<1>8. query[c].waits \in BOOLEAN
  BY <1>2, RestingCallers DEF Asking
<1>9. (c \in Waiters <=> query[c].waits = TRUE) /\ (c \in Waiters' <=> q.waits = TRUE)
  BY <1>4, <1>8, Zenon DEF Waiters
<1>10. PICK R, W, S, V : R = Runners /\ W = Waiters /\ S = Runners' /\ V = Waiters'
  OBVIOUS
<1>11. /\ Cardinality(R) \in Nat /\ Cardinality(S) \in Nat
       /\ Cardinality(R) + (IF c \in S THEN 1 ELSE 0)
            = Cardinality(S) + (IF c \in R THEN 1 ELSE 0)
  BY <1>3, <1>5, <1>10, DifferInOne
<1>12. /\ Cardinality(W) \in Nat /\ Cardinality(V) \in Nat
       /\ Cardinality(W) + (IF c \in V THEN 1 ELSE 0)
            = Cardinality(V) + (IF c \in W THEN 1 ELSE 0)
  BY <1>3, <1>6, <1>10, DifferInOne
<1>13. servers' = Cardinality(S) /\ servers' <= ServerSlots
  BY <1>1, <1>7, <1>10, <1>11, StagesAssumption DEF SlotsFollow
<1>14. clients' = Cardinality(V) /\ clients' <= ClientSlots
  <2>1. clients = Cardinality(W) /\ clients <= ClientSlots
    BY <1>1, <1>10
  <2>2. (c \in W <=> query[c].waits = TRUE) /\ (c \in V <=> q.waits = TRUE)
    BY <1>9, <1>10
  <2>3. PICK u, v : u = query[c].waits /\ v = q.waits
    OBVIOUS
  <2>4. u \in BOOLEAN /\ v \in BOOLEAN /\ (c \in W <=> u = TRUE) /\ (c \in V <=> v = TRUE)
    BY <1>8, <2>2, <2>3
  <2>5. \/ v = u /\ clients' = clients
        \/ v = TRUE /\ u = FALSE /\ clients < ClientSlots /\ clients' = clients + 1
        \/ v = FALSE /\ u = TRUE /\ clients' = clients - 1
    BY <2>3 DEF SlotsFollow
  <2>6. QED
    BY <1>12, <2>1, <2>4, <2>5, StagesAssumption
<1>15. QED
  <2>1. \A T : Stages!Cardinality(T) = Cardinality(T)
    BY DEF Stages!Cardinality, Cardinality
  <2>2. Runners' = {d \in Callers : Stages!Running(d)'}
    BY DEF Runners, Runs, Stages!Running
  <2>3. QED
    BY <1>10, <1>13, <1>14, <2>1, <2>2, Zenon DEF Stages!SlotsExact, Waiters

LEMMA QueryMoves ==
  ASSUME StagesInv, NEW c \in Callers, NEW q \in Resting \cup Asking, NEW s \in Memories,
         query' = [query EXCEPT ![c] = q], seen' = [seen EXCEPT ![c] = s], WorldStays,
         failures' \in 0 .. MaxFailures, MemoryTrue(s),
         q \in Asking => QueryTrue(q, s) /\ Placed(q),
         SlotsFollow(query[c], q)
  PROVE  StagesInv'
<1>1. UNCHANGED epoch /\ UNCHANGED durable /\ UNCHANGED revision /\ UNCHANGED applied
      /\ UNCHANGED searchable /\ UNCHANGED alias
  BY DEF WorldStays
<1>2. query \in [Callers -> Resting \cup Asking] /\ seen \in [Callers -> Memories]
  BY DEF StagesInv, StagesTypes
<1>3. StagesTypes'
  <2>1. query' \in [Callers -> Resting \cup Asking] /\ seen' \in [Callers -> Memories]
    BY <1>2
  <2>2. QED
    BY <1>1, <2>1 DEF StagesInv, StagesTypes
<1>4. WorldAgrees'
  BY <1>1 DEF StagesInv, WorldAgrees
<1>5. Stages!SlotsExact'
  <2>1. q.waits \in BOOLEAN
    BY RestingCallers DEF Asking
  <2>2. QED
    BY <2>1, SlotsMove
<1>6. QueriesTrue'
  <2>1. ASSUME NEW r \in Memories, MemoryTrue(r) PROVE MemoryTrue(r)'
    BY <1>1, <2>1 DEF MemoryTrue
  <2>2. ASSUME NEW y \in Asking, NEW r \in Memories, QueryTrue(y, r) PROVE QueryTrue(y, r)'
    BY <1>1, <2>2 DEF QueryTrue, EpochTrue, MatchTrue, NothingMissed, ConsumersTrue, Past
  <2> SUFFICES ASSUME NEW d \in Callers
               PROVE  /\ MemoryTrue(seen[d])'
                      /\ query'[d] \in Asking => QueryTrue(query[d], seen[d])' /\ Placed(query'[d])
    BY DEF QueriesTrue, Placed
  <2>3. PICK y, r : y = query'[d] /\ r = seen'[d]
    OBVIOUS
  <2>4. MemoryTrue(r) /\ r \in Memories /\ (y \in Asking => QueryTrue(y, r) /\ Placed(y))
    <3>1. CASE d = c
      BY <1>2, <2>3, <3>1
    <3>2. CASE d # c
      <4>1. y = query[d] /\ r = seen[d]
        BY <1>2, <2>3, <3>2
      <4>2. QED
        BY <1>2, <4>1 DEF StagesInv, QueriesTrue
    <3>3. QED
      BY <3>1, <3>2
  <2>5. MemoryTrue(r)' /\ (y \in Asking => QueryTrue(y, r)' /\ Placed(y))
    BY <2>1, <2>2, <2>4
  <2>6. QED
    BY <2>3, <2>5
<1>7. QED
  BY <1>3, <1>4, <1>5, <1>6 DEF StagesInv

\* A query that goes from one station to the next.
LEMMA QueryStepKeeps ==
  ASSUME StagesInv, NEW c \in Callers, Runs(query[c]), NEW at \in Stations \ {"asked", "done"},
         NEW ans \in Replies, Stages!Step(c, at, ans), WorldStays,
         UNCHANGED <<clients, servers, seen>>, failures' \in 0 .. MaxFailures,
         \A q \in Asking : q.at = at /\ q.ans = ans /\ q.ask = query[c].ask /\ q.outcome # "ok" =>
           QueryTrue(q, seen[c])
  PROVE  StagesInv'
<1>1. PICK x : x = query[c]
  OBVIOUS
<1>2. /\ x \in Asking /\ Placed(x) /\ MemoryTrue(seen[c]) /\ seen[c] \in Memories
  BY <1>1, UnderWay DEF Runs
<1>3. query \in [Callers -> Resting \cup Asking] /\ seen \in [Callers -> Memories]
  BY DEF StagesInv, StagesTypes
<1>4. PICK q : q = [x EXCEPT !.at = at, !.ans = ans]
  OBVIOUS
<1>5. /\ q \in Asking /\ q.at = at /\ q.ans = ans /\ q.ask = x.ask /\ q.waits = x.waits
      /\ q.outcome = x.outcome
  BY <1>2, <1>4 DEF Asking
<1>6. query' = [query EXCEPT ![c] = q]
  BY <1>1, <1>3, <1>4 DEF Stages!Step
<1>7. seen' = [seen EXCEPT ![c] = seen[c]]
  BY <1>3
<1>8. x.outcome # "ok" /\ at # "done"
  BY <1>1, <1>2 DEF Placed, Runs
<1>9. QueryTrue(q, seen[c]) /\ Placed(q)
  BY <1>1, <1>5, <1>8 DEF Placed
<1>10. SlotsFollow(x, q)
  <2>1. Runs(x) /\ Runs(q)
    BY <1>1, <1>5 DEF Runs, Stations
  <2>2. QED
    BY <1>5, <2>1 DEF SlotsFollow
<1>11. QED
  BY <1>1, <1>2, <1>5, <1>6, <1>7, <1>9, <1>10, QueryMoves

\* What a running query is and has seen.
LEMMA RunningIs ==
  ASSUME StagesInv, NEW c \in Callers, NEW x, x = query[c], NEW s, s = seen[c],
         x.at \notin {"idle", "done"}
  PROVE  /\ x \in Asking /\ s \in Memories /\ MemoryTrue(s) /\ Placed(x)
         /\ EpochTrue(x, s) /\ MatchTrue(x, s) /\ NothingMissed(x, s) /\ ConsumersTrue(x, s)
         /\ x.ans \in Replies /\ x.ask.epoch \in 1 .. MaxEpoch /\ x.outcome # "ok"
         /\ x.ask \in Stages!Queries /\ x.waits \in BOOLEAN /\ x.at \in Stations
<1>1. x \in Asking /\ QueryTrue(x, s) /\ Placed(x) /\ MemoryTrue(s) /\ s \in Memories
  BY UnderWay
<1>2. x.ans \in Replies /\ x.ask \in Stages!Queries /\ x.waits \in BOOLEAN /\ x.at \in Stations
  BY <1>1 DEF Asking
<1>3. x.ask.epoch \in 1 .. MaxEpoch
  BY <1>2 DEF Stages!Queries, Stages!Epochs
<1>4. QED
  BY <1>1, <1>2, <1>3 DEF QueryTrue, Placed

LEMMA FailuresStay ==
  ASSUME StagesInv, UNCHANGED Stages!world, failures' = failures
  PROVE  failures' \in 0 .. MaxFailures /\ WorldStays
BY DEF StagesInv, StagesTypes, Stages!world, WorldStays

LEMMA ReadEnvironmentKeeps ==
  ASSUME StagesInv, NEW c \in Callers, Stages!ReadEnvironment(c) PROVE StagesInv'
<1>1. PICK x, s, a : x = query[c] /\ s = seen[c] /\ a = x.ans
  OBVIOUS
<1>2. PICK b : b = [a EXCEPT !.current = epoch]
  OBVIOUS
<1>3. /\ x.at = "environment" /\ Stages!Step(c, "command", b)
      /\ UNCHANGED <<clients, servers, seen>> /\ failures' = failures /\ UNCHANGED Stages!world
  BY <1>1, <1>2 DEF Stages!ReadEnvironment, Stages!Ans, Stages!pools
<1>4. WorldStays /\ failures' \in 0 .. MaxFailures
  BY <1>3, FailuresStay
<1>5. /\ x \in Asking /\ s \in Memories /\ MemoryTrue(s) /\ EpochTrue(x, s)
  BY <1>1, <1>3, RunningIs
<1>6. a = Stages!Blank
  BY <1>1, <1>3, <1>5 DEF EpochTrue
<1>7. epoch \in 1 .. MaxEpoch
  BY DEF StagesInv, StagesTypes
<1>8. /\ b.current = epoch /\ b.command = "none" /\ b.broker = "none" /\ b.consumers = {}
      /\ b.matched = FALSE
  BY <1>2, <1>6 DEF Stages!Blank
<1>9. b \in Replies
  <2>1. epoch \in 0 .. MaxEpoch /\ a \in Replies
    BY <1>6, <1>7, BlankReply
  <2>2. QED
    BY <1>2, <2>1 DEF Replies
<1>10. ASSUME NEW q \in Asking, q.at = "command", q.ans = b, q.ask = x.ask, q.outcome # "ok"
       PROVE  QueryTrue(q, s)
  <2>1. EpochTrue(q, s)
    BY <1>5, <1>8, <1>10 DEF EpochTrue, MemoryTrue
  <2>2. MatchTrue(q, s)
    BY <1>8, <1>10 DEF MatchTrue
  <2>3. NothingMissed(q, s)
    BY <1>10 DEF NothingMissed, Past, Chosen
  <2>4. ConsumersTrue(q, s)
    BY <1>8, <1>10 DEF ConsumersTrue
  <2>5. QED
    BY <2>1, <2>2, <2>3, <2>4 DEF QueryTrue
<1>11. QED
  <2>1. Runs(query[c]) /\ "command" \in Stations \ {"asked", "done"}
    BY <1>1, <1>3 DEF Runs, Stations
  <2>2. QED
    BY <1>1, <1>3, <1>4, <1>9, <1>10, <2>1, QueryStepKeeps

\* What the epochs make of a row, found or not.
LEMMA Qualified ==
  ASSUME NEW e \in 1 .. MaxEpoch, NEW n \in 0 .. MaxEpoch
  PROVE  /\ Stages!EpochQuality(e, n) \in {"known", "stale_epoch"}
         /\ Stages!EpochQuality(e, n) = "known" => n = e
         /\ Stages!AbsentQuality(e, n) \in {"no_evidence", "legacy_unknown"}
         /\ Stages!CommandEvidence(e, n) \in {"expired", "known", "stale_epoch"}
         /\ Stages!CommandEvidence(e, n) = "known" => n = e
BY DEF Stages!EpochQuality, Stages!AbsentQuality, Stages!CommandEvidence

LEMMA ReadCommandKeeps ==
  ASSUME StagesInv, NEW c \in Callers, Stages!ReadCommand(c) PROVE StagesInv'
<1>1. PICK x, s, a, e : x = query[c] /\ s = seen[c] /\ a = x.ans /\ e = x.ask.epoch
  OBVIOUS
<1>2. /\ x.at = "command" /\ failures' = failures
      /\ UNCHANGED <<clients, servers, seen>> /\ UNCHANGED Stages!world
  BY <1>1 DEF Stages!ReadCommand, Stages!pools
<1>3. WorldStays /\ failures' \in 0 .. MaxFailures
  BY <1>2, FailuresStay
<1>4. /\ x \in Asking /\ s \in Memories /\ MemoryTrue(s) /\ EpochTrue(x, s) /\ MatchTrue(x, s)
      /\ ConsumersTrue(x, s) /\ a \in Replies /\ e \in 1 .. MaxEpoch
  BY <1>1, <1>2, RunningIs
<1>5. a.matched = FALSE
  BY <1>1, <1>2, <1>4 DEF MatchTrue, Replies
<1>6. a.current \in 0 .. MaxEpoch
  BY <1>4 DEF Replies
<1>7. Runs(query[c]) /\ {"broker", "choose"} \subseteq Stations \ {"asked", "done"}
  BY <1>1, <1>2 DEF Runs, Stations
<1>8. CASE Stages!FoundCommand(e)
  <2>1. PICK b : b = [a EXCEPT !.command = Stages!CommandEvidence(e, a.current),
                               !.event = TRUE, !.post = TRUE, !.bound = TRUE]
    OBVIOUS
  <2>2. Stages!Step(c, "broker", b)
    BY <1>1, <1>8, <2>1 DEF Stages!ReadCommand, Stages!Ans, Stages!Reads
  <2>3. PICK k : k = Stages!CommandEvidence(e, a.current)
    OBVIOUS
  <2>4. k \in {"expired", "known", "stale_epoch"} /\ (k = "known" => a.current = e)
    BY <1>4, <1>6, <2>3, Qualified
  <2>5. b \in Replies
    BY <1>4, <2>1, <2>3, <2>4, QualityKinds DEF Replies
  <2>6. /\ b.command = k /\ b.current = a.current /\ b.broker = a.broker
        /\ b.consumers = a.consumers /\ b.matched = FALSE
    BY <1>4, <1>5, <2>1, <2>3 DEF Replies
  <2>7. e = 1
    BY <1>8 DEF Stages!FoundCommand
  <2>8. ASSUME NEW q \in Asking, q.at = "broker", q.ans = b, q.ask = x.ask, q.outcome # "ok"
        PROVE  QueryTrue(q, s)
    <3>1. EpochTrue(q, s)
      BY <1>1, <1>2, <1>4, <2>4, <2>6, <2>7, <2>8 DEF EpochTrue
    <3>2. MatchTrue(q, s)
      BY <2>6, <2>8 DEF MatchTrue
    <3>3. NothingMissed(q, s)
      BY <2>4, <2>6, <2>8 DEF NothingMissed, Past, Chosen
    <3>4. ConsumersTrue(q, s)
      BY <1>1, <1>4, <2>6, <2>8 DEF ConsumersTrue
    <3>5. QED
      BY <3>1, <3>2, <3>3, <3>4 DEF QueryTrue
  <2>9. QED
    BY <1>1, <1>2, <1>3, <1>7, <2>2, <2>5, <2>8, QueryStepKeeps
<1>9. CASE ~Stages!FoundCommand(e)
  <2>1. PICK v : v = (x.ask.by = "event")
    OBVIOUS
  <2>2. PICK at : at = IF v THEN "broker" ELSE "choose"
    OBVIOUS
  <2>3. PICK k : k = Stages!AbsentQuality(e, a.current)
    OBVIOUS
  <2>4. k \in {"no_evidence", "legacy_unknown"} /\ v \in BOOLEAN
    BY <1>4, <1>6, <2>1, <2>3, Qualified
  <2>5. PICK b : b = [a EXCEPT !.command = k, !.event = v]
    OBVIOUS
  <2>6. Stages!Step(c, at, b)
    BY <1>1, <1>9, <2>1, <2>2, <2>3, <2>5 DEF Stages!ReadCommand, Stages!Ans, Stages!Reads
  <2>7. b \in Replies
    BY <1>4, <2>4, <2>5, QualityKinds DEF Replies
  <2>8. /\ b.command = k /\ b.current = a.current /\ b.broker = a.broker /\ b.event = v
        /\ b.consumers = a.consumers /\ b.matched = FALSE
    BY <1>4, <1>5, <2>5 DEF Replies
  <2>9. at \in {"broker", "choose"} /\ (at = "choose" => v = FALSE)
    BY <2>2, <2>4
  <2>10. e = 1 /\ "command" \in s.rows => durable.command = "gone"
    BY <1>4, <1>9 DEF Stages!FoundCommand, MemoryTrue
  <2>11. ASSUME NEW q \in Asking, q.at = at, q.ans = b, q.ask = x.ask, q.outcome # "ok"
         PROVE  QueryTrue(q, s)
    <3>1. EpochTrue(q, s)
      BY <1>1, <1>2, <1>4, <2>4, <2>8, <2>9, <2>11 DEF EpochTrue
    <3>2. MatchTrue(q, s)
      BY <2>8, <2>9, <2>11 DEF MatchTrue
    <3>3. NothingMissed(q, s)
      BY <1>1, <2>8, <2>9, <2>10, <2>11 DEF NothingMissed, Past, Chosen
    <3>4. ConsumersTrue(q, s)
      BY <1>1, <1>4, <2>8, <2>11 DEF ConsumersTrue
    <3>5. QED
      BY <3>1, <3>2, <3>3, <3>4 DEF QueryTrue
  <2>12. at \in Stations \ {"asked", "done"}
    BY <1>7, <2>9
  <2>13. QED
    BY <1>1, <1>2, <1>3, <1>7, <2>6, <2>7, <2>11, <2>12, QueryStepKeeps
<1>10. QED
  BY <1>8, <1>9

LEMMA ReadBrokerKeeps ==
  ASSUME StagesInv, NEW c \in Callers, Stages!ReadBroker(c) PROVE StagesInv'
<1>1. PICK x, s, a, e : x = query[c] /\ s = seen[c] /\ a = x.ans /\ e = x.ask.epoch
  OBVIOUS
<1>2. /\ x.at = "broker" /\ failures' = failures
      /\ UNCHANGED <<clients, servers, seen>> /\ UNCHANGED Stages!world
  BY <1>1 DEF Stages!ReadBroker, Stages!pools
<1>3. WorldStays /\ failures' \in 0 .. MaxFailures
  BY <1>2, FailuresStay
<1>4. /\ x \in Asking /\ s \in Memories /\ MemoryTrue(s) /\ EpochTrue(x, s) /\ MatchTrue(x, s)
      /\ NothingMissed(x, s) /\ ConsumersTrue(x, s) /\ a \in Replies /\ e \in 1 .. MaxEpoch
  BY <1>1, <1>2, RunningIs
<1>5. a.matched = FALSE
  BY <1>1, <1>2, <1>4 DEF MatchTrue, Replies
<1>6. /\ a.current \in 0 .. MaxEpoch /\ a.bound \in BOOLEAN
      /\ durable.legacy \in BOOLEAN /\ durable \in Durables
  BY <1>4, DurableOf DEF Replies
<1>7. PICK k : k = IF Stages!FoundBroker(e)
                     THEN IF durable.legacy THEN "legacy_unknown" ELSE Stages!EpochQuality(e, a.current)
                     ELSE Stages!AbsentQuality(e, a.current)
  OBVIOUS
<1>8. /\ k \in {"legacy_unknown", "known", "stale_epoch", "no_evidence"}
      /\ k = "known" => ~durable.legacy /\ e = 1 /\ a.current = e
  BY <1>4, <1>6, <1>7, Qualified DEF Stages!FoundBroker
<1>9. PICK b : b = IF Stages!FoundBroker(e)
                     THEN [a EXCEPT !.broker = k, !.row = durable.outbox, !.post = TRUE,
                                    !.bound = a.bound \/ ~durable.legacy]
                     ELSE [a EXCEPT !.broker = k]
  OBVIOUS
<1>10. Stages!Step(c, "consumers", b)
  <2>1. CASE Stages!FoundBroker(e)
    BY <1>1, <1>7, <1>9, <2>1 DEF Stages!ReadBroker, Stages!Ans, Stages!Reads
  <2>2. CASE ~Stages!FoundBroker(e)
    BY <1>1, <1>7, <1>9, <2>2 DEF Stages!ReadBroker, Stages!Ans, Stages!Reads
  <2>3. QED
    BY <2>1, <2>2
<1>11. b \in Replies
  <2>1. k \in Stages!Qualities
    BY <1>8, QualityKinds
  <2>2. CASE Stages!FoundBroker(e)
    <3>1. durable.outbox \in {"none", "pending", "published"}
      BY <2>2 DEF Stages!FoundBroker
    <3>2. PICK w : w = (a.bound \/ ~durable.legacy)
      OBVIOUS
    <3>3. w \in BOOLEAN
      BY <1>6, <3>2
    <3>4. b = [a EXCEPT !.broker = k, !.row = durable.outbox, !.post = TRUE, !.bound = w]
      BY <1>9, <2>2, <3>2
    <3>5. QED
      BY <1>4, <2>1, <3>1, <3>3, <3>4 DEF Replies
  <2>3. CASE ~Stages!FoundBroker(e)
    BY <1>4, <1>9, <2>1, <2>3 DEF Replies
  <2>4. QED
    BY <2>2, <2>3
<1>12. /\ b.command = a.command /\ b.current = a.current /\ b.broker = k /\ b.event = a.event
       /\ b.consumers = a.consumers /\ b.matched = FALSE
       /\ Stages!FoundBroker(e) => b.row = durable.outbox
  <2>1. CASE Stages!FoundBroker(e)
    <3>1. b = [a EXCEPT !.broker = k, !.row = durable.outbox, !.post = TRUE,
                        !.bound = a.bound \/ ~durable.legacy]
      BY <1>9, <2>1
    <3>2. QED
      BY <1>4, <1>5, <3>1 DEF Replies
  <2>2. CASE ~Stages!FoundBroker(e)
    BY <1>4, <1>5, <1>9, <2>2 DEF Replies
  <2>3. QED
    BY <2>1, <2>2
<1>13. e = 1 /\ "outbox" \in s.rows => b.row # "none" \/ durable.outbox = "gone"
  BY <1>4, <1>12 DEF Stages!FoundBroker, MemoryTrue
<1>14. ASSUME NEW q \in Asking, q.at = "consumers", q.ans = b, q.ask = x.ask, q.outcome # "ok"
       PROVE  QueryTrue(q, s)
  <2>1. EpochTrue(q, s)
    BY <1>1, <1>2, <1>4, <1>8, <1>12, <1>14 DEF EpochTrue
  <2>2. MatchTrue(q, s)
    BY <1>12, <1>14 DEF MatchTrue
  <2>3. NothingMissed(q, s)
    BY <1>1, <1>2, <1>4, <1>12, <1>13, <1>14 DEF NothingMissed, Past, Chosen
  <2>4. ConsumersTrue(q, s)
    BY <1>1, <1>4, <1>12, <1>14 DEF ConsumersTrue
  <2>5. QED
    BY <2>1, <2>2, <2>3, <2>4 DEF QueryTrue
<1>15. Runs(query[c]) /\ "consumers" \in Stations \ {"asked", "done"}
  BY <1>1, <1>2 DEF Runs, Stations
<1>16. QED
  BY <1>1, <1>2, <1>3, <1>10, <1>11, <1>14, <1>15, QueryStepKeeps

LEMMA ReadConsumersKeeps ==
  ASSUME StagesInv, NEW c \in Callers, Stages!ReadConsumers(c) PROVE StagesInv'
<1>1. PICK x, s, a, e : x = query[c] /\ s = seen[c] /\ a = x.ans /\ e = x.ask.epoch
  OBVIOUS
<1>2. /\ x.at = "consumers" /\ failures' = failures
      /\ UNCHANGED <<clients, servers, seen>> /\ UNCHANGED Stages!world
  BY <1>1 DEF Stages!ReadConsumers, Stages!pools
<1>3. WorldStays /\ failures' \in 0 .. MaxFailures
  BY <1>2, FailuresStay
<1>4. /\ x \in Asking /\ s \in Memories /\ MemoryTrue(s) /\ EpochTrue(x, s) /\ MatchTrue(x, s)
      /\ NothingMissed(x, s) /\ a \in Replies /\ e \in 1 .. MaxEpoch
  BY <1>1, <1>2, RunningIs
<1>5. a.matched = FALSE
  BY <1>1, <1>2, <1>4 DEF MatchTrue, Replies
<1>6. /\ a.current \in 0 .. MaxEpoch /\ durable.failed \in BOOLEAN /\ durable.result \in BOOLEAN
      /\ (durable.result <=> durable.need = "closed")
  BY <1>4, DurableOf DEF Replies
<1>7. PICK k : k = [quality |-> Stages!EpochQuality(e, a.current),
                    status |-> Stages!ConsumerStatus, failed |-> durable.failed]
  OBVIOUS
<1>8. /\ k \in Consumers /\ (k.quality = "known" => a.current = e)
      /\ k.status = "pending" => ~durable.result
      /\ k.status = "completed" => durable.result
  <2>1. /\ Stages!ConsumerStatus \in {"completed", "none", "pending"}
        /\ Stages!ConsumerStatus = "pending" => ~durable.result
        /\ Stages!ConsumerStatus = "completed" => durable.result
    BY <1>6 DEF Stages!ConsumerStatus
  <2>2. /\ Stages!EpochQuality(e, a.current) \in {"known", "stale_epoch"}
        /\ Stages!EpochQuality(e, a.current) = "known" => a.current = e
    BY <1>4, <1>6, Qualified
  <2>3. QED
    BY <1>6, <1>7, <2>1, <2>2 DEF Consumers
<1>9. PICK K : K = IF e = 1 /\ durable.need \in {"open", "closed"} THEN {k} ELSE {}
  OBVIOUS
<1>10. PICK b : b = [a EXCEPT !.consumers = K]
  OBVIOUS
<1>11. Stages!Step(c, "choose", b)
  BY <1>1, <1>2, <1>7, <1>9, <1>10 DEF Stages!ReadConsumers, Stages!Ans, Stages!Reads
<1>12. K \in SUBSET Consumers /\ K \subseteq {k}
  BY <1>8, <1>9
<1>13. b \in Replies
  BY <1>4, <1>10, <1>12 DEF Replies
<1>14. /\ b.command = a.command /\ b.current = a.current /\ b.broker = a.broker
       /\ b.event = a.event /\ b.row = a.row /\ b.consumers = K /\ b.matched = FALSE
  BY <1>4, <1>5, <1>10 DEF Replies
<1>15. e = 1 /\ "need" \in s.rows => K # {} \/ durable.need = "gone"
  BY <1>4, <1>9 DEF MemoryTrue
<1>16. ASSUME NEW q \in Asking, q.at = "choose", q.ans = b, q.ask = x.ask, q.outcome # "ok"
       PROVE  QueryTrue(q, s)
  <2>1. EpochTrue(q, s)
    BY <1>1, <1>2, <1>4, <1>8, <1>12, <1>14, <1>16 DEF EpochTrue
  <2>2. MatchTrue(q, s)
    BY <1>14, <1>16 DEF MatchTrue
  <2>3. NothingMissed(q, s)
    BY <1>1, <1>2, <1>4, <1>14, <1>15, <1>16 DEF NothingMissed, Past, Chosen
  <2>4. ConsumersTrue(q, s)
    <3>1. "result" \in s.rows => durable.need \in {"closed", "gone"}
      BY <1>4 DEF MemoryTrue
    <3>2. K # {} => durable.need \in {"open", "closed"}
      BY <1>9
    <3>3. QED
      BY <1>6, <1>8, <1>12, <1>14, <1>16, <3>1, <3>2 DEF ConsumersTrue
  <2>5. QED
    BY <2>1, <2>2, <2>3, <2>4 DEF QueryTrue
<1>17. Runs(query[c]) /\ "choose" \in Stations \ {"asked", "done"}
  BY <1>1, <1>2 DEF Runs, Stations
<1>18. QED
  BY <1>1, <1>2, <1>3, <1>11, <1>13, <1>16, <1>17, QueryStepKeeps

\* The steps after the persistent part leave what it found.
LEMMA LaterStepKeeps ==
  ASSUME StagesInv, NEW c \in Callers, NEW x, x = query[c], NEW s, s = seen[c], NEW a, a = x.ans,
         x.at \in Chosen, NEW at \in Chosen, NEW b \in Replies, Stages!Step(c, at, b),
         b.command = a.command, b.current = a.current, b.broker = a.broker,
         b.event = a.event, b.row = a.row, b.consumers = a.consumers,
         UNCHANGED <<clients, servers, seen>>, WorldStays, failures' \in 0 .. MaxFailures,
         \A q \in Asking : q.at = at /\ q.ans = b /\ q.ask = x.ask => MatchTrue(q, s)
  PROVE  StagesInv'
<1>1. /\ EpochTrue(x, s) /\ NothingMissed(x, s) /\ ConsumersTrue(x, s)
  BY RunningIs DEF Chosen
<1>2. ASSUME NEW q \in Asking, q.at = at, q.ans = b, q.ask = x.ask, q.outcome # "ok"
      PROVE  QueryTrue(q, s)
  <2>1. EpochTrue(q, s)
    BY <1>1, <1>2 DEF EpochTrue, Chosen
  <2>2. NothingMissed(q, s)
    BY <1>1, <1>2 DEF NothingMissed, Past
  <2>3. ConsumersTrue(q, s)
    BY <1>1, <1>2 DEF ConsumersTrue
  <2>4. QED
    BY <1>2, <2>1, <2>2, <2>3 DEF QueryTrue
<1>3. Runs(query[c]) /\ at \in Stations \ {"asked", "done"}
  BY DEF Runs, Stations, Chosen
<1>4. QED
  BY <1>2, <1>3, QueryStepKeeps

LEMMA ChooseKeeps ==
  ASSUME StagesInv, NEW c \in Callers, Stages!Choose(c) PROVE StagesInv'
<1>1. PICK x, s, a, e : x = query[c] /\ s = seen[c] /\ a = x.ans /\ e = x.ask.epoch
  OBVIOUS
<1>2. /\ x.at = "choose" /\ failures' = failures
      /\ UNCHANGED <<clients, servers, seen>> /\ UNCHANGED Stages!world
  BY <1>1 DEF Stages!Choose, Stages!pools
<1>3. WorldStays /\ failures' \in 0 .. MaxFailures
  BY <1>2, FailuresStay
<1>4. MatchTrue(x, s) /\ a \in Replies /\ e \in 1 .. MaxEpoch
  BY <1>1, <1>2, RunningIs
<1>5. a.matched = FALSE
  BY <1>1, <1>2, <1>4 DEF MatchTrue, Replies
<1>6. PICK at, b : /\ Stages!Step(c, at, b)
                   /\ \/ at = "logs" /\ b = a
                      \/ at = "logs" /\ b = [a EXCEPT !.visibility = "stale_epoch"]
                      \/ at = "logs" /\ b = [a EXCEPT !.visibility = "no_evidence"]
                      \/ at = "fact" /\ b = a /\ a.current = e
  <2>1. PICK wants, sound : /\ wants = ("visibility" \in x.ask.include)
                            /\ sound = (a.post /\ a.bound)
    OBVIOUS
  <2>2. CASE ~wants
    BY <1>1, <2>1, <2>2 DEF Stages!Choose, Stages!Ans, Stages!Reads
  <2>3. CASE wants /\ e # a.current
    BY <1>1, <2>1, <2>3 DEF Stages!Choose, Stages!Ans, Stages!Reads
  <2>4. CASE wants /\ e = a.current /\ ~sound
    BY <1>1, <2>1, <2>4 DEF Stages!Choose, Stages!Ans, Stages!Reads
  <2>5. CASE wants /\ e = a.current /\ sound
    BY <1>1, <2>1, <2>5 DEF Stages!Choose, Stages!Ans, Stages!Reads
  <2>6. QED
    BY <2>1, <2>2, <2>3, <2>4, <2>5
<1>7. /\ b.command = a.command /\ b.current = a.current /\ b.broker = a.broker
      /\ b.event = a.event /\ b.row = a.row /\ b.consumers = a.consumers /\ b.matched = FALSE
      /\ b \in Replies /\ at \in Chosen /\ (at = "logs" \/ (at = "fact" /\ a.current = e))
  <2>0. at = "logs" \/ (at = "fact" /\ a.current = e)
    BY <1>6, Zenon
  <2>1. at \in Chosen /\ (at = "logs" \/ (at = "fact" /\ a.current = e))
    BY <2>0 DEF Chosen
  <2>2. PICK v : b = a \/ (v \in {"stale_epoch", "no_evidence"} /\ b = [a EXCEPT !.visibility = v])
    BY <1>6
  <2>3. CASE b = a
    BY <1>4, <1>5, <2>1, <2>3
  <2>4. CASE v \in {"stale_epoch", "no_evidence"} /\ b = [a EXCEPT !.visibility = v]
    BY <1>4, <1>5, <2>1, <2>4, QualityKinds DEF Replies
  <2>5. QED
    BY <2>2, <2>3, <2>4
<1>8. ASSUME NEW q \in Asking, q.at = at, q.ans = b, q.ask = x.ask
      PROVE  MatchTrue(q, s)
  BY <1>1, <1>7, <1>8 DEF MatchTrue
<1>9. x.at \in Chosen
  BY <1>2 DEF Chosen
<1>10. QED
  BY <1>1, <1>2, <1>3, <1>6, <1>7, <1>8, <1>9, LaterStepKeeps

LEMMA ReadFactKeeps ==
  ASSUME StagesInv, NEW c \in Callers, Stages!ReadFact(c) PROVE StagesInv'
<1>1. PICK x, s, a : x = query[c] /\ s = seen[c] /\ a = x.ans
  OBVIOUS
<1>2. PICK b : b = [a EXCEPT !.fact = revision]
  OBVIOUS
<1>3. /\ x.at = "fact" /\ failures' = failures /\ Stages!Step(c, "alias", b)
      /\ UNCHANGED <<clients, servers, seen>> /\ UNCHANGED Stages!world
  BY <1>1, <1>2 DEF Stages!ReadFact, Stages!Ans, Stages!pools
<1>4. WorldStays /\ failures' \in 0 .. MaxFailures
  BY <1>3, FailuresStay
<1>5. MatchTrue(x, s) /\ MemoryTrue(s) /\ a \in Replies /\ revision \in 0 .. MaxRevision
  BY <1>1, <1>3, RunningIs, DurableOf
<1>6. a.matched = FALSE
  BY <1>1, <1>3, <1>5 DEF MatchTrue, Replies
<1>7. /\ b.command = a.command /\ b.current = a.current /\ b.broker = a.broker
      /\ b.event = a.event /\ b.row = a.row /\ b.consumers = a.consumers /\ b.matched = FALSE
      /\ b \in Replies /\ b.fact = revision
  BY <1>2, <1>5, <1>6 DEF Replies
<1>8. ASSUME NEW q \in Asking, q.at = "alias", q.ans = b, q.ask = x.ask
      PROVE  MatchTrue(q, s)
  BY <1>1, <1>3, <1>5, <1>7, <1>8 DEF MatchTrue, MemoryTrue
<1>9. x.at \in Chosen /\ "alias" \in Chosen
  BY <1>3 DEF Chosen
<1>10. QED
  BY <1>1, <1>3, <1>4, <1>7, <1>8, <1>9, LaterStepKeeps

LEMMA ReadAliasKeeps ==
  ASSUME StagesInv, NEW c \in Callers, Stages!ReadAlias(c) PROVE StagesInv'
<1>1. PICK x, s, a, e : x = query[c] /\ s = seen[c] /\ a = x.ans /\ e = x.ask.epoch
  OBVIOUS
<1>2. /\ x.at = "alias" /\ failures' = failures
      /\ UNCHANGED <<clients, servers, seen>> /\ UNCHANGED Stages!world
  BY <1>1 DEF Stages!ReadAlias, Stages!pools
<1>3. WorldStays /\ failures' \in 0 .. MaxFailures
  BY <1>2, FailuresStay
<1>4. MatchTrue(x, s) /\ a \in Replies /\ e \in 1 .. MaxEpoch /\ alias \in 1 .. MaxEpoch
  BY <1>1, <1>2, RunningIs, DurableOf
<1>5. a.matched = FALSE
  BY <1>1, <1>2, <1>4 DEF MatchTrue, Replies
<1>6. PICK at, b : /\ Stages!Step(c, at, b)
                   /\ \/ at = "index" /\ b = [a EXCEPT !.generation = alias] /\ alias = e
                      \/ at = "logs" /\ b = [a EXCEPT !.visibility = "stale_epoch"]
  BY <1>1 DEF Stages!ReadAlias, Stages!Ans, Stages!Reads
<1>7. /\ b.command = a.command /\ b.current = a.current /\ b.broker = a.broker
      /\ b.event = a.event /\ b.row = a.row /\ b.consumers = a.consumers /\ b.matched = FALSE
      /\ b.fact = a.fact /\ b \in Replies /\ at \in Chosen
      /\ at = "logs" \/ (at = "index" /\ b.generation = e)
  <2>1. CASE at = "index" /\ b = [a EXCEPT !.generation = alias] /\ alias = e
    <3>1. alias \in 0 .. MaxEpoch /\ at \in Chosen
      BY <1>4, <2>1 DEF Chosen
    <3>2. QED
      BY <1>4, <1>5, <2>1, <3>1 DEF Replies
  <2>2. CASE at = "logs" /\ b = [a EXCEPT !.visibility = "stale_epoch"]
    <3>1. at \in Chosen /\ "stale_epoch" \in Stages!Qualities
      BY <2>2, QualityKinds DEF Chosen
    <3>2. b \in Replies
      BY <1>4, <2>2, <3>1 DEF Replies
    <3>3. QED
      BY <1>4, <1>5, <2>2, <3>1, <3>2 DEF Replies
  <2>3. QED
    BY <1>6, <2>1, <2>2
<1>8. ASSUME NEW q \in Asking, q.at = at, q.ans = b, q.ask = x.ask
      PROVE  MatchTrue(q, s)
  BY <1>1, <1>2, <1>4, <1>7, <1>8 DEF MatchTrue
<1>9. x.at \in Chosen
  BY <1>2 DEF Chosen
<1>10. QED
  BY <1>1, <1>2, <1>3, <1>6, <1>7, <1>8, <1>9, LaterStepKeeps

LEMMA SearchExactKeeps ==
  ASSUME StagesInv, NEW c \in Callers, Stages!SearchExact(c) PROVE StagesInv'
<1>1. PICK x, s, a, e : x = query[c] /\ s = seen[c] /\ a = x.ans /\ e = x.ask.epoch
  OBVIOUS
<1>2. PICK m : m = (searchable[a.generation] = a.fact)
  OBVIOUS
<1>3. PICK b : b = [a EXCEPT !.visibility = "known", !.matched = m]
  OBVIOUS
<1>4. /\ x.at = "index" /\ failures' = failures /\ Stages!Step(c, "logs", b)
      /\ UNCHANGED <<clients, servers, seen>> /\ UNCHANGED Stages!world
  BY <1>1, <1>2, <1>3 DEF Stages!SearchExact, Stages!Ans, Stages!pools
<1>5. WorldStays /\ failures' \in 0 .. MaxFailures
  BY <1>4, FailuresStay
<1>6. MatchTrue(x, s) /\ a \in Replies /\ e \in 1 .. MaxEpoch
  BY <1>1, <1>4, RunningIs
<1>7. a.current = e /\ s.rev <= a.fact /\ a.generation = e
  BY <1>1, <1>4, <1>6 DEF MatchTrue
<1>8. m \in BOOLEAN /\ (m = TRUE => searchable[e] = a.fact)
  BY <1>2, <1>7
<1>9. searchable[e] <= applied[e]
  BY <1>6, DurableOf
<1>10. /\ b.command = a.command /\ b.current = a.current /\ b.broker = a.broker
       /\ b.event = a.event /\ b.row = a.row /\ b.consumers = a.consumers /\ b.matched = m
       /\ b.visibility = "known" /\ b.fact = a.fact /\ b.generation = a.generation /\ b \in Replies
  BY <1>3, <1>6, <1>8, QualityKinds DEF Replies
<1>11. m = TRUE => a.fact <= applied[e]
  BY <1>8, <1>9
<1>12. ASSUME NEW q \in Asking, q.at = "logs", q.ans = b, q.ask = x.ask
       PROVE  MatchTrue(q, s)
  BY <1>1, <1>7, <1>8, <1>10, <1>11, <1>12 DEF MatchTrue
<1>13. x.at \in Chosen /\ "logs" \in Chosen
  BY <1>4 DEF Chosen
<1>14. QED
  BY <1>1, <1>4, <1>5, <1>10, <1>12, <1>13, LaterStepKeeps

-----------------------------------------------------------------------------
(* The beginning and the ends of a query.                                   *)

\* An end without an answer says nothing.
LEMMA EndIsTrue ==
  ASSUME NEW x \in Asking, NEW s, QueryTrue(x, s), NEW q \in Asking, q.ask = x.ask,
         q.ans = x.ans, q.at = "done", q.outcome # "ok"
  PROVE  QueryTrue(q, s) /\ (q.waits = FALSE => Placed(q))
<1>1. EpochTrue(q, s)
  BY DEF QueryTrue, EpochTrue
<1>2. MatchTrue(q, s)
  BY DEF QueryTrue, MatchTrue
<1>3. NothingMissed(q, s)
  BY DEF NothingMissed, Past, Chosen
<1>4. ConsumersTrue(q, s)
  BY DEF QueryTrue, ConsumersTrue
<1>5. QED
  BY <1>1, <1>2, <1>3, <1>4 DEF QueryTrue, Placed

\* A query that ends without an answer; whoever waited leaves.
EndedQuery(x, o) == [x EXCEPT !.at = "done", !.waits = FALSE, !.outcome = o]

LEMMA QueryEndKeeps ==
  ASSUME StagesInv, NEW c \in Callers, NEW x, x = query[c], x.at \notin {"idle", "done"},
         NEW o \in {"none", "busy", "unavailable"}, NEW q,
         q = EndedQuery(x, o),
         query' = [query EXCEPT ![c] = q], UNCHANGED seen, WorldStays,
         failures' \in 0 .. MaxFailures,
         servers' = IF Runs(x) THEN servers - 1 ELSE servers,
         clients' = IF x.waits THEN clients - 1 ELSE clients
  PROVE  StagesInv'
<1>1. PICK s : s = seen[c]
  OBVIOUS
<1>2. /\ x \in Asking /\ s \in Memories /\ MemoryTrue(s) /\ QueryTrue(x, s) /\ x.waits \in BOOLEAN
  BY <1>1, UnderWay, RunningIs
<1>3. /\ q \in Asking /\ q.ask = x.ask /\ q.ans = x.ans /\ q.at = "done" /\ q.outcome = o
      /\ q.waits = FALSE
  BY <1>2 DEF Asking, Stations, EndedQuery
<1>4. QueryTrue(q, s) /\ Placed(q)
  BY <1>2, <1>3, EndIsTrue
<1>5. ~Runs(q)
  BY <1>3 DEF Runs
<1>6. SlotsFollow(x, q)
  <2>1. \/ Runs(x) /\ servers' = servers - 1
        \/ Runs(q) = Runs(x) /\ servers' = servers
    <3>1. Runs(q) = FALSE /\ Runs(x) \in BOOLEAN
      BY <1>3 DEF Runs
    <3>2. QED
      BY <3>1
  <2>2. \/ x.waits = TRUE /\ clients' = clients - 1
        \/ q.waits = x.waits /\ clients' = clients
    BY <1>2, <1>3
  <2>3. QED
    BY <1>3, <1>5, <2>1, <2>2 DEF SlotsFollow
<1>7. seen' = [seen EXCEPT ![c] = s]
  <2>1. seen \in [Callers -> Memories]
    BY DEF StagesInv, StagesTypes
  <2>2. QED
    BY <1>1, <2>1
<1>8. QED
  BY <1>2, <1>3, <1>4, <1>6, <1>7, QueryMoves

LEMMA AnsweredIs ==
  ASSUME StagesInv, NEW c \in Callers, NEW x, x = query[c], x.at \notin {"idle", "done"},
         NEW o \in {"busy", "unavailable"}, Stages!Answered(c, o)
  PROVE  \E p \in {"none", "busy", "unavailable"} :
           /\ query' = [query EXCEPT ![c] = EndedQuery(x, p)]
           /\ clients' = IF x.waits THEN clients - 1 ELSE clients
<1>1. query \in [Callers -> Resting \cup Asking]
  BY DEF StagesInv, StagesTypes
<1>2. x \in Asking /\ x.waits \in BOOLEAN /\ x.outcome # "ok"
  BY RunningIs
<1>3. CASE x.waits = TRUE
  <2>1. query' = [query EXCEPT ![c].at = "done", ![c].waits = FALSE, ![c].outcome = o]
        /\ clients' = clients - 1
    BY <1>3 DEF Stages!Answered
  <2>2. query' = [query EXCEPT ![c] = EndedQuery(x, o)]
    BY <1>1, <2>1 DEF EndedQuery
  <2>3. QED
    BY <1>3, <2>1, <2>2
<1>4. CASE x.waits = FALSE
  <2>1. query' = [query EXCEPT ![c].at = "done"] /\ clients' = clients
    BY <1>4 DEF Stages!Answered
  <2>2. query' = [query EXCEPT ![c] = [x EXCEPT !.at = "done"]]
    BY <1>1, <2>1
  <2>3. PICK p : p = x.outcome
    OBVIOUS
  <2>4. p \in {"none", "busy", "unavailable"}
    BY <1>2, <2>3 DEF Asking
  <2>5. [x EXCEPT !.at = "done"] = EndedQuery(x, p)
    BY <1>2, <1>4, <2>3 DEF Asking, EndedQuery
  <2>6. QED
    BY <1>4, <2>1, <2>2, <2>4, <2>5
<1>5. QED
  BY <1>2, <1>3, <1>4

LEMMA QueryAskKeeps ==
  ASSUME StagesInv, NEW c \in Callers, Stages!Ask(c) PROVE StagesInv'
<1>1. PICK x, s : x = query[c] /\ s = seen[c]
  OBVIOUS
<1>2. /\ x.at = "idle" /\ failures' = failures /\ servers' = servers /\ UNCHANGED seen
      /\ UNCHANGED Stages!world
  BY <1>1 DEF Stages!Ask
<1>3. WorldStays /\ failures' \in 0 .. MaxFailures
  BY <1>2, FailuresStay
<1>4. /\ x \in Resting \cup Asking /\ s \in Memories /\ MemoryTrue(s)
      /\ query \in [Callers -> Resting \cup Asking] /\ seen \in [Callers -> Memories]
  BY <1>1 DEF StagesInv, StagesTypes, QueriesTrue
<1>5. x.waits = FALSE /\ ~Runs(x)
  <2>1. x \notin Asking
    BY <1>2 DEF Asking, Stations
  <2>2. QED
    BY <1>2, <1>4, <2>1, RestingCallers DEF Runs
<1>6. seen' = [seen EXCEPT ![c] = s]
  BY <1>1, <1>2, <1>4
<1>7. CASE clients < ClientSlots
  <2>1. PICK r \in Stages!Queries :
          /\ query' = [query EXCEPT ![c] = [at |-> "asked", waits |-> TRUE,
                         outcome |-> "none", ask |-> r, ans |-> Stages!Blank]]
          /\ clients' = clients + 1
    BY <1>7 DEF Stages!Ask
  <2>2. PICK q : q = [at |-> "asked", waits |-> TRUE, outcome |-> "none", ask |-> r,
                      ans |-> Stages!Blank]
    OBVIOUS
  <2>3. /\ q \in Asking /\ q.at = "asked" /\ q.waits = TRUE /\ q.outcome = "none"
        /\ q.ans = Stages!Blank
    BY <2>2, BlankReply DEF Asking, Stations
  <2>4. /\ Stages!Blank.current = 0 /\ Stages!Blank.command = "none" /\ Stages!Blank.broker = "none"
        /\ Stages!Blank.consumers = {} /\ Stages!Blank.matched = FALSE
    BY DEF Stages!Blank
  <2>5. QueryTrue(q, s) /\ Placed(q)
    <3>1. EpochTrue(q, s)
      BY <2>3, <2>4 DEF EpochTrue
    <3>2. MatchTrue(q, s)
      BY <2>3, <2>4 DEF MatchTrue
    <3>3. NothingMissed(q, s)
      BY <2>3 DEF NothingMissed, Past, Chosen
    <3>4. ConsumersTrue(q, s)
      BY <2>3, <2>4 DEF ConsumersTrue
    <3>5. QED
      BY <2>3, <3>1, <3>2, <3>3, <3>4 DEF QueryTrue, Placed
  <2>6. SlotsFollow(x, q)
    <3>1. Runs(q) = FALSE /\ Runs(x) = FALSE
      BY <1>5, <2>3 DEF Runs
    <3>2. QED
      BY <1>2, <1>5, <1>7, <2>1, <2>3, <3>1 DEF SlotsFollow
  <2>7. query' = [query EXCEPT ![c] = q]
    BY <2>1, <2>2
  <2>8. QED
    BY <1>1, <1>3, <1>4, <1>6, <2>3, <2>5, <2>6, <2>7, QueryMoves
<1>8. CASE ~(clients < ClientSlots)
  <2>1. PICK q : q = [Stages!Idle EXCEPT !.at = "done", !.outcome = "busy"]
    OBVIOUS
  <2>2. query' = [query EXCEPT ![c] = q] /\ clients' = clients
    BY <1>8, <2>1 DEF Stages!Ask
  <2>3. q \in Resting
    BY <2>1 DEF Resting
  <2>4. q \notin Asking /\ q.waits = FALSE /\ q.at \in {"idle", "done"}
    <3>1. q.waits = FALSE /\ q.at \in {"idle", "done"}
      BY <2>3, RestingCallers
    <3>2. q.outcome = "busy" /\ DOMAIN q = {"at", "waits", "outcome"}
      BY <2>1 DEF Stages!Idle
    <3>3. ASSUME q \in Asking PROVE FALSE
      <4>1. "ask" \in DOMAIN q
        BY <3>3 DEF Asking
      <4>2. QED
        BY <3>2, <4>1
    <3>4. QED
      BY <3>1, <3>3
  <2>5. SlotsFollow(x, q)
    <3>1. Runs(q) = FALSE /\ Runs(x) = FALSE
      BY <1>5, <2>4 DEF Runs
    <3>2. QED
      BY <1>2, <1>5, <2>2, <2>4, <3>1 DEF SlotsFollow
  <2>6. QED
    BY <1>1, <1>3, <1>4, <1>6, <2>2, <2>3, <2>4, <2>5, QueryMoves
<1>9. QED
  BY <1>7, <1>8

LEMMA AdmitKeeps ==
  ASSUME StagesInv, NEW c \in Callers, Stages!Admit(c) PROVE StagesInv'
<1>1. PICK x, s, a : x = query[c] /\ s = seen[c] /\ a = x.ans
  OBVIOUS
<1>2. x.at = "asked" /\ failures' = failures /\ UNCHANGED Stages!world
  BY <1>1 DEF Stages!Admit
<1>3. WorldStays /\ failures' \in 0 .. MaxFailures
  BY <1>2, FailuresStay
<1>4. /\ x \in Asking /\ EpochTrue(x, s) /\ x.outcome # "ok" /\ x.waits \in BOOLEAN
  BY <1>1, <1>2, RunningIs
<1>5. query \in [Callers -> Resting \cup Asking] /\ seen \in [Callers -> Memories]
  BY DEF StagesInv, StagesTypes
<1>6. ~Runs(x)
  BY <1>2 DEF Runs
<1>7. CASE servers < ServerSlots
  <2>1. /\ servers' = servers + 1 /\ query' = [query EXCEPT ![c].at = "environment"]
        /\ seen' = [seen EXCEPT ![c] = [env |-> epoch, rev |-> revision, rows |-> Stages!Rows]]
        /\ clients' = clients
    BY <1>7 DEF Stages!Admit
  <2>2. PICK q, m : /\ q = [x EXCEPT !.at = "environment"]
                    /\ m = [env |-> epoch, rev |-> revision, rows |-> Stages!Rows]
    OBVIOUS
  <2>3. query' = [query EXCEPT ![c] = q] /\ seen' = [seen EXCEPT ![c] = m]
    BY <1>1, <1>5, <2>1, <2>2
  <2>4. /\ q \in Asking /\ q.at = "environment" /\ q.ans = a /\ q.ask = x.ask
        /\ q.waits = x.waits /\ q.outcome = x.outcome
    BY <1>1, <1>4, <2>2 DEF Asking, Stations
  <2>5. a = Stages!Blank
    BY <1>1, <1>2, <1>4 DEF EpochTrue
  <2>6. m \in Memories /\ MemoryTrue(m)
    <3>1. PICK R : R = Stages!Rows
      OBVIOUS
    <3>2. /\ R \in SUBSET {"command", "outbox", "need", "result"}
          /\ "command" \in R => durable.command \in {"committed", "expired"}
          /\ "outbox" \in R => durable.outbox \in {"pending", "published"}
          /\ "need" \in R => durable.need \in {"open", "closed"}
          /\ "result" \in R => durable.result
      BY <3>1 DEF Stages!Rows
    <3>3. m.env = epoch /\ m.rev = revision /\ m.rows = R
      BY <2>2, <3>1
    <3>4. epoch \in 0 .. MaxEpoch /\ revision \in 0 .. MaxRevision
          /\ epoch <= epoch /\ revision <= revision /\ (durable.result => durable.need = "closed")
      BY DurableOf
    <3>5. m \in Memories
      BY <2>2, <3>1, <3>2, <3>4 DEF Memories
    <3>6. MemoryTrue(m)
      BY <3>2, <3>3, <3>4 DEF MemoryTrue
    <3>7. QED
      BY <3>5, <3>6
  <2>7. /\ a.current = 0 /\ a.command = "none" /\ a.broker = "none" /\ a.consumers = {}
        /\ a.matched = FALSE
    BY <2>5 DEF Stages!Blank
  <2>8. QueryTrue(q, m) /\ Placed(q)
    <3>1. EpochTrue(q, m)
      BY <2>4, <2>5, <2>7 DEF EpochTrue
    <3>2. MatchTrue(q, m)
      BY <2>4, <2>7 DEF MatchTrue
    <3>3. NothingMissed(q, m)
      BY <2>4 DEF NothingMissed, Past, Chosen
    <3>4. ConsumersTrue(q, m)
      BY <2>4, <2>7 DEF ConsumersTrue
    <3>5. QED
      BY <1>4, <2>4, <3>1, <3>2, <3>3, <3>4 DEF QueryTrue, Placed
  <2>9. SlotsFollow(x, q)
    <3>1. Runs(q)
      BY <2>4 DEF Runs
    <3>2. QED
      BY <1>6, <1>7, <2>1, <2>4, <3>1 DEF SlotsFollow
  <2>10. QED
    BY <1>1, <1>3, <2>3, <2>4, <2>6, <2>8, <2>9, QueryMoves
<1>8. CASE ~(servers < ServerSlots)
  <2>1. Stages!Answered(c, "busy") /\ servers' = servers /\ seen' = seen
    BY <1>8 DEF Stages!Admit, Stages!Adapted
  <2>2. PICK p \in {"none", "busy", "unavailable"} :
          /\ query' = [query EXCEPT ![c] = EndedQuery(x, p)]
          /\ clients' = IF x.waits THEN clients - 1 ELSE clients
    BY <1>1, <1>2, <2>1, AnsweredIs
  <2>3. PICK q : q = EndedQuery(x, p)
    OBVIOUS
  <2>4. servers' = IF Runs(x) THEN servers - 1 ELSE servers
    BY <1>6, <2>1
  <2>5. QED
    BY <1>1, <1>2, <1>3, <2>1, <2>2, <2>3, <2>4, QueryEndKeeps
<1>9. QED
  BY <1>7, <1>8

LEMMA FinishKeeps ==
  ASSUME StagesInv, NEW c \in Callers, NEW x, x = query[c], x.at = "logs", NEW a, a = x.ans,
         NEW k \in Stages!Qualities, NEW b, b = a \/ b = [a EXCEPT !.logs = k],
         Stages!Finish(c, b), UNCHANGED seen, WorldStays, failures' \in 0 .. MaxFailures
  PROVE  StagesInv'
<1>1. PICK s : s = seen[c]
  OBVIOUS
<1>2. /\ x \in Asking /\ s \in Memories /\ MemoryTrue(s) /\ x.waits \in BOOLEAN /\ x.outcome # "ok"
      /\ EpochTrue(x, s) /\ MatchTrue(x, s) /\ NothingMissed(x, s) /\ ConsumersTrue(x, s)
      /\ a \in Replies
  BY <1>1, RunningIs
<1>3. query \in [Callers -> Resting \cup Asking] /\ seen \in [Callers -> Memories]
  BY DEF StagesInv, StagesTypes
<1>4. Runs(x)
  BY DEF Runs
<1>5. CASE x.waits = TRUE
  <2>1. PICK q : q = [x EXCEPT !.at = "done", !.waits = FALSE, !.outcome = "ok", !.ans = b]
    OBVIOUS
  <2>2. /\ servers' = servers - 1 /\ clients' = clients - 1
        /\ query' = [query EXCEPT ![c].at = "done", ![c].waits = FALSE,
                                  ![c].outcome = "ok", ![c].ans = b]
    BY <1>5 DEF Stages!Finish, Stages!Release
  <2>3. query' = [query EXCEPT ![c] = q]
    BY <1>3, <2>1, <2>2
  <2>4. b \in Replies
    <3>1. CASE b = a
      BY <1>2, <3>1
    <3>2. CASE b = [a EXCEPT !.logs = k]
      BY <1>2, <3>2 DEF Replies
    <3>3. QED
      BY <3>1, <3>2
  <2>5. /\ b.command = a.command /\ b.current = a.current /\ b.broker = a.broker
        /\ b.event = a.event /\ b.row = a.row /\ b.consumers = a.consumers
        /\ b.matched = a.matched /\ b.visibility = a.visibility /\ b.fact = a.fact
        /\ b.generation = a.generation
    <3>1. CASE b = a
      BY <3>1
    <3>2. CASE b = [a EXCEPT !.logs = k]
      BY <1>2, <3>2 DEF Replies
    <3>3. QED
      BY <3>1, <3>2
  <2>6. /\ q \in Asking /\ q.at = "done" /\ q.waits = FALSE /\ q.outcome = "ok" /\ q.ans = b
        /\ q.ask = x.ask
    BY <1>2, <2>1, <2>4 DEF Asking, Stations
  <2>7. EpochTrue(q, s)
    BY <1>2, <2>5, <2>6 DEF EpochTrue
  <2>8. MatchTrue(q, s)
    BY <1>2, <2>5, <2>6 DEF MatchTrue
  <2>9. NothingMissed(q, s)
    BY <1>2, <2>5, <2>6 DEF NothingMissed, Past, Chosen
  <2>10. ConsumersTrue(q, s)
    BY <1>2, <2>5, <2>6 DEF ConsumersTrue
  <2>11. QueryTrue(q, s) /\ Placed(q)
    BY <2>6, <2>7, <2>8, <2>9, <2>10 DEF QueryTrue, Placed
  <2>12. SlotsFollow(x, q)
    <3>1. ~Runs(q)
      BY <2>6 DEF Runs
    <3>2. QED
      BY <1>4, <1>5, <2>2, <2>6, <3>1 DEF SlotsFollow
  <2>13. seen' = [seen EXCEPT ![c] = s]
    BY <1>1, <1>3
  <2>14. QED
    BY <1>2, <2>3, <2>6, <2>11, <2>12, <2>13, QueryMoves
<1>6. CASE x.waits = FALSE
  <2>1. query' = [query EXCEPT ![c].at = "done"] /\ clients' = clients /\ servers' = servers - 1
    BY <1>6 DEF Stages!Finish, Stages!Release
  <2>2. query' = [query EXCEPT ![c] = [x EXCEPT !.at = "done"]]
    BY <1>3, <2>1
  <2>3. PICK p, q : p = x.outcome /\ q = EndedQuery(x, p)
    OBVIOUS
  <2>4. p \in {"none", "busy", "unavailable"}
    BY <1>2, <2>3 DEF Asking
  <2>5. [x EXCEPT !.at = "done"] = q
    BY <1>2, <1>6, <2>3 DEF Asking, EndedQuery
  <2>6. query' = [query EXCEPT ![c] = q]
    BY <2>2, <2>5
  <2>7. /\ servers' = IF Runs(x) THEN servers - 1 ELSE servers
        /\ clients' = IF x.waits THEN clients - 1 ELSE clients
    BY <1>4, <1>6, <2>1
  <2>8. QED
    BY <2>3, <2>4, <2>6, <2>7, QueryEndKeeps
<1>7. QED
  BY <1>2, <1>5, <1>6

LEMMA ReadLogsKeeps ==
  ASSUME StagesInv, NEW c \in Callers, Stages!ReadLogs(c) PROVE StagesInv'
<1>1. PICK x, a : x = query[c] /\ a = x.ans
  OBVIOUS
<1>2. PICK k : k = Stages!LogQuality(x.ask.epoch)
  OBVIOUS
<1>3. k \in Stages!Qualities
  BY <1>2, QualityKinds DEF Stages!LogQuality
<1>4. x.at = "logs" /\ UNCHANGED seen /\ failures' = failures /\ UNCHANGED Stages!world
  BY <1>1 DEF Stages!ReadLogs
<1>5. WorldStays /\ failures' \in 0 .. MaxFailures
  BY <1>4, FailuresStay
<1>6. PICK b : (b = a \/ b = [a EXCEPT !.logs = k]) /\ Stages!Finish(c, b)
  <2>1. CASE "logs" \in x.ask.include
    BY <1>1, <1>2, <2>1 DEF Stages!ReadLogs, Stages!Ans, Stages!Reads
  <2>2. CASE "logs" \notin x.ask.include
    BY <1>1, <2>2 DEF Stages!ReadLogs, Stages!Ans, Stages!Reads
  <2>3. QED
    BY <2>1, <2>2
<1>7. QED
  BY <1>1, <1>3, <1>4, <1>5, <1>6, FinishKeeps

LEMMA WorldKept == ASSUME UNCHANGED Stages!world PROVE WorldStays
BY DEF Stages!world, WorldStays

LEMMA ReadFailsKeeps ==
  ASSUME StagesInv, NEW c \in Callers, Stages!ReadFails(c) PROVE StagesInv'
<1>1. PICK x, s, a : x = query[c] /\ s = seen[c] /\ a = x.ans
  OBVIOUS
<1>2. /\ failures < MaxFailures /\ failures' = failures + 1
      /\ UNCHANGED seen /\ UNCHANGED Stages!world
  BY DEF Stages!ReadFails
<1>3. failures' \in 0 .. MaxFailures
  BY <1>2, DurableOf, StagesAssumption
<1>4. WorldStays
  BY <1>2, WorldKept
<1>5. CASE /\ x.at \in {"environment", "command", "broker", "consumers"}
           /\ Stages!Release /\ Stages!Answered(c, "busy")
  <2>1. x.at \notin {"idle", "done"} /\ Runs(x)
    BY <1>5 DEF Runs
  <2>2. PICK p \in {"none", "busy", "unavailable"} :
          /\ query' = [query EXCEPT ![c] = EndedQuery(x, p)]
          /\ clients' = IF x.waits THEN clients - 1 ELSE clients
    BY <1>1, <1>5, <2>1, AnsweredIs
  <2>3. PICK q : q = EndedQuery(x, p)
    OBVIOUS
  <2>4. servers' = IF Runs(x) THEN servers - 1 ELSE servers
    BY <1>5, <2>1 DEF Stages!Release
  <2>5. QED
    BY <1>1, <1>2, <1>3, <1>4, <2>1, <2>2, <2>3, <2>4, QueryEndKeeps
<1>6. CASE /\ x.at \in {"fact", "alias", "index"}
           /\ Stages!Step(c, "logs", [Stages!Ans(c) EXCEPT !.visibility = "backend_error"])
           /\ UNCHANGED Stages!pools
  <2>1. PICK b : b = [a EXCEPT !.visibility = "backend_error"]
    OBVIOUS
  <2>2. /\ Stages!Step(c, "logs", b) /\ UNCHANGED <<clients, servers, seen>>
    BY <1>1, <1>2, <1>6, <2>1 DEF Stages!Ans, Stages!pools
  <2>3. x.at \in Chosen /\ "logs" \in Chosen /\ x.at \notin {"idle", "done", "logs"}
    BY <1>6 DEF Chosen
  <2>4. a \in Replies /\ MatchTrue(x, s)
    BY <1>1, <2>3, RunningIs
  <2>5. a.matched = FALSE
    BY <1>1, <2>3, <2>4 DEF MatchTrue, Replies
  <2>6. "backend_error" \in Stages!Qualities
    BY QualityKinds
  <2>7. /\ b.command = a.command /\ b.current = a.current /\ b.broker = a.broker
        /\ b.event = a.event /\ b.row = a.row /\ b.consumers = a.consumers /\ b.matched = FALSE
        /\ b \in Replies
    BY <2>1, <2>4, <2>5, <2>6 DEF Replies
  <2>8. ASSUME NEW q \in Asking, q.at = "logs", q.ans = b, q.ask = x.ask
        PROVE  MatchTrue(q, s)
    BY <2>7, <2>8 DEF MatchTrue
  <2>9. QED
    BY <1>1, <1>3, <1>4, <2>2, <2>3, <2>7, <2>8, LaterStepKeeps
<1>7. CASE /\ x.at = "logs"
           /\ Stages!Finish(c, [Stages!Ans(c) EXCEPT !.logs = "backend_error"])
  <2>1. PICK b, k : b = [a EXCEPT !.logs = k] /\ k = "backend_error"
    OBVIOUS
  <2>2. Stages!Finish(c, b) /\ k \in Stages!Qualities
    BY <1>1, <1>7, <2>1, QualityKinds DEF Stages!Ans
  <2>3. QED
    BY <1>1, <1>2, <1>3, <1>4, <1>7, <2>1, <2>2, FinishKeeps
<1>8. QED
  BY <1>1, <1>5, <1>6, <1>7 DEF Stages!ReadFails, Stages!Adapted

LEMMA GiveUpKeeps ==
  ASSUME StagesInv, NEW c \in Callers, Stages!GiveUp(c) PROVE StagesInv'
<1>1. PICK x, s : x = query[c] /\ s = seen[c]
  OBVIOUS
<1>2. /\ x.at \notin {"idle", "done"} /\ x.waits /\ failures < MaxFailures
      /\ failures' = failures + 1 /\ UNCHANGED seen /\ servers' = servers
      /\ UNCHANGED Stages!world /\ clients' = clients - 1
      /\ query' = [query EXCEPT ![c].waits = FALSE, ![c].outcome = "unavailable"]
  BY <1>1 DEF Stages!GiveUp, Stages!Leave
<1>3. failures' \in 0 .. MaxFailures
  BY <1>2, DurableOf, StagesAssumption
<1>4. WorldStays
  BY <1>2, WorldKept
<1>5. /\ x \in Asking /\ s \in Memories /\ MemoryTrue(s) /\ x.waits \in BOOLEAN /\ x.outcome # "ok"
      /\ EpochTrue(x, s) /\ MatchTrue(x, s) /\ NothingMissed(x, s) /\ ConsumersTrue(x, s)
  BY <1>1, <1>2, RunningIs
<1>6. query \in [Callers -> Resting \cup Asking] /\ seen \in [Callers -> Memories]
  BY DEF StagesInv, StagesTypes
<1>7. PICK q : q = [x EXCEPT !.waits = FALSE, !.outcome = "unavailable"]
  OBVIOUS
<1>8. query' = [query EXCEPT ![c] = q] /\ seen' = [seen EXCEPT ![c] = s]
  BY <1>1, <1>2, <1>6, <1>7
<1>9. /\ q \in Asking /\ q.at = x.at /\ q.waits = FALSE /\ q.outcome = "unavailable"
      /\ q.ans = x.ans /\ q.ask = x.ask
  BY <1>5, <1>7 DEF Asking
<1>10. QueryTrue(q, s) /\ Placed(q)
  <2>1. EpochTrue(q, s)
    BY <1>5, <1>9 DEF EpochTrue
  <2>2. MatchTrue(q, s)
    BY <1>5, <1>9 DEF MatchTrue
  <2>3. NothingMissed(q, s)
    BY <1>5, <1>9 DEF NothingMissed, Past
  <2>4. ConsumersTrue(q, s)
    BY <1>5, <1>9 DEF ConsumersTrue
  <2>5. QED
    BY <1>9, <2>1, <2>2, <2>3, <2>4 DEF QueryTrue, Placed
<1>11. SlotsFollow(x, q)
  <2>1. Runs(q) = Runs(x)
    BY <1>9 DEF Runs
  <2>2. QED
    BY <1>2, <1>5, <1>9, <2>1 DEF SlotsFollow
<1>12. QED
  BY <1>1, <1>3, <1>4, <1>5, <1>8, <1>9, <1>10, <1>11, QueryMoves

LEMMA NoticedKeeps ==
  ASSUME StagesInv, NEW c \in Callers, Stages!Noticed(c) PROVE StagesInv'
<1>1. PICK x : x = query[c]
  OBVIOUS
<1>2. /\ Runs(x) /\ ~x.waits /\ failures' = failures /\ UNCHANGED seen /\ servers' = servers - 1
      /\ UNCHANGED Stages!world /\ clients' = clients
      /\ query' = [query EXCEPT ![c].at = "done"]
  BY <1>1 DEF Stages!Noticed, Stages!Running, Stages!Release, Runs
<1>3. WorldStays /\ failures' \in 0 .. MaxFailures
  BY <1>2, FailuresStay
<1>4. x.at \notin {"idle", "done"}
  BY <1>2 DEF Runs
<1>5. x \in Asking /\ x.waits \in BOOLEAN /\ x.outcome # "ok"
  BY <1>1, <1>4, RunningIs
<1>6. query \in [Callers -> Resting \cup Asking]
  BY DEF StagesInv, StagesTypes
<1>7. query' = [query EXCEPT ![c] = [x EXCEPT !.at = "done"]]
  BY <1>1, <1>2, <1>6
<1>8. PICK p, q : p = x.outcome /\ q = EndedQuery(x, p)
  OBVIOUS
<1>9. p \in {"none", "busy", "unavailable"}
  BY <1>5, <1>8 DEF Asking
<1>10. x.waits = FALSE
  BY <1>2, <1>5
<1>11. [x EXCEPT !.at = "done"] = q
  BY <1>5, <1>8, <1>10 DEF Asking, EndedQuery
<1>12. query' = [query EXCEPT ![c] = q]
  BY <1>7, <1>11
<1>13. /\ servers' = IF Runs(x) THEN servers - 1 ELSE servers
       /\ clients' = IF x.waits THEN clients - 1 ELSE clients
  BY <1>2
<1>14. QED
  BY <1>1, <1>2, <1>3, <1>4, <1>8, <1>9, <1>12, <1>13, QueryEndKeeps

-----------------------------------------------------------------------------
LEMMA StagesNextKeeps == StagesInv /\ [Stages!Next]_stageVars => StagesInv'
<1> SUFFICES ASSUME StagesInv, [Stages!Next]_stageVars PROVE StagesInv'
  OBVIOUS
<1>1. CASE Stages!World
  BY <1>1, WorldKeeps
<1>2. ASSUME NEW c \in Callers, Stages!Ask(c) \/ Stages!ReadFails(c) \/ Stages!GiveUp(c)
      PROVE  StagesInv'
  BY <1>2, QueryAskKeeps, ReadFailsKeeps, GiveUpKeeps
<1>3. ASSUME NEW c \in Callers, Stages!Advance(c) PROVE StagesInv'
  BY <1>3, AdmitKeeps, ReadEnvironmentKeeps, ReadCommandKeeps, ReadBrokerKeeps,
     ReadConsumersKeeps, ChooseKeeps, ReadFactKeeps, ReadAliasKeeps, SearchExactKeeps,
     ReadLogsKeeps, NoticedKeeps DEF Stages!Advance
<1>4. CASE UNCHANGED stageVars
  <2>1. /\ UNCHANGED clients /\ UNCHANGED servers /\ UNCHANGED query /\ UNCHANGED seen
        /\ UNCHANGED epoch /\ UNCHANGED durable /\ UNCHANGED revision /\ UNCHANGED applied
        /\ UNCHANGED searchable /\ UNCHANGED alias /\ UNCHANGED failures
    BY <1>4 DEF stageVars
  <2>2. QueriesStay
    BY <2>1 DEF QueriesStay
  <2>3. Onward
    <3>1. /\ applied \in [1 .. MaxEpoch -> 0 .. MaxRevision] /\ revision \in 0 .. MaxRevision
          /\ epoch \in 1 .. MaxEpoch
      BY DurableOf
    <3>2. \A e \in 1 .. MaxEpoch : applied[e] <= applied[e]
      BY <3>1
    <3>3. WorldAgrees'
      BY <2>1 DEF StagesInv, WorldAgrees
    <3>4. QED
      BY <2>1, <3>1, <3>2, <3>3 DEF Onward, StagesInv, StagesTypes
  <2>4. QED
    BY <2>2, <2>3, OnwardKeeps
<1>5. QED
  BY <1>1, <1>2, <1>3, <1>4 DEF Stages!Next

LEMMA StagesStep == StagesInv /\ [AllNext]_allVars => StagesInv'
<1> SUFFICES ASSUME StagesInv, [AllNext]_allVars PROVE StagesInv'
  OBVIOUS
<1>1. Stages!Next \/ UNCHANGED stageVars
  BY DEF AllNext, allVars, StagesNext
<1>2. QED
  BY <1>1, StagesNextKeeps

\* What the answers of the stages say, of what the invariant knows of queries.
LEMMA StagesAreSafe == StagesInv => StagesSafe
<1> SUFFICES ASSUME StagesInv PROVE StagesSafe
  OBVIOUS
<1>1. ASSUME NEW c \in Callers, Stages!Answer(c)
      PROVE  /\ query[c] \in Asking /\ QueryTrue(query[c], seen[c]) /\ query[c].at = "done"
             /\ query[c].outcome = "ok" /\ seen[c] \in Memories /\ MemoryTrue(seen[c])
             /\ query[c].ans \in Replies /\ query[c].ask.epoch \in 1 .. MaxEpoch
  <2>1. query[c] \in Resting \cup Asking /\ seen[c] \in Memories
        /\ query[c].at = "done" /\ query[c].outcome = "ok"
    BY <1>1 DEF StagesInv, StagesTypes, Stages!Answer
  <2>2. query[c] \in Asking
    BY <2>1, RestingCallers
  <2>3. QueryTrue(query[c], seen[c]) /\ MemoryTrue(seen[c])
    BY <2>2 DEF StagesInv, QueriesTrue
  <2>4. QED
    BY <2>1, <2>2, <2>3 DEF Asking, Stages!Queries, Stages!Epochs
<1>2. Stages!KnownIsCurrent
  <2> SUFFICES ASSUME NEW c \in Callers, Stages!Answer(c),
                      NEW x, x = query[c], NEW s, s = seen[c]
               PROVE  /\ x.ans.command = "known" => x.ask.epoch = 1 /\ s.env <= x.ask.epoch
                      /\ x.ans.broker = "known" =>
                           ~durable.legacy /\ x.ask.epoch = 1 /\ s.env <= x.ask.epoch
                      /\ \A k \in x.ans.consumers : k.quality = "known" => s.env <= x.ask.epoch
    BY DEF Stages!KnownIsCurrent, Stages!Ans, Stages!Reads
  <2>1. EpochTrue(x, s) /\ x.ask.epoch \in 1 .. MaxEpoch
    BY <1>1 DEF QueryTrue
  <2>2. QED
    BY <2>1 DEF EpochTrue
<1>3. Stages!MatchIsEarned
  <2> SUFFICES ASSUME NEW c \in Callers, Stages!Answer(c),
                      NEW x, x = query[c], NEW s, s = seen[c], x.ans.matched
               PROVE  /\ x.ans.visibility = "known" /\ x.ans.current = x.ask.epoch
                      /\ x.ans.generation = x.ask.epoch
                      /\ x.ans.fact >= s.rev /\ applied[x.ask.epoch] >= x.ans.fact
    BY DEF Stages!MatchIsEarned, Stages!Ans, Stages!Reads
  <2>1. MatchTrue(x, s) /\ x.ans \in Replies /\ s \in Memories /\ x.ask.epoch \in 1 .. MaxEpoch
    BY <1>1 DEF QueryTrue
  <2>2. s.rev \in Int /\ x.ans.fact \in Int /\ applied[x.ask.epoch] \in Int
    <3>1. applied[x.ask.epoch] \in 0 .. MaxRevision
      BY <2>1, DurableOf
    <3>2. QED
      BY <2>1, <3>1 DEF Replies, Memories
  <2>3. QED
    BY <2>1, <2>2 DEF MatchTrue
<1>4. Stages!NothingOverlooked
  <2> SUFFICES ASSUME NEW c \in Callers, Stages!Answer(c),
                      NEW x, x = query[c], NEW s, s = seen[c], x.ask.epoch = 1
               PROVE  /\ "command" \in s.rows \cap Stages!Rows =>
                           x.ans.command \in {"known", "stale_epoch", "expired"}
                      /\ "outbox" \in s.rows \cap Stages!Rows /\ x.ans.event => x.ans.row # "none"
                      /\ "need" \in s.rows \cap Stages!Rows /\ x.ans.event => x.ans.consumers # {}
    BY DEF Stages!NothingOverlooked, Stages!Ans, Stages!Reads
  <2>1. NothingMissed(x, s) /\ x.at = "done" /\ x.outcome = "ok"
    BY <1>1 DEF QueryTrue
  <2>2. /\ "command" \in Stages!Rows => durable.command # "gone"
        /\ "outbox" \in Stages!Rows => durable.outbox # "gone"
        /\ "need" \in Stages!Rows => durable.need # "gone"
    BY DEF Stages!Rows
  <2>3. QED
    BY <2>1, <2>2 DEF NothingMissed, Past
<1>5. Stages!PendingMeansOpen
  <2> SUFFICES ASSUME NEW c \in Callers, Stages!Answer(c),
                      NEW x, x = query[c], NEW s, s = seen[c]
               PROVE  \A k \in x.ans.consumers :
                        /\ k.status = "pending" => "result" \notin s.rows
                        /\ k.status = "completed" => durable.need \in {"closed", "gone"}
    BY DEF Stages!PendingMeansOpen, Stages!Ans
  <2>1. ConsumersTrue(x, s)
    BY <1>1 DEF QueryTrue
  <2>2. QED
    BY <2>1 DEF ConsumersTrue
<1>6. QED
  BY <1>2, <1>3, <1>4, <1>5, StagesTypeCorrect DEF StagesInv, StagesSafe

\* The inductive invariant of StageQueries holds in every behaviour.
THEOREM StagesInvariant == AllSpec => []StagesInv
<1>1. AllInit => StagesInv
  BY StagesStart DEF AllInit
<1>2. QED
  BY <1>1, StagesStep, PTL DEF AllSpec

\* Whatever is published, applied, cleaned up, edited or restored while a query reads: what
\* it calls known is of an epoch current since it began, a match is of the index and the
\* revision of the asked epoch, nothing there from beginning to end is called absent, and
\* slots are exact on both sides whoever gives up first (query.go).
THEOREM StagesStaySafe == AllSpec => []StagesSafe
BY StagesInvariant, StagesAreSafe, PTL

\* The same of StageQueries itself: with any number of callers, epochs, revisions and
\* failures at once, and without the end of its behaviours at the last answer.
THEOREM StageQueriesSafe == Stages!Spec => []StagesSafe
<1>1. Stages!Init => StagesInv
  BY StagesStart
<1>2. StagesInv /\ [Stages!Next]_Stages!vars => StagesInv'
  BY StagesNextKeeps DEF Stages!vars, stageVars
<1>3. QED
  BY <1>1, <1>2, StagesAreSafe, PTL DEF Stages!Spec
=============================================================================
