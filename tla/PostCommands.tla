---------------------------- MODULE PostCommands ----------------------------
(***************************************************************************)
(* Writing posts: the retryable create command, edits and deletions as     *)
(* MySQL transactions under READ COMMITTED, the environment row that every *)
(* writer locks in share mode, activation of contract v2, and the restore  *)
(* that moves to a new epoch and fails every writer until it is ready.     *)
(*                                                                         *)
(* A transaction's statements are separate steps, its rows become visible  *)
(* at commit, and locks are held until then.  A commit may fail before or  *)
(* after it took effect, and a client sends the same command again.        *)
(***************************************************************************)
EXTENDS Naturals, FiniteSets

CONSTANTS Txs,          \* transactions that can be open at once
          Clients,      \* each holds one idempotency key
          Digests,      \* digests of the contents a client may send
          MaxOpen,      \* OpenRequirements, the limit of the async budget
          MaxCommands,  \* bound: post facts committed
          MaxRevision,  \* bound: revisions of a post
          MaxEpochs,    \* bound: epochs
          MaxFaults     \* bound: commits whose answer is lost, failed lookups

VARIABLES
  env,        \* business_environment: epoch, status, mode
  posts,      \* the revision of each post, 0 without a row
  commands,   \* business_commands: [epoch, key, digest, post]
  events,     \* outbox rows of schema v2: [epoch, post, rev, op]
  needs,      \* business_event_requirements that are open, as their events
  open,       \* business_async_budget: open_requirements by epoch
  legacy,     \* outbox rows of schema v1 that are not published
  tx,         \* transactions: step, operation and the rows they hold
  told,       \* identities that answers gave: [epoch, key, digest, post]
  faults

vars == <<env, posts, commands, events, needs, open, legacy, tx, told, faults>>

Numbers == 1..MaxCommands
Epochs == 1..MaxEpochs
NoKey == "no key"
Gone == 0

Idle == [at |-> "idle", op |-> "none", epoch |-> 0, key |-> NoKey, digest |-> 0,
         post |-> 0, rev |-> 0]

Init ==
  /\ env \in {[epoch |-> 1, ready |-> TRUE, mode |-> m] : m \in {"legacy", "v2"}}
  /\ posts = [n \in Numbers |-> Gone]
  /\ commands = {} /\ events = {} /\ needs = {}
  /\ open = [e \in Epochs |-> 0]
  /\ legacy \in IF env.mode = "legacy" THEN {0, 1} ELSE {0}
  /\ tx = [t \in Txs |-> Idle]
  /\ told = {}
  /\ faults = 0

Fault == faults < MaxFaults /\ faults' = faults + 1

-----------------------------------------------------------------------------
(* Locks.                                                                   *)

Live == {t \in Txs : tx[t].at # "idle"}

\* As it would be if the row were read without a lock.
RowHeldNever(n, t) == FALSE

RowHeld(n, t) == \E u \in Live \ {t} : tx[u].post = n
KeyHeld(key, e, t) == \E u \in Live \ {t} : /\ tx[u].key = key /\ tx[u].epoch = e
                                            /\ tx[u].at \in {"event", "account", "commit"}

\* As it would be if the counter were read without a lock.
BudgetHeldNever(t) == FALSE

BudgetHeld(t) == \E u \in Live \ {t} : tx[u].at = "commit"

Used == {e.post : e \in events} \cup {tx[t].post : t \in Live}
Found(e, key) == {c \in commands : c.epoch = e /\ c.key = key}

-----------------------------------------------------------------------------
(* Create, CreateWithCommand.                                               *)

\* An answer with the identity of a post; every error told without one.
Told(c, digest, n) ==
  told' = told \cup {[epoch |-> env.epoch, key |-> c, digest |-> digest, post |-> n]}

\* Replay: the command found told if it is the same content; else the key
\* conflicts.  The step that reads it can fail: the outcome is unknown.
Replay(c, digest, found) ==
  \/ found.digest = digest /\ Told(c, digest, found.post) /\ UNCHANGED faults
  \/ found.digest # digest /\ UNCHANGED <<told, faults>>
  \/ Fault /\ UNCHANGED told

\* LockCurrentTx, the checks of mode and epoch, and FindCommandTx: a shared lock on
\* the environment row; the lookup waits for a transaction that inserted the key.
\* A command of another epoch, or before activation, is refused here.
Begin(t, c, digest) ==
  /\ tx[t] = Idle /\ env.ready /\ env.mode = "v2"
  /\ ~KeyHeld(c, env.epoch, t)
  /\ IF Found(env.epoch, c) # {}
       THEN /\ Replay(c, digest, CHOOSE x \in Found(env.epoch, c) : TRUE)
            /\ UNCHANGED tx
       ELSE /\ tx' = [tx EXCEPT ![t] = [Idle EXCEPT !.at = "post", !.op = "create",
                                          !.key = c, !.epoch = env.epoch, !.digest = digest]]
            /\ UNCHANGED <<told, faults>>
  /\ UNCHANGED <<env, posts, commands, events, needs, open, legacy>>

\* createPost: a new row, seen by nobody until the commit.
InsertPost(t) ==
  /\ tx[t].at = "post"
  /\ \E n \in Numbers \ Used :
       /\ \A m \in Numbers \ Used : n <= m
       /\ tx' = [tx EXCEPT ![t].at = "reserve", ![t].post = n, ![t].rev = 1]
  /\ UNCHANGED <<env, posts, commands, events, needs, open, legacy, told, faults>>

\* As it would be without the unique key.
ReserveAlways(t) ==
  /\ tx[t].at = "reserve"
  /\ tx' = [tx EXCEPT ![t].at = "event"]
  /\ UNCHANGED <<env, posts, commands, events, needs, open, legacy, told, faults>>

\* ReservePostCreateTx: the unique key waits for another transaction's row, and
\* refuses a committed one; then this transaction rolls back and reads the winner
\* on another connection, which can fail.
Reserve(t) ==
  /\ tx[t].at = "reserve" /\ ~KeyHeld(tx[t].key, tx[t].epoch, t)
  /\ IF Found(tx[t].epoch, tx[t].key) = {}
       THEN /\ tx' = [tx EXCEPT ![t].at = "event"]
            /\ UNCHANGED <<told, faults>>
       ELSE /\ tx' = [tx EXCEPT ![t] = Idle]
            /\ Replay(tx[t].key, tx[t].digest,
                      CHOOSE x \in Found(tx[t].epoch, tx[t].key) : TRUE)
  /\ UNCHANGED <<env, posts, commands, events, needs, open, legacy>>

\* insertOutbox; for an edit or a deletion also the requirement's row.
InsertEvent(t) ==
  /\ tx[t].at = "event"
  /\ tx' = [tx EXCEPT ![t].at = "account"]
  /\ UNCHANGED <<env, posts, commands, events, needs, open, legacy, told, faults>>

\* As it would be if a writer waited for room with its locks held.
AccountWaits(t) ==
  /\ tx[t].at = "account" /\ ~BudgetHeld(t) /\ open[tx[t].epoch] < MaxOpen
  /\ tx' = [tx EXCEPT ![t].at = "commit"]
  /\ UNCHANGED <<env, posts, commands, events, needs, open, legacy, told, faults>>

\* AccountPostCreateTx, RegisterRequirementTx: the budget rows are locked until the
\* commit; a full budget rolls everything back.
Account(t) ==
  /\ tx[t].at = "account" /\ ~BudgetHeld(t)
  /\ IF open[tx[t].epoch] >= MaxOpen
       THEN tx' = [tx EXCEPT ![t] = Idle]
       ELSE tx' = [tx EXCEPT ![t].at = "commit"]
  /\ UNCHANGED <<env, posts, commands, events, needs, open, legacy, told, faults>>

\* As it would be if the event were not of the transaction.
ApplyWithoutEvent(t) ==
  LET x == tx[t]
      e == [epoch |-> x.epoch, post |-> x.post, rev |-> x.rev, op |-> x.op]
  IN /\ posts' = [posts EXCEPT ![x.post] = IF x.op = "delete" THEN Gone ELSE x.rev]
     /\ commands' = commands /\ events' = events /\ needs' = needs \cup {e}
     /\ open' = [open EXCEPT ![x.epoch] = @ + 1]

\* The rows of the transaction appear together.
Apply(t) ==
  LET x == tx[t]
      e == [epoch |-> x.epoch, post |-> x.post, rev |-> x.rev, op |-> x.op]
  IN /\ posts' = [posts EXCEPT ![x.post] = IF x.op = "delete" THEN Gone ELSE x.rev]
     /\ commands' = IF x.op = "create"
                    THEN commands \cup {[epoch |-> x.epoch, key |-> x.key,
                                         digest |-> x.digest, post |-> x.post]}
                    ELSE commands
     /\ events' = events \cup {e} /\ needs' = needs \cup {e}
     /\ open' = [open EXCEPT ![x.epoch] = @ + 1]

\* Commit succeeds; or its answer is lost, with or without effect, and the client of a
\* keyed command is told what a lookup on another connection finds, if that works.
Commit(t) ==
  /\ tx[t].at = "commit"
  /\ tx' = [tx EXCEPT ![t] = Idle]
  /\ \/ /\ Apply(t)
        /\ IF tx[t].op = "create" THEN Told(tx[t].key, tx[t].digest, tx[t].post)
                                  ELSE UNCHANGED told
        /\ UNCHANGED faults
     \/ /\ Fault /\ Apply(t)
        /\ \/ tx[t].op = "create" /\ Told(tx[t].key, tx[t].digest, tx[t].post)
           \/ UNCHANGED told
     \/ /\ Fault
        /\ UNCHANGED <<posts, commands, events, needs, open, told>>
  /\ UNCHANGED <<env, legacy>>

-----------------------------------------------------------------------------
(* Edits and deletions.                                                     *)

\* Update, Delete: mutationEpoch, then the post's row is locked for update and its
\* revision moves on; a post that is gone ends the transaction.
Change(t, n, op) ==
  /\ tx[t] = Idle /\ env.ready /\ env.mode = "v2"
  /\ posts[n] # Gone /\ posts[n] < MaxRevision /\ ~RowHeld(n, t)
  /\ tx' = [tx EXCEPT ![t] = [Idle EXCEPT !.at = "event", !.op = op, !.epoch = env.epoch,
                                          !.post = n, !.rev = posts[n] + 1]]
  /\ UNCHANGED <<env, posts, commands, events, needs, open, legacy, told, faults>>

-----------------------------------------------------------------------------
(* The environment.                                                         *)

\* A process started without v2 commits a v1 row: it does not read the environment, so
\* this may come after the count of ActivateV2 as well.
LegacyWrite ==
  /\ legacy < 1
  /\ legacy' = legacy + 1
  /\ UNCHANGED <<env, posts, commands, events, needs, open, tx, told, faults>>

LegacyPublished ==
  /\ legacy > 0 /\ legacy' = legacy - 1
  /\ UNCHANGED <<env, posts, commands, events, needs, open, tx, told, faults>>

\* ActivateV2: the environment row is locked exclusively and v1 rows are drained.
ActivateV2 ==
  /\ env.mode = "legacy" /\ env.ready /\ legacy = 0 /\ Live = {}
  /\ env' = [env EXCEPT !.mode = "v2"]
  /\ UNCHANGED <<posts, commands, events, needs, open, legacy, tx, told, faults>>

\* As it would be if the status were changed without the lock.
BeginRestoreAtOnce ==
  /\ env.ready /\ env.epoch < MaxEpochs
  /\ env' = [env EXCEPT !.epoch = @ + 1, !.ready = FALSE]
  /\ UNCHANGED <<posts, commands, events, needs, open, legacy, tx, told, faults>>

\* BeginRestore: the exclusive lock waits for every writer that holds the shared one.
BeginRestore ==
  /\ env.ready /\ Live = {} /\ env.epoch < MaxEpochs
  /\ env' = [env EXCEPT !.epoch = @ + 1, !.ready = FALSE]
  /\ UNCHANGED <<posts, commands, events, needs, open, legacy, tx, told, faults>>

\* MarkReady, after search was indexed again; facts keep their rows.
MarkReady ==
  /\ ~env.ready
  /\ env' = [env EXCEPT !.ready = TRUE]
  /\ UNCHANGED <<posts, commands, events, needs, open, legacy, tx, told, faults>>

\* search-indexer settles a requirement and gives its place back.
Settle ==
  /\ \E e \in needs : /\ needs' = needs \ {e}
                      /\ open' = [open EXCEPT ![e.epoch] = @ - 1]
  /\ UNCHANGED <<env, posts, commands, events, legacy, tx, told, faults>>

Statement(t) == InsertPost(t) \/ Reserve(t) \/ InsertEvent(t) \/ Account(t) \/ Commit(t)
Environment == LegacyWrite \/ LegacyPublished \/ ActivateV2 \/ BeginRestore \/ MarkReady

Next ==
  \/ \E t \in Txs : \/ \E c \in Clients, d \in Digests : Begin(t, c, d)
                    \/ \E n \in Numbers, op \in {"update", "delete"} : Change(t, n, op)
                    \/ Statement(t)
  \/ Environment \/ Settle

Spec == Init /\ [][Next]_vars

Fairness == \A t \in Txs : WF_vars(Statement(t))
-----------------------------------------------------------------------------
Ops == {"create", "update", "delete"}
Facts == [epoch : Epochs, post : Numbers, rev : 1..MaxRevision, op : Ops]

TypeOK ==
  /\ env \in [epoch : Epochs, ready : BOOLEAN, mode : {"legacy", "v2"}]
  /\ posts \in [Numbers -> 0..MaxRevision]
  /\ commands \subseteq [epoch : Epochs, key : Clients, digest : Digests, post : Numbers]
  /\ events \subseteq Facts /\ needs \subseteq events
  /\ open \in [Epochs -> Nat] /\ legacy \in 0..1 /\ faults \in 0..MaxFaults
  /\ tx \in [Txs -> [at : {"idle", "post", "reserve", "event", "account", "commit"},
                      op : Ops \cup {"none"}, epoch : 0..MaxEpochs, key : Clients \cup {NoKey},
                      digest : Digests \cup {0}, post : 0..MaxCommands, rev : 0..MaxRevision]]

\* However often a client sends a command again, and whatever was lost, one key makes
\* one post in an epoch, and the answer of every attempt speaks of that post.
OncePerKey ==
  /\ \A c, d \in commands : c.epoch = d.epoch /\ c.key = d.key => c = d
  /\ told \subseteq commands

\* Search can rebuild a post from its events: revisions are never used twice, and the
\* last event of a post agrees with its row.
EventsTellThePost ==
  /\ \A e, f \in events : e.post = f.post /\ e.rev = f.rev => e = f
  /\ \A e \in events : (\A f \in events : f.post = e.post => f.rev <= e.rev) =>
       posts[e.post] = IF e.op = "delete" THEN Gone ELSE e.rev

\* The shared counter is the number of open requirements, within its limit, although
\* writers check it and charge it in different statements.
OpenExact ==
  \A e \in Epochs : /\ open[e] = Cardinality({n \in needs : n.epoch = e})
                     /\ open[e] <= MaxOpen

\* A restore cannot race a writer: an event is committed only in the epoch of the
\* environment, while it is ready and in mode v2.
CommitsInEpoch ==
  \A e \in events' \ events : env.ready /\ env.mode = "v2" /\ e.epoch = env.epoch
EpochFence == [][CommitsInEpoch]_vars

\* No transaction waits for ever: the locks are taken in one order.
WritersEnd == \A t \in Txs : (tx[t].at # "idle") ~> (tx[t].at = "idle")
=============================================================================
