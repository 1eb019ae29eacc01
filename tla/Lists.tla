------------------------------- MODULE Lists -------------------------------
(***************************************************************************)
(* The paged lists that MySQL answers: posts of everybody, of an author,   *)
(* of the authors one follows, bookmarks, comments, notifications, follow  *)
(* relations, users by name, the audit trail, alert rules and incidents.   *)
(* A page names the row where the next one begins (a keyset cursor, no     *)
(* offset), while rows come, go and move between two pages.                *)
(*                                                                         *)
(* A row is what its list sorts by: the time, a rank, the id.              *)
(***************************************************************************)
EXTENDS Integers, Sequences, FiniteSets, SequencesExt

CONSTANTS Kinds,       \* the lists to walk
          Ids,         \* rows
          Limits,      \* page sizes a client asks for
          MaxChanges   \* bound: changes of the rows

VARIABLES list,   \* the list that the client walks
          rows,   \* id -> its row
          now,    \* the clock, advanced by every change
          walk    \* the client

vars == <<list, rows, now, walk>>

\* Lists of posts, one statement with optional conditions.
Feeds == {"posts", "author", "following"}
Newest == Feeds \cup {"bookmarks", "notifications", "relations", "history"}
ById == {"comments", "audit", "rules"}
\* Lists whose cursor is the whole query, page size included.
Whole == {"audit", "rules", "current", "history"}
\* Lists whose cursor is signed: for its owner, or for its search text.
Signed == Whole \cup {"bookmarks", "users"}
AllKinds == Newest \cup ById \cup {"users", "current"}

NoCursor == [id |-> 0, at |-> 0, rank |-> 0]
Start == [st |-> "idle", after |-> NoCursor, limit |-> 0, end |-> 0, seen |-> <<>>, steady |-> {}]

Present == {i \in Ids : rows[i].in}
Row(i) == [id |-> i, at |-> rows[i].at, rank |-> rows[i].rank]

Init ==
  /\ list \in Kinds
  /\ now = 2
  /\ rows \in [Ids -> [in : BOOLEAN, at : 1 .. 2, rank : 0 .. IF list = "users" THEN 2 ELSE IF list = "current" THEN 1 ELSE 0]]
  /\ walk = Start

-----------------------------------------------------------------------------
(* The statements                                                           *)

\* ORDER BY
Order(a, b) ==
  CASE list \in Newest -> a.at > b.at \/ (a.at = b.at /\ a.id > b.id)
    [] list \in ById -> a.id > b.id
    [] list = "users" -> a.rank < b.rank \/ (a.rank = b.rank /\ a.id < b.id)
    [] list = "current" -> \/ a.rank > b.rank
                           \/ a.rank = b.rank /\ (a.at < b.at \/ (a.at = b.at /\ a.id < b.id))

\* WHERE, of lists sorted by time.
OlderThan(c, r) == r.at < c.at \/ (r.at = c.at /\ r.id < c.id)
\* As it would be if two rows never shared a microsecond.
OlderThanTime(c, r) == r.at < c.at
\* WHERE, of the others.
Beneath(c, r) == r.id < c.id
RankedAfter(c, r) == r.rank > c.rank \/ (r.rank = c.rank /\ r.id > c.id)
LessUrgent(c, r) ==
  \/ r.rank < c.rank
  \/ r.rank = c.rank /\ (r.at > c.at \/ (r.at = c.at /\ r.id > c.id))

Beyond(c, r) ==
  \/ c = NoCursor
  \/ CASE list \in Newest -> OlderThan(c, r)
       [] list \in ById -> Beneath(c, r)
       [] list = "users" -> RankedAfter(c, r)
       [] list = "current" -> LessUrgent(c, r)

\* The audit trail and the history end when their first page was asked for.
Within(end, r) == list \in {"audit", "history"} => r.at <= end

\* At most limit + 1 rows, so that the page knows whether another one follows.
Select(c, end, limit) ==
  LET found == {r \in {Row(i) : i \in Present} : Beyond(c, r) /\ Within(end, r)}
      sorted == SetToSortSeq(found, Order)
  IN SubSeq(sorted, 1, IF Len(sorted) > limit THEN limit + 1 ELSE Len(sorted))

\* The cursor is the last row of the page.
BoundaryOf(r) ==
  CASE list \in ById -> [NoCursor EXCEPT !.id = r.id]
    [] list = "users" -> [NoCursor EXCEPT !.id = r.id, !.rank = r.rank]
    [] OTHER -> r
\* Bookmarks go on by the time of the bookmark.
Boundary(r) == BoundaryOf(r)
\* As it would be if they went on from the post's own time (its id).
BoundaryOfPost(r) == IF list = "bookmarks" THEN [r EXCEPT !.at = r.id] ELSE BoundaryOf(r)

-----------------------------------------------------------------------------
(* The client                                                               *)

\* What the handler answers to a client that has seen so much.
Page(c, end, limit, seen, steady) ==
  LET records == Select(c, end, limit)
      more == Len(records) > limit
      page == SubSeq(records, 1, IF more THEN limit ELSE Len(records))
  IN walk' = [st |-> IF more THEN "going" ELSE "done", limit |-> limit, end |-> end,
              after |-> IF more THEN Boundary(Last(page)) ELSE NoCursor,
              seen |-> seen \o page, steady |-> steady]

First(limit) ==
  /\ walk.st = "idle"
  /\ Page(NoCursor, now, limit, <<>>, Present)
  /\ UNCHANGED <<list, rows, now>>

\* The comments of a post whose author deleted it.
Gone == list = "comments" /\ Present = {}

\* An answer that is lost is asked for again with the same cursor.
Continue(limit) ==
  /\ walk.st = "going"
  /\ list \in Whole => limit = walk.limit
  /\ IF Gone THEN walk' = [walk EXCEPT !.st = "not found"]
     ELSE Page(walk.after, walk.end, limit, walk.seen, walk.steady)
  /\ UNCHANGED <<list, rows, now>>

\* Of a comment the cursor tells the id, of the others the time too; unknown fields are refused.
Shape == IF list \in ById THEN "id" ELSE "time"

\* The cursor of another walk: of another viewer or text, refused where cursors are signed,
\* and otherwise a place in this list like any other, if it has the right fields.
Elsewhere(shape, c) ==
  /\ walk.st = "going"
  /\ walk' = IF list \in Signed \/ shape # Shape THEN [walk EXCEPT !.st = "refused"]
             ELSE [walk EXCEPT !.after = c, !.seen = <<>>, !.steady = {}]
  /\ UNCHANGED <<list, rows, now>>

-----------------------------------------------------------------------------
(* Everybody else                                                           *)

Touch(i, row) ==
  /\ now <= MaxChanges + 1 /\ now' = now + 1
  /\ rows' = [rows EXCEPT ![i] = row]
  /\ walk' = [walk EXCEPT !.steady = @ \ {i}]
  /\ UNCHANGED list

\* A row is committed, perhaps after one with a later time or id; a notification has the
\* time of its event, a feed gains the old posts of an author.
Appear(i, at, rank) ==
  /\ ~rows[i].in /\ at <= now
  /\ list \in {"history", "audit"} => at = now
  /\ Touch(i, [in |-> TRUE, at |-> at, rank |-> rank])

\* Deleted, unfollowed, recovered; the audit trail and the incidents are kept.
Vanish(i) ==
  /\ rows[i].in /\ list \notin {"audit", "history"}
  /\ Touch(i, [rows[i] EXCEPT !.in = FALSE])

\* A user takes another name and matches the text better or worse.
Rename(i, rank) ==
  /\ list = "users" /\ rows[i].in /\ rank # rows[i].rank
  /\ Touch(i, [rows[i] EXCEPT !.rank = rank])

DeletePost ==
  /\ list = "comments" /\ now <= MaxChanges + 1 /\ now' = now + 1
  /\ rows' = [i \in Ids |-> [rows[i] EXCEPT !.in = FALSE]]
  /\ walk' = [walk EXCEPT !.steady = {}]
  /\ UNCHANGED list

Ranks == IF list = "users" THEN 0 .. 2 ELSE IF list = "current" THEN 0 .. 1 ELSE {0}

Next ==
  \/ \E limit \in Limits : First(limit)
  \/ \E limit \in Limits : Continue(limit)
  \/ \E shape \in {"id", "time"}, c \in {[id |-> 2, at |-> 1, rank |-> 0]} : Elsewhere(shape, c)
  \/ \E i \in Ids, at \in 1 .. now, rank \in Ranks : Appear(i, at, rank)
  \/ \E i \in Ids : Vanish(i)
  \/ \E i \in Ids, rank \in 0 .. 2 : Rename(i, rank)
  \/ DeletePost

Spec == Init /\ [][Next]_vars

-----------------------------------------------------------------------------
(* Properties                                                               *)

TypeOK ==
  /\ list \in Kinds /\ Kinds \subseteq AllKinds
  /\ walk.st \in {"idle", "going", "done", "refused", "not found"}
  /\ walk.steady \subseteq Ids

\* Pages join in order: whatever happened between them, no row comes after one it precedes,
\* so that a row is shown twice only if it moved down in the meantime.
PagesInOrder == \A k \in 1 .. Len(walk.seen) - 1 : Order(walk.seen[k], walk.seen[k + 1])

\* A row that stayed where it was from the first page to the last is shown, exactly once,
\* however rows around it came, went or moved, or page sizes changed.
SteadyRowsShown ==
  /\ walk.st = "done" => \A i \in {j \in walk.steady : Within(walk.end, Row(j))} :
                           \E k \in 1 .. Len(walk.seen) : walk.seen[k].id = i
  /\ \A i \in walk.steady : Cardinality({k \in 1 .. Len(walk.seen) : walk.seen[k].id = i}) <= 1

=============================================================================
