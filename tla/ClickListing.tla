----------------------------- MODULE ClickListing -----------------------------
(***************************************************************************)
(* The clicks of one slug: recorded by forwards, removed with their link,  *)
(* and read page by page by a client that follows next_cursor.             *)
(*                                                                         *)
(* A request for a page is two statements, the link by its slug and the    *)
(* clicks by the link's id, each under READ COMMITTED; between any two     *)
(* requests, and between the two statements of one, clicks are committed   *)
(* and the slug can change hands.                                          *)
(***************************************************************************)
EXTENDS Naturals, FiniteSets

CONSTANTS
  Users,
  Client,    \* the user who lists the clicks
  LinkIds,   \* links.id
  ClickIds,  \* clicks.id, random and ordered
  Times,     \* what the clock says: timestamps tie, and the clock can be set back
  MaxLimit,  \* the largest limit a request may ask for
  Null

ASSUME OrderAssumption ==
  /\ ClickIds \subseteq Nat
  /\ Times \subseteq Nat
  /\ MaxLimit \in Nat
  /\ Client \in Users

Click == [id: ClickIds, time: Times, link: LinkIds]
Link == [id: LinkIds, user: Users]

ASSUME NullAssumption == Null \notin LinkIds \cup Click \cup Link

VARIABLES
  link,       \* the row with the slug, or Null
  clicks,     \* the committed clicks
  inserting,  \* the clicks inserted by transactions still open
  pc,         \* where the client's request is
  loaded,     \* the id of the link the request found
  cursor,     \* the cursor the client has to send, or Null
  page,       \* the clicks of the last answer
  earlier,    \* those of the answers before it
  began       \* the clicks there were when the client asked for its first page

rows == <<link, clicks, inserting>>
client == <<pc, loaded, cursor, page, earlier, began>>
vars == <<rows, client>>

TypeOK ==
  /\ link \in Link \cup {Null}
  /\ clicks \subseteq Click /\ inserting \subseteq Click
  /\ pc \in {"resting", "load", "list", "not_found", "forbidden"}
  /\ loaded \in LinkIds \cup {Null}
  /\ cursor \in Click \cup {Null}
  /\ page \subseteq Click /\ earlier \subseteq Click /\ began \subseteq Click

Init ==
  /\ link = Null /\ clicks = {} /\ inserting = {}
  /\ pc = "resting" /\ loaded = Null /\ cursor = Null
  /\ page = {} /\ earlier = {} /\ began = {}
-------------------------------------------------------------------------------
(* Links and clicks. *)

\* Random ids do not recur while anyone remembers them.
Remembered == clicks \cup inserting \cup page \cup earlier \cup began

CreateLink(l, u) ==
  /\ link = Null
  /\ \A c \in Remembered : c.link # l
  /\ loaded # l
  /\ link' = [id |-> l, user |-> u]
  /\ UNCHANGED <<clicks, inserting, client>>

\* DELETE of the link, or of its owner, takes the clicks along.  It waits for
\* the transactions that have inserted a click of the link.
DeleteLink ==
  /\ link # Null
  /\ \A c \in inserting : c.link # link.id
  /\ clicks' = {c \in clicks : c.link # link.id}
  /\ link' = Null
  /\ UNCHANGED <<inserting, client>>

\* INSERT: the foreign key requires the link, the timestamp is taken now and
\* not at the commit, so that clicks can become visible out of order.
RecordClick(i, t) ==
  /\ link # Null
  /\ \A c \in Remembered : c.id # i
  /\ inserting' = inserting \cup {[id |-> i, time |-> t, link |-> link.id]}
  /\ UNCHANGED <<link, clicks, client>>

CommitClick(c) ==
  /\ c \in inserting
  /\ inserting' = inserting \ {c}
  /\ clicks' = clicks \cup {c}
  /\ UNCHANGED <<link, client>>

\* The request fails, or is cancelled, before its commit.
AbortClick(c) ==
  /\ c \in inserting
  /\ inserting' = inserting \ {c}
  /\ UNCHANGED <<link, clicks, client>>
-------------------------------------------------------------------------------
(* The client's walk through the pages. *)

\* The order of (timestamp, id), the listing's order backwards.
Before(c, d) == c.time < d.time \/ (c.time = d.time /\ c.id < d.id)

\* Mutant: (timestamp, id) <= cursor.
Beyond_Inclusive(c) == cursor = Null \/ Before(c, cursor) \/ c = cursor

\* Mutant: timestamp < cursor.timestamp.
Beyond_TimestampOnly(c) == cursor = Null \/ c.time < cursor.time

\* (timestamp, id) < cursor.  Without a cursor the listing starts at the newest.
Beyond(c) == cursor = Null \/ Before(c, cursor)

\* ORDER BY timestamp DESC, id DESC LIMIT n.
Newest(S, n) == {c \in S : Cardinality({d \in S : Before(c, d)}) < n}

Selected == {c \in clicks : c.link = loaded /\ Beyond(c)}

\* Mutant: a full page is taken for one that is followed by another.
HasNext_Full(fetched, n) == Cardinality(fetched) >= n

\* One click more than the page holds has been asked for.
HasNext(fetched, n) == Cardinality(fetched) > n

Last(S) == CHOOSE c \in S : \A d \in S \ {c} : Before(c, d)

FirstPage ==
  /\ pc \in {"resting", "not_found", "forbidden"}
  /\ pc' = "load"
  /\ cursor' = Null
  /\ page' = {} /\ earlier' = {}
  /\ began' = {c \in clicks : link # Null /\ c.link = link.id}
  /\ UNCHANGED <<rows, loaded>>

NextPage ==
  /\ pc = "resting" /\ cursor # Null
  /\ pc' = "load"
  /\ earlier' = earlier \cup page
  /\ page' = {}
  /\ UNCHANGED <<rows, loaded, cursor, began>>

\* get_link_validate_user: the link, 404 or 403.
Exists == link # Null
Owned == link.user = Client

Then(p) == pc' = p /\ UNCHANGED <<rows, cursor, page, earlier, began>>

\* Mutant: the row is taken for its id.
LoadLink_WholeRow ==
  /\ pc = "load" /\ Exists /\ Owned
  /\ loaded' = link
  /\ Then("list")

LoadLink ==
  /\ pc = "load" /\ Exists /\ Owned
  /\ loaded' = link.id
  /\ Then("list")

SlugDoesNotExist ==
  /\ pc = "load" /\ ~ Exists
  /\ Then("not_found")
  /\ UNCHANGED loaded

SlugNotOwnedByUser ==
  /\ pc = "load" /\ Exists /\ ~ Owned
  /\ Then("forbidden")
  /\ UNCHANGED loaded

ListClicks(n) ==
  /\ pc = "list"
  /\ LET fetched == Newest(Selected, n + 1)
     IN  /\ page' = Newest(fetched, n)
         /\ cursor' = IF HasNext(fetched, n) THEN Last(Newest(fetched, n)) ELSE Null
  /\ pc' = "resting"
  /\ loaded' = Null
  /\ UNCHANGED <<rows, earlier, began>>

Next ==
  \/ \E l \in LinkIds, u \in Users : CreateLink(l, u)
  \/ DeleteLink
  \/ \E i \in ClickIds, t \in Times : RecordClick(i, t)
  \/ \E c \in inserting : CommitClick(c) \/ AbortClick(c)
  \/ FirstPage \/ NextPage
  \/ LoadLink \/ SlugDoesNotExist \/ SlugNotOwnedByUser
  \/ \E n \in 1..MaxLimit : ListClicks(n)

Spec == Init /\ [][Next]_vars
-------------------------------------------------------------------------------
(* Properties. *)

\* A walk never shows a click twice and never goes back in time, whatever is
\* recorded, deleted or created under the same slug between its requests.
PagesDescend == \A c \in page, d \in earlier : Before(c, d)

\* A walk that has come to its end has shown every click that was there when it
\* began and is still there: clicks that tie on the timestamp, arrive between
\* two pages or change the size of the pages push none of them out of sight.
WalkIsComplete ==
  pc = "resting" /\ cursor = Null => began \cap clicks \subseteq page \cup earlier

\* A next_cursor leads to more clicks, unless the link has been deleted: the
\* clicks shown before are then gone as well.
CursorLeadsOn ==
  pc = "resting" /\ page = {} => earlier \cap clicks = {}
===============================================================================
