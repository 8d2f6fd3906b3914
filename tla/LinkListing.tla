------------------------------ MODULE LinkListing ------------------------------
(***************************************************************************)
(* The listing of a user's links, page by page with an offset, while the   *)
(* user's other requests create, update and delete links.                  *)
(*                                                                         *)
(* A request for a page is two statements under READ COMMITTED, the count  *)
(* of the matching links and the page itself; has_next relates the one to  *)
(* the page number of the other.  A client walks from page 1 for as long   *)
(* as has_next says so, with the same sort, direction, filters and size.   *)
(***************************************************************************)
EXTENDS Naturals, FiniteSets

CONSTANTS
  LinkIds,     \* links.id, random and ordered
  Times,       \* the times a request may take
  PageSizes,   \* what a client may ask for as per_page
  Null

ASSUME OrderAssumption ==
  LinkIds \subseteq Nat /\ Times \subseteq Nat /\ PageSizes \subseteq Nat \ {0}

\* found: the filters let the row through, favorites_only its flag and search its
\* slug and target.
Row == [created_at: Times, updated_at: Times, found: BOOLEAN]

Walk == [sort: {"created_at", "updated_at"}, direction: {"ascending", "descending"},
         filtered: BOOLEAN, per_page: PageSizes]

ASSUME NullAssumption == Null \notin Row \cup Walk

VARIABLES
  links,      \* the user's committed links, a row or Null for an id
  pc,         \* where the client's request is
  walk,       \* what the client asks for
  number,     \* the page it is at
  total,      \* the count that goes into its answer
  page,       \* the links of the last answer
  earlier,    \* those of the answers before it
  awaited,    \* the links that matched when the walk began, were left alone since and
              \* have not been on a page
  happened    \* what the walk has met: changes of rows, matching rows that are
              \* gone, updates older than their row, rows that came between a
              \* count and its select

client == <<pc, walk, number, total, page, earlier>>
vars == <<links, client, awaited, happened>>

Events == {"change", "removal", "overtaken", "late_arrival"}

TypeOK ==
  /\ links \in [LinkIds -> Row \cup {Null}]
  /\ pc \in {"idle", "select", "answered"}
  /\ walk \in Walk \cup {Null}
  /\ number \in Nat /\ total \in Nat
  /\ page \subseteq LinkIds /\ earlier \subseteq LinkIds /\ awaited \subseteq LinkIds
  /\ happened \subseteq Events

Init ==
  /\ links = [i \in LinkIds |-> Null]
  /\ pc = "idle" /\ walk = Null /\ number = 0 /\ total = 0
  /\ page = {} /\ earlier = {} /\ awaited = {} /\ happened = {}
-------------------------------------------------------------------------------
(* The order and the filters. *)

Existing == {i \in LinkIds : links[i] # Null}

\* WHERE: the rows that the filters of a walk w let through.
Passes(w, row) == w.filtered => row.found
MatchingOf(w) == {i \in Existing : Passes(w, links[i])}
Matching == MatchingOf(walk)

Key(i) == IF walk.sort = "created_at" THEN links[i].created_at ELSE links[i].updated_at

\* ORDER BY the sort column, then Link.id DESC whatever the direction.
Precedes(i, j) ==
  \/ IF walk.direction = "ascending" THEN Key(i) < Key(j) ELSE Key(i) > Key(j)
  \/ Key(i) = Key(j) /\ i > j

Position(i) == Cardinality({j \in Matching : Precedes(j, i)})

\* Mutant: the first page is page 0.
Offset_FromZero == number * walk.per_page

Offset == (number - 1) * walk.per_page

\* Mutant: the page after this one has to be full too.
HasNext_Full == (number + 1) * walk.per_page <= total

HasNext == number * walk.per_page < total
-------------------------------------------------------------------------------
(* The user's other requests.  Each is one action: the commit of its INSERT,  *)
(* UPDATE or DELETE.  The process takes the time when it builds the           *)
(* statement, which then waits for the row: the commits need not come in the  *)
(* order of their times.                                                      *)

\* A change of the rows while there is a walk it may disturb.
Note(events) == happened' = IF walk = Null THEN {} ELSE happened \cup {"change"} \cup events

\* The walk's filters let link i through and will not do so with row.
Leaves(i, row) == walk # Null /\ i \in Matching /\ ~ Passes(walk, row)

\* Mutant: updated_at has no default.
CreateLink_NoUpdatedAt(i, t, found) ==
  /\ links[i] = Null
  /\ links' = [links EXCEPT ![i] = [created_at |-> t, found |-> found]]
  /\ Note({})
  /\ UNCHANGED <<client, awaited>>

\* A new link is no favorite, but it can be what a search looks for.  The ids are
\* few: one whose row is gone stands for a new one.
CreateLink(i, t, found) ==
  /\ links[i] = Null
  /\ links' = [links EXCEPT ![i] = [created_at |-> t, updated_at |-> t, found |-> found]]
  /\ Note({})
  /\ UNCHANGED <<client, awaited>>

\* A time older than the row's: another update took its time later and had the
\* row first.
Overtaken(i, t) == t < links[i].updated_at

\* onupdate sets updated_at, whatever the row has by then.  A patch may change
\* what the filters look at or not.
UpdateLink(i, t, found) ==
  /\ links[i] # Null
  /\ LET row == [links[i] EXCEPT !.updated_at = t, !.found = found]
     IN  /\ links' = [links EXCEPT ![i] = row]
         /\ Note({e \in {"removal", "overtaken"} :
                   IF e = "removal" THEN Leaves(i, row) ELSE Overtaken(i, t)})
  /\ awaited' = awaited \ {i}
  /\ UNCHANGED client

DeleteLink(i) ==
  /\ links[i] # Null
  /\ links' = [links EXCEPT ![i] = Null]
  /\ Note({"removal"})
  /\ awaited' = awaited \ {i}
  /\ UNCHANGED client

-------------------------------------------------------------------------------
(* The client's walk through the pages.  A request begins with its count. *)

\* A walk changes nothing that a later one sees, so that one is enough.
FirstPage(w) ==
  /\ pc = "idle"
  /\ walk' = w
  /\ number' = 1
  /\ total' = Cardinality(MatchingOf(w))
  /\ awaited' = MatchingOf(w)
  /\ pc' = "select"
  /\ UNCHANGED <<links, page, earlier, happened>>

NextPage ==
  /\ pc = "answered" /\ HasNext
  /\ number' = number + 1
  /\ total' = Cardinality(Matching)
  /\ page' = {} /\ earlier' = earlier \cup page
  /\ pc' = "select"
  /\ UNCHANGED <<links, walk, awaited, happened>>

\* SELECT ... OFFSET ... LIMIT per_page.
SelectLinks ==
  /\ pc = "select"
  /\ page' = {i \in Matching : Position(i) \in Offset..(Offset + walk.per_page - 1)}
  /\ happened' = (happened \ {"late_arrival"})
                   \cup IF total < Cardinality(Matching) THEN {"late_arrival"} ELSE {}
  /\ awaited' = awaited \ page'
  /\ pc' = "answered"
  /\ UNCHANGED <<links, walk, number, total, earlier>>

Next ==
  \/ \E i \in LinkIds, t \in Times, found \in BOOLEAN : CreateLink(i, t, found)
  \/ \E i \in LinkIds, t \in Times, found \in BOOLEAN : UpdateLink(i, t, found)
  \/ \E i \in LinkIds : DeleteLink(i)
  \/ \E w \in Walk : FirstPage(w)
  \/ NextPage \/ SelectLinks

Spec == Init /\ [][Next]_vars
-------------------------------------------------------------------------------
(* Properties. *)

AtEnd == pc = "answered" /\ ~ HasNext
Shown == page \cup earlier

\* While nobody changes a link, a walk shows every link that matches, once, and
\* its pages follow each other in the order asked for.
QuietWalkIsExact ==
  "change" \notin happened =>
    /\ \A i \in page, j \in earlier : Precedes(j, i)
    /\ AtEnd => Shown = Matching

\* The changes met so far push the links they leave alone towards later pages,
\* if anywhere.  By created_at no link moves; in descending updated_at one that
\* is updated moves to the front, unless another update overtook this one.
OnlyPushed ==
  \/ walk.sort = "created_at"
  \/ walk.direction = "descending" /\ "overtaken" \notin happened

\* Creations and updates in the middle of a walk do not hide the links they
\* leave alone: when they only ever push links towards later pages, a walk that
\* ends has shown them all.  It takes that no link was deleted or left the
\* filters, and that none arrived between the count and the select of the last
\* page.
UntouchedLinksAreShown ==
  /\ AtEnd
  /\ OnlyPushed
  /\ happened \cap {"removal", "late_arrival"} = {}
  => awaited = {}
===============================================================================
