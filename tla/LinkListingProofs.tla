--------------------------- MODULE LinkListingProofs ---------------------------
(***************************************************************************)
(* What a client that follows has_next is promised, for any number of      *)
(* links, any timestamps and any size of its pages.                        *)
(***************************************************************************)
EXTENDS LinkListing, FiniteSetTheorems, TLAPS

(* The inductive invariant. *)

Walking == walk # Null

\* A walk begins with page 1 and nothing shown.
WalkOK ==
  /\ pc = "idle" <=> ~ Walking
  /\ pc # "answered" => page = {}
  /\ ~ Walking => earlier = {} /\ awaited = {}
  /\ Walking => number >= 1

\* As long as nothing changes, the pages are the positions they are asked for by.
QuietOK ==
  Walking /\ "change" \notin happened =>
    /\ total = Cardinality(Matching)
    /\ earlier = {i \in Matching : Position(i) < Offset}
    /\ pc = "answered" =>
         page = {i \in Matching : Position(i) \in Offset..(Offset + walk.per_page - 1)}

\* How many positions the pages up to now have covered.
Covered == IF pc = "answered" THEN number * walk.per_page ELSE Offset

\* What is left alone and has not been shown is not behind the pages.
AwaitedOK ==
  Walking =>
    /\ awaited \subseteq Matching
    /\ OnlyPushed /\ "removal" \notin happened => \A i \in awaited : Position(i) >= Covered

ListInv ==
  /\ TypeOK /\ IsFiniteSet(Existing)
  /\ WalkOK /\ QuietOK /\ AwaitedOK
  /\ UntouchedLinksAreShown
-------------------------------------------------------------------------------
(* The order of the listing. *)

\* The links that come before link i.
Ahead(i) == {j \in Matching : Precedes(j, i)}

\* The sort keys are times and the ids numbers.
LEMMA Keys ==
  ASSUME TypeOK, walk \in Walk
  PROVE  /\ walk.per_page \in Nat \ {0}
         /\ \A i \in Existing : i \in Nat /\ links[i] \in Row /\ Key(i) \in Nat
<1>1. walk.per_page \in Nat \ {0} /\ Times \subseteq Nat
  BY OrderAssumption DEF Walk
<1>2. \A i \in Existing : i \in Nat /\ links[i] \in Row
  BY OrderAssumption DEF Existing, TypeOK
<1>3. \A i \in Existing : Key(i) \in Nat
  BY <1>1, <1>2 DEF Key, Row
<1> QED BY <1>1, <1>2, <1>3

\* The order is strict and total: ids tell apart what the column does not.
LEMMA PrecedesOrders ==
  ASSUME TypeOK, walk \in Walk, NEW i \in Existing, NEW j \in Existing
  PROVE  /\ ~ Precedes(i, i)
         /\ i = j \/ Precedes(i, j) \/ Precedes(j, i)
         /\ ~ (Precedes(i, j) /\ Precedes(j, i))
         /\ \A k \in Existing : Precedes(i, j) /\ Precedes(j, k) => Precedes(i, k)
<1>1. \A k \in Existing : k \in Nat /\ Key(k) \in Nat
  BY Keys
<1> QED BY <1>1 DEF Precedes

\* Positions count from 0, are below the number of links and follow the order.
LEMMA Positions ==
  ASSUME TypeOK, walk \in Walk, IsFiniteSet(Existing), NEW i \in Matching
  PROVE  /\ Position(i) \in Nat
         /\ Cardinality(Matching) \in Nat
         /\ Position(i) < Cardinality(Matching)
         /\ \A j \in Matching : Precedes(j, i) => Position(j) < Position(i)
<1>1. Matching \subseteq Existing /\ IsFiniteSet(Matching) /\ Cardinality(Matching) \in Nat
  BY FS_Subset, FS_CardinalityType DEF Matching, MatchingOf
<1>2. \A j \in Matching : Ahead(j) \subseteq Matching \ {j}
  BY <1>1, PrecedesOrders DEF Ahead
<1>3. \A j \in Matching : /\ IsFiniteSet(Ahead(j)) /\ Cardinality(Ahead(j)) \in Nat
                          /\ Position(j) = Cardinality(Ahead(j))
  BY <1>1, <1>2, FS_Subset, FS_CardinalityType DEF Position, Ahead
<1>4. Position(i) < Cardinality(Matching)
  <2>1. /\ IsFiniteSet(Matching \ {i})
        /\ Cardinality(Matching \ {i}) = Cardinality(Matching) - 1
    BY <1>1, FS_RemoveElement
  <2>2. Cardinality(Ahead(i)) <= Cardinality(Matching \ {i})
    BY <1>2, <2>1, FS_Subset
  <2> QED BY <1>1, <1>3, <2>1, <2>2
<1>5. ASSUME NEW j \in Matching, Precedes(j, i) PROVE Position(j) < Position(i)
  <2>1. Ahead(j) \subseteq Ahead(i) \ {j} /\ j \in Ahead(i)
    BY <1>1, <1>5, PrecedesOrders DEF Ahead
  <2>2. /\ IsFiniteSet(Ahead(i) \ {j})
        /\ Cardinality(Ahead(i) \ {j}) = Cardinality(Ahead(i)) - 1
    BY <1>3, <2>1, FS_RemoveElement
  <2>3. Cardinality(Ahead(j)) <= Cardinality(Ahead(i) \ {j})
    BY <2>1, <2>2, FS_Subset
  <2> QED BY <1>3, <2>2, <2>3
<1> QED BY <1>1, <1>3, <1>4, <1>5

\* Where one page ends the next one begins.
LEMMA PagesMeet ==
  ASSUME TypeOK, walk \in Walk, number >= 1
  PROVE  /\ Offset \in Nat /\ number * walk.per_page \in Nat
         /\ Offset + walk.per_page = number * walk.per_page
         /\ (number + 1 - 1) * walk.per_page = number * walk.per_page
<1>1. number \in Nat /\ walk.per_page \in Nat /\ number - 1 \in Nat
  BY Keys DEF TypeOK
<1>2. ASSUME NEW m \in Nat, NEW n \in Nat
      PROVE  m * n \in Nat /\ (m - 1) * n + n = m * n /\ (m + 1 - 1) * n = m * n
  BY <1>2
<1> QED BY <1>1, <1>2 DEF Offset
-------------------------------------------------------------------------------
(* The steps. *)

\* There are no links and no walk to begin with.
LEMMA ListInit == Init => ListInv
<1> SUFFICES ASSUME Init PROVE ListInv
  OBVIOUS
<1>1. Existing = {} /\ IsFiniteSet(Existing)
  BY FS_EmptySet DEF Init, Existing
<1>2. TypeOK
  BY DEF Init, TypeOK
<1> QED BY <1>1, <1>2 DEF Init, ListInv, WalkOK, QuietOK, AwaitedOK, UntouchedLinksAreShown,
                          AtEnd, Walking

\* What a change of a link does to a walk: it is noted, and as long as the links
\* that are left alone stay where they are or move back, the walk will meet them.
LEMMA ChangeStep ==
  ASSUME ListInv, TypeOK', IsFiniteSet(Existing'), UNCHANGED client,
         awaited' \subseteq awaited,
         NEW events, Note(events),
         Walking => awaited' \subseteq Matching',
         Walking /\ OnlyPushed' /\ "removal" \notin events =>
           \A i \in awaited' : Ahead(i) \subseteq Ahead(i)'
  PROVE  ListInv'
<1> USE DEF ListInv, client
<1>1. WalkOK'
  BY DEF WalkOK, Walking
<1>2. QuietOK'
  BY DEF QuietOK, Walking, Note
<1>3. AwaitedOK'
  <2> SUFFICES ASSUME Walking, OnlyPushed', "removal" \notin happened', NEW i \in awaited'
               PROVE  Position(i)' >= Covered
    BY DEF AwaitedOK, Walking, Covered, Offset
  <2>1. "removal" \notin happened /\ "removal" \notin events /\ OnlyPushed
    BY DEF Note, Walking, OnlyPushed
  <2>2. walk \in Walk /\ number >= 1 /\ i \in Matching /\ i \in Matching'
    BY DEF Walking, TypeOK, AwaitedOK, WalkOK
  <2>3. Ahead(i) \subseteq Ahead(i)'
    BY <2>1
  <2>4. IsFiniteSet(Ahead(i)')
    BY FS_Subset DEF Ahead, Matching, MatchingOf
  <2>5. Cardinality(Ahead(i)) <= Cardinality(Ahead(i)')
    BY <2>3, <2>4, FS_Subset
  <2>6. Position(i) \in Nat /\ Position(i) >= Covered
    BY <2>1, <2>2, Positions DEF AwaitedOK
  <2>7. Position(i) = Cardinality(Ahead(i)) /\ Position(i)' = Cardinality(Ahead(i)')
    BY DEF Position, Ahead
  <2>8. Cardinality(Ahead(i)') \in Nat /\ Covered \in Nat
    BY <2>2, <2>4, FS_CardinalityType, PagesMeet DEF Covered
  <2> QED BY <2>5, <2>6, <2>7, <2>8
<1>4. UntouchedLinksAreShown'
  BY DEF UntouchedLinksAreShown, AtEnd, HasNext, OnlyPushed, Note, WalkOK, Walking
<1> QED BY <1>1, <1>2, <1>3, <1>4

\* What changes a link changes no other.
LEMMA OtherLinks ==
  ASSUME UNCHANGED walk, NEW i \in LinkIds, \A j \in LinkIds \ {i} : links'[j] = links[j]
  PROVE  /\ \A j \in Existing \ {i} : j \in Existing' /\ (j \in Matching <=> j \in Matching')
         /\ \A j, k \in Existing \ {i} : Precedes(j, k)' <=> Precedes(j, k)
BY DEF Existing, Matching, MatchingOf, Passes, Precedes, Key

\* A new link pushes others back, if anything.
LEMMA CreateLinkStep ==
  ASSUME ListInv, NEW i \in LinkIds, NEW t \in Times, NEW found \in BOOLEAN,
         CreateLink(i, t, found)
  PROVE  ListInv'
<1> USE DEF CreateLink, ListInv
<1>2. TypeOK'
  BY DEF TypeOK, Row, client, Note, Events
<1>3. IsFiniteSet(Existing')
  <2>1. Existing' \subseteq Existing \cup {i}
    BY DEF Existing, TypeOK
  <2> QED BY <2>1, FS_AddElement, FS_Subset
<1>4. ASSUME Walking
      PROVE  awaited \subseteq Matching' /\ \A k \in awaited : Ahead(k) \subseteq Ahead(k)'
  <2>1. Matching \subseteq Existing \ {i} /\ awaited \subseteq Matching
    BY <1>4 DEF AwaitedOK, Matching, MatchingOf, Existing
  <2>2. UNCHANGED walk /\ \A j \in LinkIds \ {i} : links'[j] = links[j]
    BY DEF client, TypeOK
  <2>3. /\ \A j \in Existing \ {i} : j \in Existing' /\ (j \in Matching <=> j \in Matching')
        /\ \A j, k \in Existing \ {i} : Precedes(j, k)' <=> Precedes(j, k)
    BY <2>2, OtherLinks
  <2> QED BY <2>1, <2>3 DEF Ahead
<1> QED BY <1>2, <1>3, <1>4, ChangeStep DEF client

\* A link that is updated moves to the front, if anywhere, unless the update was
\* overtaken: then this is noted.
LEMMA UpdateLinkStep ==
  ASSUME ListInv, NEW i \in LinkIds, NEW t \in Times, NEW found \in BOOLEAN,
         UpdateLink(i, t, found)
  PROVE  ListInv'
<1> USE DEF UpdateLink, ListInv
<1>1. t \in Nat
  BY OrderAssumption
<1>2. PICK row : /\ row = [links[i] EXCEPT !.updated_at = t, !.found = found]
                 /\ links' = [links EXCEPT ![i] = row]
                 /\ Note({e \in {"removal", "overtaken"} :
                           IF e = "removal" THEN Leaves(i, row) ELSE Overtaken(i, t)})
  OBVIOUS
<1>3. /\ links[i] \in Row /\ row \in Row /\ row.created_at = links[i].created_at
      /\ row.updated_at = t
  <2>1. links[i] \in Row
    BY <1>2 DEF TypeOK
  <2>2. row \in Row /\ row.created_at = links[i].created_at /\ row.updated_at = t
    BY ONLY t \in Times, <1>2, <2>1, found \in BOOLEAN DEF Row
  <2> QED BY <2>1, <2>2
<1>4. TypeOK'
  BY <1>2, <1>3 DEF TypeOK, client, Note, Events
<1>5. Existing' = Existing
  BY <1>2, <1>3, NullAssumption DEF Existing, TypeOK
<1>6. /\ \A j \in Existing \ {i} : j \in Existing' /\ (j \in Matching <=> j \in Matching')
      /\ \A j, k \in Existing \ {i} : Precedes(j, k)' <=> Precedes(j, k)
  <2>1. UNCHANGED walk /\ \A j \in LinkIds \ {i} : links'[j] = links[j]
    BY <1>2 DEF client, TypeOK
  <2> QED BY <2>1, OtherLinks
<1>7. ASSUME Walking
      PROVE  awaited' \subseteq Matching'
  BY <1>6, <1>7 DEF AwaitedOK, Matching, MatchingOf
<1>8. ASSUME Walking, OnlyPushed', ~ Leaves(i, row), NEW k \in awaited'
      PROVE  Ahead(k) \subseteq Ahead(k)'
  <2>1. /\ walk \in Walk /\ k \in Matching /\ k \in Existing \ {i} /\ i \in Existing
        /\ Matching \subseteq Existing
    BY <1>8 DEF Walking, TypeOK, AwaitedOK, Matching, MatchingOf, Existing
  <2>2. ASSUME NEW j \in Ahead(k), j # i PROVE j \in Ahead(k)'
    BY <1>6, <2>1, <2>2 DEF Ahead
  <2>3. ASSUME i \in Ahead(k) PROVE i \in Ahead(k)'
    <3>1. i \in Matching'
      BY <1>2, <1>5, <1>8, <2>1, <2>3
      DEF Ahead, Leaves, Walking, Matching, MatchingOf, client, TypeOK
    <3>2. Key(k)' = Key(k) /\ Key(k) \in Nat /\ Key(i) \in Nat
      BY <1>2, <2>1, Keys DEF Key, client, TypeOK, Existing
    <3>3. Key(i)' = IF walk.sort = "created_at" THEN Key(i) ELSE t
      BY <1>2, <1>3 DEF Key, client, TypeOK
    <3>4. ASSUME walk.sort # "created_at"
          PROVE  /\ Key(i)' >= Key(i) /\ Key(i)' \in Nat
                 /\ walk.direction = "descending"
      <4>1. walk.direction = "descending" /\ "overtaken" \notin happened'
        BY <1>8, <3>4 DEF OnlyPushed, client
      <4>2. ~ Overtaken(i, t)
        BY <1>2, <1>8, <4>1 DEF Note, Walking
      <4>3. Key(i) = links[i].updated_at /\ Key(i)' = t
        BY <3>3, <3>4 DEF Key
      <4> QED BY <1>1, <3>2, <4>1, <4>2, <4>3 DEF Overtaken
    <3>5. Precedes(i, k)
      BY <2>3 DEF Ahead
    <3>6. Precedes(i, k)'
      BY <3>2, <3>3, <3>4, <3>5 DEF Precedes, client
    <3> QED BY <3>1, <3>6 DEF Ahead
  <2> QED BY <2>2, <2>3
<1>9. awaited' \subseteq awaited /\ UNCHANGED client
  OBVIOUS
<1> QED BY <1>2, <1>4, <1>5, <1>7, <1>8, <1>9, ChangeStep

\* A deletion is noted as a removal.
LEMMA DeleteLinkStep ==
  ASSUME ListInv, NEW i \in LinkIds, DeleteLink(i)
  PROVE  ListInv'
<1> USE DEF DeleteLink, ListInv
<1>1. TypeOK'
  BY DEF TypeOK, client, Note, Events
<1>2. IsFiniteSet(Existing')
  <2>1. Existing' \subseteq Existing
    BY DEF Existing, TypeOK
  <2> QED BY <2>1, FS_Subset
<1>3. ASSUME Walking
      PROVE  awaited' \subseteq Matching'
  <2>1. UNCHANGED walk /\ \A j \in LinkIds \ {i} : links'[j] = links[j]
    BY DEF client, TypeOK
  <2>2. \A j \in Existing \ {i} : j \in Existing' /\ (j \in Matching <=> j \in Matching')
    BY <2>1, OtherLinks
  <2> QED BY <1>3, <2>2 DEF AwaitedOK, Matching, MatchingOf
<1> QED BY <1>1, <1>2, <1>3, ChangeStep

\* A walk begins with the first positions ahead of it.
LEMMA FirstPageStep ==
  ASSUME ListInv, NEW w \in Walk, FirstPage(w)
  PROVE  ListInv'
<1> USE DEF FirstPage, ListInv
<1>1. /\ walk' = w /\ w # Null /\ Matching' = MatchingOf(w) /\ Existing' = Existing
      /\ IsFiniteSet(MatchingOf(w)) /\ Cardinality(MatchingOf(w)) \in Nat
  BY NullAssumption, FS_Subset, FS_CardinalityType DEF Matching, MatchingOf, Existing, Passes
<1>2. TypeOK' /\ WalkOK' /\ UntouchedLinksAreShown'
  BY <1>1 DEF TypeOK, WalkOK, Walking, UntouchedLinksAreShown, AtEnd, MatchingOf, Existing
<1>3. Offset' = 0
  <2>1. walk'.per_page \in Nat /\ number' = 1
    BY <1>1, OrderAssumption DEF Walk
  <2>2. Offset' = (1 - 1) * walk'.per_page
    BY <2>1 DEF Offset
  <2> QED BY <2>1, <2>2
<1>4. \A i \in Matching' : Position(i)' \in Nat
  <2> SUFFICES ASSUME NEW i \in Matching' PROVE Position(i)' \in Nat
    OBVIOUS
  <2>1. {j \in Matching' : Precedes(j, i)'} \subseteq MatchingOf(w)
    BY <1>1
  <2> QED BY <1>1, <2>1, FS_Subset, FS_CardinalityType DEF Position
<1>5. QuietOK'
  BY <1>1, <1>2, <1>3, <1>4 DEF QuietOK, WalkOK, Walking
<1>6. AwaitedOK'
  BY <1>1, <1>3, <1>4 DEF AwaitedOK, Covered
<1> QED BY <1>1, <1>2, <1>5, <1>6

\* The next one begins where the last one ended.
LEMMA NextPageStep ==
  ASSUME ListInv, NextPage
  PROVE  ListInv'
<1> USE DEF NextPage, ListInv
<1>1. Walking /\ walk \in Walk /\ number \in Nat /\ number >= 1
  BY DEF WalkOK, Walking, TypeOK
<1>2. /\ Existing' = Existing /\ Matching' = Matching
      /\ \A i \in Matching : Position(i)' = Position(i)
  BY DEF Existing, Matching, MatchingOf, Passes, Position, Precedes, Key
<1>3. IsFiniteSet(Matching) /\ Cardinality(Matching) \in Nat
  BY FS_Subset, FS_CardinalityType DEF Matching, MatchingOf
<1>4. TypeOK' /\ WalkOK' /\ UntouchedLinksAreShown'
  BY <1>1, <1>3 DEF TypeOK, WalkOK, Walking, UntouchedLinksAreShown, AtEnd
<1>5. /\ Offset' = number * walk.per_page /\ Offset \in Nat /\ walk.per_page \in Nat
      /\ Offset + walk.per_page = number * walk.per_page
  BY <1>1, PagesMeet, Keys DEF Offset
<1>6. QuietOK'
  <2> SUFFICES ASSUME "change" \notin happened
               PROVE  earlier' = {i \in Matching : Position(i) < Offset'}
    BY <1>2 DEF QuietOK
  <2>1. /\ earlier = {i \in Matching : Position(i) < Offset}
        /\ page = {i \in Matching : Position(i) \in Offset..(Offset + walk.per_page - 1)}
    BY <1>1 DEF QuietOK
  <2>2. \A i \in Matching : Position(i) \in Nat
    BY <1>1, Positions
  <2> QED BY <1>5, <2>1, <2>2
<1>7. AwaitedOK'
  BY <1>1, <1>2, <1>5 DEF AwaitedOK, Covered, Walking, OnlyPushed
<1> QED BY <1>2, <1>4, <1>6, <1>7

\* A page shows its positions, and the last one leaves none.
LEMMA SelectLinksStep ==
  ASSUME ListInv, SelectLinks
  PROVE  ListInv'
<1> USE DEF SelectLinks, ListInv
<1>1. Walking /\ walk \in Walk /\ number \in Nat /\ number >= 1
  BY DEF WalkOK, Walking, TypeOK
<1>2. /\ Existing' = Existing /\ Matching' = Matching
      /\ \A i \in Matching : Position(i)' = Position(i)
  BY DEF Existing, Matching, MatchingOf, Passes, Position, Precedes, Key
<1>3. /\ Offset' = Offset /\ Offset \in Nat /\ walk.per_page \in Nat
      /\ Offset + walk.per_page = number * walk.per_page
  BY <1>1, PagesMeet, Keys DEF Offset
<1>4. TypeOK' /\ WalkOK'
  BY <1>1 DEF TypeOK, WalkOK, Walking, Matching, MatchingOf, Existing, Events
<1>5. QuietOK'
  BY <1>1, <1>2, <1>3 DEF QuietOK
<1>6. ASSUME OnlyPushed, "removal" \notin happened, NEW i \in awaited'
      PROVE  /\ i \in Matching /\ Position(i) \in Nat
             /\ Position(i) >= number * walk.per_page
             /\ Position(i) < Cardinality(Matching) /\ Cardinality(Matching) \in Nat
  <2>1. i \in Matching /\ Position(i) >= Offset /\ i \notin page'
    BY <1>1, <1>6 DEF AwaitedOK, Covered
  <2>2. Position(i) \notin Offset..(Offset + walk.per_page - 1)
    BY <2>1
  <2>3. /\ Position(i) \in Nat /\ Position(i) < Cardinality(Matching)
        /\ Cardinality(Matching) \in Nat
    BY <1>1, <2>1, Positions
  <2> QED BY <1>3, <2>1, <2>2, <2>3
<1>7. AwaitedOK'
  <2>1. "removal" \notin happened' => "removal" \notin happened
    OBVIOUS
  <2>2. awaited' \subseteq Matching
    BY <1>1 DEF AwaitedOK
  <2> QED BY <1>2, <1>6, <2>1, <2>2 DEF AwaitedOK, Covered, OnlyPushed
<1>8. UntouchedLinksAreShown'
  <2> SUFFICES ASSUME AtEnd', OnlyPushed, "removal" \notin happened',
                      "late_arrival" \notin happened', NEW i \in awaited'
               PROVE  FALSE
    BY DEF UntouchedLinksAreShown, OnlyPushed
  <2>1. "removal" \notin happened /\ ~ (total < Cardinality(Matching))
    OBVIOUS
  <2>2. ~ (number * walk.per_page < total) /\ total \in Nat
    BY DEF AtEnd, HasNext, TypeOK
  <2>3. number * walk.per_page \in Nat
    BY <1>1, PagesMeet
  <2> QED BY <1>6, <2>1, <2>2, <2>3
<1> QED BY <1>2, <1>4, <1>5, <1>7, <1>8

\* ListInv is inductive.
LEMMA ListStep == ListInv /\ [Next]_vars => ListInv'
<1> SUFFICES ASSUME ListInv, [Next]_vars PROVE ListInv'
  OBVIOUS
<1>1. CASE UNCHANGED vars
  <2>1. /\ Existing' = Existing /\ Matching' = Matching
        /\ \A i \in LinkIds : Position(i)' = Position(i)
    BY <1>1 DEF vars, client, Existing, Matching, MatchingOf, Passes, Position, Precedes, Key
  <2>2. TypeOK' /\ WalkOK' /\ UntouchedLinksAreShown'
    BY <1>1 DEF vars, client, ListInv, TypeOK, WalkOK, Walking, UntouchedLinksAreShown,
                OnlyPushed, AtEnd, HasNext
  <2>3. Matching \subseteq LinkIds
    BY DEF Matching, MatchingOf, Existing
  <2>4. QuietOK' /\ AwaitedOK'
    BY <1>1, <2>1, <2>3
    DEF vars, client, ListInv, QuietOK, AwaitedOK, Walking, Covered, Offset, OnlyPushed
  <2> QED BY <2>1, <2>2, <2>4 DEF ListInv
<1> QED BY <1>1, CreateLinkStep, UpdateLinkStep, DeleteLinkStep, FirstPageStep,
           NextPageStep, SelectLinksStep DEF Next

\* ListInv holds in every reachable state.
LEMMA ListAlways == Spec => []ListInv
BY ListInit, ListStep, PTL DEF Spec
-------------------------------------------------------------------------------
(* The theorems. *)

\* Every variable keeps its type.
THEOREM LinksTyped == Spec => []TypeOK
<1>1. ListInv => TypeOK
  BY DEF ListInv
<1> QED BY <1>1, ListAlways, PTL

\* While nobody changes a link, offsets and has_next make a walk exact: every link
\* that matches is shown, once, and in the order asked for.
THEOREM QuietWalksAreExact == Spec => []QuietWalkIsExact
<1>1. ASSUME ListInv, "change" \notin happened, Walking
      PROVE  /\ \A i \in page, j \in earlier : Precedes(j, i)
             /\ AtEnd => Shown = Matching
  <2> USE DEF ListInv
  <2>1. walk \in Walk /\ number >= 1
    BY <1>1 DEF Walking, TypeOK, WalkOK
  <2>2. /\ total = Cardinality(Matching)
        /\ earlier = {i \in Matching : Position(i) < Offset}
        /\ pc = "answered" =>
             page = {i \in Matching : Position(i) \in Offset..(Offset + walk.per_page - 1)}
        /\ pc # "answered" => page = {}
    BY <1>1 DEF QuietOK, WalkOK
  <2>3. /\ Offset \in Nat /\ walk.per_page \in Nat /\ number * walk.per_page \in Nat
        /\ Offset + walk.per_page = number * walk.per_page
    BY <1>1, <2>1, PagesMeet, Keys
  <2>4. \A i \in Matching : /\ Position(i) \in Nat /\ Position(i) < Cardinality(Matching)
                            /\ Cardinality(Matching) \in Nat
    BY <1>1, <2>1, Positions
  <2>5. ASSUME NEW i \in page, NEW j \in earlier PROVE Precedes(j, i)
    <3>1. i \in Matching /\ j \in Matching /\ Position(j) < Position(i)
      BY <2>2, <2>3, <2>4, <2>5
    <3>2. ~ Precedes(i, j) /\ i # j
      BY <1>1, <2>1, <2>4, <3>1, Positions
    <3> QED BY <1>1, <2>1, <3>1, <3>2, PrecedesOrders DEF Matching, MatchingOf
  <2>6. AtEnd => Shown = Matching
    BY <2>2, <2>3, <2>4 DEF AtEnd, HasNext, Shown
  <2> QED BY <2>5, <2>6
<1>2. ListInv => QuietWalkIsExact
  BY <1>1 DEF ListInv, WalkOK, Walking, QuietWalkIsExact, AtEnd
<1> QED BY <1>2, ListAlways, PTL

\* As long as creations and updates only push links back, a walk that ends has
\* shown every link they left alone.
THEOREM UntouchedLinksStayInSight == Spec => []UntouchedLinksAreShown
<1>1. ListInv => UntouchedLinksAreShown
  BY DEF ListInv
<1> QED BY <1>1, ListAlways, PTL
===============================================================================
