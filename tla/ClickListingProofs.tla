-------------------------- MODULE ClickListingProofs --------------------------
(***************************************************************************)
(* What a client that follows next_cursor is promised, for any number of   *)
(* clicks, links and timestamps and any size of its pages.                 *)
(***************************************************************************)
EXTENDS ClickListing, FiniteSetTheorems, WellFoundedInduction, TLAPS

(* The listing's order, and the pages of a set of clicks. *)

\* Clicks with different ids, which the primary key guarantees of the committed ones.
Keyed(S) == S \subseteq Click /\ \A c, d \in S : c.id = d.id => c = d

\* The clicks of S that come before c in the listing.
Above(S, c) == {d \in S : Before(c, d)}

\* The order is strict and transitive, and ids tell apart what timestamps do not.
LEMMA BeforeOrders ==
  ASSUME NEW S, Keyed(S), NEW c \in S, NEW d \in S
  PROVE  /\ ~ Before(c, c)
         /\ \A e \in S : Before(c, d) /\ Before(d, e) => Before(c, e)
         /\ c = d \/ Before(c, d) \/ Before(d, c)
         /\ ~ (Before(c, d) /\ Before(d, c))
<1>1. \A x \in S : x.time \in Nat /\ x.id \in Nat
  BY OrderAssumption DEF Keyed, Click
<1>2. c.id = d.id => c = d
  BY DEF Keyed
<1> QED BY <1>1, <1>2 DEF Before

\* Some of finitely many clicks come first in the listing, and some last.
LEMMA HasEnds ==
  ASSUME NEW S, Keyed(S), IsFiniteSet(S), NEW T, T \subseteq S, T # {}
  PROVE  /\ \E c \in T : \A d \in T : ~ Before(c, d)
         /\ \E c \in T : \A d \in T : ~ Before(d, c)
<1> DEFINE Below(c) == {d \in S : Before(d, c)}
<1>1. \A c, d \in S : Before(c, d) => /\ Above(S, d) \subseteq Above(S, c)
                                      /\ Above(S, d) # Above(S, c)
                                      /\ Below(c) \subseteq Below(d)
                                      /\ Below(c) # Below(d)
  BY BeforeOrders DEF Above
<1>2. \A c \in S : /\ Above(S, c) \in FiniteSubsetsOf(S)
                   /\ Below(c) \in FiniteSubsetsOf(S)
  BY FS_Subset DEF Above, FiniteSubsetsOf
<1> HIDE DEF Below
<1>3. ASSUME NEW U, U \subseteq FiniteSubsetsOf(S), U # {}
      PROVE  \E A \in U : \A B \in U : ~ (B \subseteq A /\ B # A)
  <2>1. PICK A \in U : \A B \in U : <<B, A>> \notin StrictSubsetOrdering(S)
    BY <1>3, FS_StrictSubsetOrderingWellFounded, WFMin
  <2> QED BY <1>3, <2>1 DEF StrictSubsetOrdering, FiniteSubsetsOf
<1>4. \E c \in T : \A d \in T : ~ Before(c, d)
  <2> DEFINE U == {Above(S, c) : c \in T}
  <2>1. U \subseteq FiniteSubsetsOf(S) /\ U # {}
    BY <1>2
  <2>2. \E A \in U : \A B \in U : ~ (B \subseteq A /\ B # A)
    <3> HIDE DEF U
    <3> QED BY <2>1, <1>3
  <2>3. PICK c \in T : \A d \in T : ~ (Above(S, d) \subseteq Above(S, c) /\ Above(S, d) # Above(S, c))
    BY <2>2
  <2> QED BY <1>1, <2>3
<1>5. \E c \in T : \A d \in T : ~ Before(d, c)
  <2> DEFINE U == {Below(c) : c \in T}
  <2>1. U \subseteq FiniteSubsetsOf(S) /\ U # {}
    BY <1>2
  <2>2. \E A \in U : \A B \in U : ~ (B \subseteq A /\ B # A)
    <3> HIDE DEF U
    <3> QED BY <2>1, <1>3
  <2>3. PICK c \in T : \A d \in T : ~ (Below(d) \subseteq Below(c) /\ Below(d) # Below(c))
    BY <2>2
  <2> QED BY <1>1, <2>3
<1> QED BY <1>4, <1>5

\* Last chooses the oldest of finitely many clicks.
LEMMA LastIsOldest ==
  ASSUME NEW S, Keyed(S), IsFiniteSet(S), S # {}
  PROVE  /\ Last(S) \in S
         /\ \A d \in S \ {Last(S)} : Before(Last(S), d)
<1>1. PICK c \in S : \A d \in S : ~ Before(d, c)
  BY HasEnds
<1>2. \A d \in S \ {c} : Before(c, d)
  BY <1>1, BeforeOrders
<1> QED BY <1>2 DEF Last

\* The later in the listing, the more clicks come before.
LEMMA AboveGrows ==
  ASSUME NEW S, Keyed(S), IsFiniteSet(S), NEW c \in S
  PROVE  /\ Cardinality(Above(S, c)) \in Nat
         /\ Cardinality(Above(S, c)) < Cardinality(S)
         /\ \A d \in S : Before(c, d) => Cardinality(Above(S, d)) < Cardinality(Above(S, c))
<1>1. \A d \in S : Above(S, d) \subseteq S \ {d}
  BY BeforeOrders DEF Above
<1>2. IsFiniteSet(S \ {c}) /\ Cardinality(S \ {c}) = Cardinality(S) - 1
  BY FS_RemoveElement
<1>3. \A d \in S : IsFiniteSet(Above(S, d)) /\ Cardinality(Above(S, d)) \in Nat
  BY <1>1, FS_Subset, FS_CardinalityType
<1>4. Cardinality(Above(S, c)) <= Cardinality(S \ {c}) /\ Cardinality(S) \in Nat
  BY <1>1, <1>2, FS_Subset, FS_CardinalityType
<1>5. ASSUME NEW d \in S, Before(c, d)
      PROVE  Cardinality(Above(S, d)) < Cardinality(Above(S, c))
  <2>1. Above(S, d) \subseteq Above(S, c) \ {d} /\ d \in Above(S, c)
    BY <1>5, BeforeOrders DEF Above
  <2>2. /\ IsFiniteSet(Above(S, c) \ {d})
        /\ Cardinality(Above(S, c) \ {d}) = Cardinality(Above(S, c)) - 1
    BY <1>3, <2>1, FS_RemoveElement
  <2>3. Cardinality(Above(S, d)) <= Cardinality(Above(S, c) \ {d})
    BY <2>1, <2>2, FS_Subset
  <2> QED BY <1>3, <2>2, <2>3
<1> QED BY <1>2, <1>3, <1>4, <1>5

\* A page is part of what is listed, and nothing is left out above a click it shows.
LEMMA PageIsTop ==
  ASSUME NEW S, Keyed(S), IsFiniteSet(S), NEW n \in Nat
  PROVE  /\ Newest(S, n) \subseteq S
         /\ Keyed(Newest(S, n)) /\ IsFiniteSet(Newest(S, n))
         /\ \A c \in Newest(S, n), d \in S : Before(c, d) => d \in Newest(S, n)
<1>1. Newest(S, n) = {c \in S : Cardinality(Above(S, c)) < n}
  BY DEF Newest, Above
<1>2. \A c \in Newest(S, n), d \in S : Before(c, d) => d \in Newest(S, n)
  BY <1>1, AboveGrows
<1>3. Newest(S, n) \subseteq S /\ IsFiniteSet(Newest(S, n))
  BY <1>1, FS_Subset
<1> QED BY <1>2, <1>3 DEF Keyed

\* A page is not empty if there is something to show.
LEMMA PageIsNotEmpty ==
  ASSUME NEW S, Keyed(S), IsFiniteSet(S), S # {}, NEW n \in Nat \ {0}
  PROVE  Newest(S, n) # {}
<1>1. PICK c \in S : \A d \in S : ~ Before(c, d)
  BY HasEnds
<1>2. {d \in S : Before(c, d)} = {}
  BY <1>1
<1>3. c \in Newest(S, n)
  BY <1>2, FS_EmptySet DEF Newest
<1> QED BY <1>3

\* A page with less than it may have shows everything,
LEMMA ShortPageIsAll ==
  ASSUME NEW S, Keyed(S), IsFiniteSet(S), NEW n \in Nat, Cardinality(Newest(S, n)) < n
  PROVE  Newest(S, n) = S
<1>1. ASSUME Newest(S, n) # S PROVE FALSE
  <2>1. Newest(S, n) \subseteq S /\ IsFiniteSet(Newest(S, n))
    BY PageIsTop
  <2>2. PICK c \in S \ Newest(S, n) : \A d \in S \ Newest(S, n) : ~ Before(c, d)
    <3>1. S \ Newest(S, n) # {}
      BY <1>1, <2>1
    <3> QED BY <3>1, HasEnds
  <2>3. Above(S, c) \subseteq Newest(S, n)
    BY <2>2 DEF Above
  <2>4. Cardinality(Above(S, c)) <= Cardinality(Newest(S, n))
    BY <2>1, <2>3, FS_Subset
  <2>5. Cardinality(Above(S, c)) < n
    BY <2>1, <2>4, FS_CardinalityType, AboveGrows
  <2> QED BY <2>2, <2>5 DEF Newest, Above
<1> QED BY <1>1

\* and so does one of no more clicks than it may have.
LEMMA SmallSetIsOnePage ==
  ASSUME NEW S, Keyed(S), IsFiniteSet(S), NEW n \in Nat, Cardinality(S) <= n
  PROVE  Newest(S, n) = S
<1>1. \A c \in S : Cardinality(Above(S, c)) < n
  BY AboveGrows, FS_CardinalityType
<1> QED BY <1>1 DEF Newest, Above

\* A page of more clicks than it may have leaves out the oldest.
LEMMA FullPageLeavesSome ==
  ASSUME NEW S, Keyed(S), IsFiniteSet(S), NEW n \in Nat, Cardinality(S) > n
  PROVE  Last(S) \in S \ Newest(S, n)
<1>1. S # {} /\ Cardinality(S) \in Nat
  BY FS_EmptySet, FS_CardinalityType
<1>2. Last(S) \in S /\ \A d \in S \ {Last(S)} : Before(Last(S), d)
  BY <1>1, LastIsOldest
<1>3. {d \in S : Before(Last(S), d)} = S \ {Last(S)}
  BY <1>2, BeforeOrders
<1>4. Cardinality(S \ {Last(S)}) = Cardinality(S) - 1
  BY <1>2, FS_RemoveElement
<1> QED BY <1>1, <1>2, <1>3, <1>4 DEF Newest
-------------------------------------------------------------------------------
(* The inductive invariant. *)

Shown == page \cup earlier

\* A click that is not committed yet is known to nobody,
InsertingOK == inserting \cap (clicks \cup Shown \cup began) = {}

\* a committed one has its link (the foreign key),
LinkedOK == \A c \in clicks \cup inserting : link # Null /\ c.link = link.id

\* and what the client knows and is still there is of the link its request found.
LoadedOK ==
  pc = "list" => \A c \in clicks \cap (Shown \cup began) : c.link = loaded

\* The cursor is the oldest click shown.
CursorOK ==
  /\ pc \in {"load", "list"} => page = {} /\ (cursor = Null => earlier = {})
  /\ cursor # Null => cursor \in Shown /\ \A d \in Shown \ {cursor} : Before(cursor, d)

\* Nothing is behind the cursor that has not been shown,
AheadOK ==
  \A c \in (began \cap clicks) \ Shown : IF cursor = Null THEN pc # "resting" ELSE Before(c, cursor)

\* and there is something ahead of it as long as the link is there.
MoreOK ==
  cursor # Null /\ Shown \cap clicks # {} =>
    \E c \in clicks : Before(c, cursor) /\ (pc = "list" => c.link = loaded)

ListingInv ==
  /\ TypeOK
  /\ IsFiniteSet(clicks) /\ Keyed(Remembered)
  /\ InsertingOK /\ LinkedOK /\ LoadedOK
  /\ CursorOK /\ AheadOK /\ MoreOK
  /\ PagesDescend /\ CursorLeadsOn
-------------------------------------------------------------------------------
(* The steps. *)

\* Nothing is there to begin with.
LEMMA ListingInit == Init => ListingInv
BY FS_EmptySet
DEF Init, ListingInv, TypeOK, Keyed, Remembered, Shown, InsertingOK, LinkedOK, LoadedOK,
    CursorOK, AheadOK, MoreOK, PagesDescend, CursorLeadsOn

\* A new link has no clicks yet.
LEMMA CreateLinkStep ==
  ASSUME ListingInv, NEW l \in LinkIds, NEW u \in Users, CreateLink(l, u)
  PROVE  ListingInv'
<1> USE DEF CreateLink, client, Remembered, Shown
<1>1. link' \in Link
  BY DEF Link
<1>2. clicks = {} /\ inserting = {}
  BY DEF ListingInv, LinkedOK
<1> QED BY <1>1, <1>2 DEF ListingInv, TypeOK, Keyed, InsertingOK, LinkedOK, LoadedOK,
                          CursorOK, AheadOK, MoreOK, PagesDescend, CursorLeadsOn

\* A link that goes takes all its clicks along: nothing is ahead and nothing is missed.
LEMMA DeleteLinkStep ==
  ASSUME ListingInv, DeleteLink
  PROVE  ListingInv'
<1> USE DEF DeleteLink, client, Remembered, Shown
<1>1. clicks' = {} /\ inserting' = {}
  BY DEF ListingInv, LinkedOK
<1> QED BY <1>1, FS_EmptySet
        DEF ListingInv, TypeOK, Keyed, InsertingOK, LinkedOK, LoadedOK,
            CursorOK, AheadOK, MoreOK, PagesDescend, CursorLeadsOn

\* Until it is committed a click is nobody's business.
LEMMA RecordClickStep ==
  ASSUME ListingInv, NEW i \in ClickIds, NEW t \in Times, RecordClick(i, t)
  PROVE  ListingInv'
<1> USE DEF RecordClick, client, Remembered, Shown
<1> DEFINE c == [id |-> i, time |-> t, link |-> link.id]
<1>1. c \in Click /\ c.id = i /\ c.link = link.id
  BY DEF ListingInv, TypeOK, Click, Link
<1>2. inserting' = inserting \cup {c} /\ \A d \in Remembered : d.id # c.id
  BY <1>1
<1> HIDE DEF c
<1>3. Keyed(Remembered)'
  BY <1>1, <1>2 DEF ListingInv, Keyed
<1>4. InsertingOK'
  BY <1>2 DEF ListingInv, InsertingOK
<1>5. LinkedOK'
  BY <1>1, <1>2 DEF ListingInv, LinkedOK
<1> QED BY <1>1, <1>2, <1>3, <1>4, <1>5
        DEF ListingInv, TypeOK, LoadedOK, CursorOK, AheadOK, MoreOK, PagesDescend, CursorLeadsOn

\* One that is committed was not there when the client asked, nor has it been shown.
LEMMA CommitClickStep ==
  ASSUME ListingInv, NEW c \in inserting, CommitClick(c)
  PROVE  ListingInv'
<1> USE DEF CommitClick, client, Remembered, Shown
<1>1. c \notin Shown /\ c \notin began
  BY DEF ListingInv, InsertingOK
<1>2. IsFiniteSet(clicks')
  BY FS_AddElement DEF ListingInv
<1>3. Keyed(Remembered)' /\ InsertingOK' /\ LinkedOK' /\ TypeOK'
  BY DEF ListingInv, TypeOK, Keyed, InsertingOK, LinkedOK
<1>4. /\ (clicks \cap (Shown \cup began))' = clicks \cap (Shown \cup began)
      /\ (Shown \cap clicks)' = Shown \cap clicks /\ clicks \subseteq clicks'
      /\ ((began \cap clicks) \ Shown)' = (began \cap clicks) \ Shown
      /\ (earlier \cap clicks)' = earlier \cap clicks
  BY <1>1
<1>5. LoadedOK' /\ AheadOK' /\ CursorLeadsOn'
  BY <1>4 DEF ListingInv, LoadedOK, AheadOK, CursorLeadsOn
<1>6. MoreOK'
  BY <1>4 DEF ListingInv, MoreOK
<1> QED BY <1>2, <1>3, <1>5, <1>6 DEF ListingInv, CursorOK, PagesDescend

\* One that is not leaves no trace.
LEMMA AbortClickStep ==
  ASSUME ListingInv, NEW c \in inserting, AbortClick(c)
  PROVE  ListingInv'
BY DEF AbortClick, client, Remembered, Shown, ListingInv, TypeOK, Keyed, InsertingOK, LinkedOK,
       LoadedOK, CursorOK, AheadOK, MoreOK, PagesDescend, CursorLeadsOn

\* A walk begins with what is there.
LEMMA FirstPageStep ==
  ASSUME ListingInv, FirstPage
  PROVE  ListingInv'
BY DEF FirstPage, rows, Remembered, Shown, ListingInv, TypeOK, Keyed, InsertingOK, LinkedOK,
       LoadedOK, CursorOK, AheadOK, MoreOK, PagesDescend, CursorLeadsOn

\* It goes on from where it was,
LEMMA NextPageStep ==
  ASSUME ListingInv, NextPage
  PROVE  ListingInv'
<1>1. Shown' = Shown /\ Remembered' = Remembered
  BY DEF NextPage, rows, Shown, Remembered
<1> QED BY <1>1
        DEF NextPage, rows, ListingInv, TypeOK, Keyed, InsertingOK, LinkedOK,
            LoadedOK, CursorOK, AheadOK, MoreOK, PagesDescend, CursorLeadsOn

\* or ends with an error,
LEMMA RefusedStep ==
  ASSUME ListingInv, SlugDoesNotExist \/ SlugNotOwnedByUser
  PROVE  ListingInv'
BY DEF SlugDoesNotExist, SlugNotOwnedByUser, Then, rows, Remembered, Shown, ListingInv, TypeOK,
       Keyed, InsertingOK, LinkedOK, LoadedOK, CursorOK, AheadOK, MoreOK, PagesDescend,
       CursorLeadsOn

\* and what is listed next is of the link that has all the clicks there are.
LEMMA LoadLinkStep ==
  ASSUME ListingInv, LoadLink
  PROVE  ListingInv'
<1> USE DEF LoadLink, Then, Exists, rows, Remembered, Shown
<1>1. loaded' \in LinkIds /\ \A c \in clicks : c.link = loaded'
  BY DEF ListingInv, TypeOK, Link, LinkedOK
<1> QED BY <1>1 DEF ListingInv, TypeOK, Keyed, InsertingOK, LinkedOK, LoadedOK, CursorOK,
                    AheadOK, MoreOK, PagesDescend, CursorLeadsOn
-------------------------------------------------------------------------------
(* A page. *)

\* What the answer is made of: either everything that is left, without a cursor,
\* or a page that is not empty, its oldest click, and at least one more behind.
LEMMA PageCases ==
  ASSUME ListingInv, NEW n \in 1..MaxLimit, ListClicks(n)
  PROVE  \/ page' = Selected /\ cursor' = Null
         \/ /\ page' \subseteq Selected /\ page' # {}
            /\ cursor' \in page' /\ \A d \in page' \ {cursor'} : Before(cursor', d)
            /\ \A c \in Selected \ page' : Before(c, cursor')
            /\ Selected \ page' # {}
<1> DEFINE F == Newest(Selected, n + 1)
<1>0. n \in Nat \ {0} /\ n + 1 \in Nat \ {0}
  BY OrderAssumption
<1>1. page' = Newest(F, n) /\ cursor' = IF Cardinality(F) > n THEN Last(Newest(F, n)) ELSE Null
  BY DEF ListClicks, HasNext
<1>2. Keyed(Selected) /\ IsFiniteSet(Selected)
  BY FS_Subset DEF ListingInv, Selected, Keyed, Remembered
<1> HIDE DEF F
<1>3. /\ F \subseteq Selected /\ Keyed(F) /\ IsFiniteSet(F) /\ Cardinality(F) \in Nat
      /\ \A c \in F, d \in Selected : Before(c, d) => d \in F
  BY <1>0, <1>2, PageIsTop, FS_CardinalityType DEF F
<1>4. CASE Cardinality(F) <= n
  <2>1. F = Selected
    BY <1>0, <1>2, <1>3, <1>4, ShortPageIsAll DEF F
  <2>2. page' = F
    BY <1>0, <1>1, <1>3, <1>4, SmallSetIsOnePage
  <2>3. cursor' = Null
    BY <1>0, <1>1, <1>3, <1>4
  <2> QED BY <2>1, <2>2, <2>3
<1>5. CASE Cardinality(F) > n
  <2>1. F # {}
    BY <1>0, <1>5, FS_EmptySet
  <2>2. /\ page' \subseteq F /\ Keyed(page') /\ IsFiniteSet(page') /\ page' # {}
        /\ \A c \in page', d \in F : Before(c, d) => d \in page'
    BY <1>0, <1>1, <1>3, <2>1, PageIsTop, PageIsNotEmpty
  <2>3. cursor' \in page' /\ \A d \in page' \ {cursor'} : Before(cursor', d)
    BY <1>1, <1>5, <2>2, LastIsOldest
  <2>4. ASSUME NEW c \in Selected \ page' PROVE Before(c, cursor')
    <3>1. cursor' \in Selected /\ ~ Before(cursor', c) /\ c # cursor'
      BY <1>3, <2>2, <2>3, <2>4
    <3> QED BY <1>2, <2>4, <3>1, BeforeOrders
  <2>5. Last(F) \in F \ page'
    BY <1>0, <1>1, <1>3, <1>5, FullPageLeavesSome
  <2> QED BY <1>3, <2>2, <2>3, <2>4, <2>5
<1> QED BY <1>0, <1>3, <1>4, <1>5

\* A page continues the walk.
LEMMA ListClicksStep ==
  ASSUME ListingInv, NEW n \in 1..MaxLimit, ListClicks(n)
  PROVE  ListingInv'
<1>0. /\ pc = "list" /\ pc' = "resting" /\ loaded' = Null
      /\ UNCHANGED <<link, clicks, inserting, earlier, began>>
  BY DEF ListClicks, rows
<1>1. /\ Selected \subseteq clicks
      /\ \A c \in Selected : cursor # Null => Before(c, cursor)
  BY DEF Selected, Beyond
<1>2. page' \subseteq Selected /\ page' \subseteq Click /\ cursor' \in Click \cup {Null}
  BY <1>1, PageCases DEF ListingInv, TypeOK
<1>3. Shown = earlier /\ (cursor = Null => earlier = {})
  BY <1>0 DEF ListingInv, CursorOK, Shown
<1>4. Keyed(Remembered)
  BY DEF ListingInv
<1>5. TypeOK' /\ IsFiniteSet(clicks') /\ LinkedOK' /\ LoadedOK'
  BY <1>0, <1>2 DEF ListingInv, TypeOK, LinkedOK, LoadedOK
<1>6. Remembered' \subseteq Remembered
  BY <1>0, <1>1, <1>2 DEF Remembered
<1>7. Keyed(Remembered)' /\ InsertingOK'
  BY <1>0, <1>1, <1>2, <1>4, <1>6 DEF Keyed, ListingInv, InsertingOK, Shown
<1>8. PagesDescend'
  <2> SUFFICES ASSUME NEW c \in page', NEW d \in earlier PROVE Before(c, d)
    BY <1>0 DEF PagesDescend
  <2>1. cursor # Null /\ Before(c, cursor) /\ (d = cursor \/ Before(cursor, d))
    BY <1>1, <1>2, <1>3 DEF ListingInv, CursorOK
  <2>2. c \in Remembered /\ d \in Remembered /\ cursor \in Remembered
    BY <1>1, <1>2, <2>1 DEF Remembered, ListingInv, CursorOK, Shown
  <2> QED BY <1>4, <2>1, <2>2, BeforeOrders
<1>9. CursorOK'
  <2>1. cursor' # Null => cursor' \in page' /\ \A d \in page' \ {cursor'} : Before(cursor', d)
    BY PageCases
  <2>2. cursor' # Null => \A d \in earlier : Before(cursor', d)
    BY <1>0, <1>8, <2>1 DEF PagesDescend
  <2> QED BY <1>0, <2>1, <2>2 DEF CursorOK, Shown
<1>10. AheadOK'
  <2> SUFFICES ASSUME NEW c \in (began \cap clicks) \ Shown'
               PROVE  cursor' # Null /\ Before(c, cursor')
    BY <1>0 DEF AheadOK
  <2>1. c \notin earlier /\ c \notin page'
    BY <1>0 DEF Shown
  <2>2. cursor # Null => Before(c, cursor)
    BY <1>3, <2>1 DEF ListingInv, AheadOK
  <2>3. c \in Selected
    BY <1>0, <2>2 DEF Selected, Beyond, ListingInv, LoadedOK
  <2> QED BY <1>2, <2>1, <2>3, PageCases, NullAssumption
<1>11. MoreOK'
  <2>1. cursor' # Null => \E c \in Selected : Before(c, cursor')
    BY PageCases
  <2> QED BY <1>0, <1>1, <2>1 DEF MoreOK
<1>12. CursorLeadsOn'
  <2> SUFFICES ASSUME page' = {}, NEW c \in earlier \cap clicks PROVE FALSE
    BY <1>0 DEF CursorLeadsOn
  <2>1. Selected = {}
    BY PageCases
  <2>2. PICK d \in clicks : Before(d, cursor) /\ d.link = loaded
    BY <1>0, <1>3 DEF ListingInv, MoreOK
  <2>3. d \in Selected
    BY <2>2 DEF Selected, Beyond
  <2> QED BY <2>1, <2>3
<1> QED BY <1>5, <1>7, <1>8, <1>9, <1>10, <1>11, <1>12 DEF ListingInv

\* ListingInv is inductive.
LEMMA ListingStep == ListingInv /\ [Next]_vars => ListingInv'
<1> SUFFICES ASSUME ListingInv, [Next]_vars PROVE ListingInv'
  OBVIOUS
<1>1. CASE UNCHANGED vars
  BY <1>1 DEF vars, rows, client, Remembered, Shown, ListingInv, TypeOK, Keyed, InsertingOK,
              LinkedOK, LoadedOK, CursorOK, AheadOK, MoreOK, PagesDescend, CursorLeadsOn
<1> QED BY <1>1, CreateLinkStep, DeleteLinkStep, RecordClickStep, CommitClickStep,
           AbortClickStep, FirstPageStep, NextPageStep, LoadLinkStep, RefusedStep,
           ListClicksStep DEF Next

\* ListingInv holds in every reachable state.
LEMMA ListingAlways == Spec => []ListingInv
BY ListingInit, ListingStep, PTL DEF Spec
-------------------------------------------------------------------------------
(* The theorems. *)

\* Every variable keeps its type; the cursor is always one of the clicks.
THEOREM ListingTyped == Spec => []TypeOK
<1>1. ListingInv => TypeOK
  BY DEF ListingInv
<1> QED BY <1>1, ListingAlways, PTL

\* No click is shown twice and no page goes back in time, whatever is recorded
\* and deleted between the requests ((timestamp, id) < cursor in
\* list_clicks_by_link_id).
THEOREM PagesAlwaysDescend == Spec => []PagesDescend
<1>1. ListingInv => PagesDescend
  BY DEF ListingInv
<1> QED BY <1>1, ListingAlways, PTL

\* A walk that has come to its end has shown every click that was there when it
\* began and still is (limit + 1 fetched, and the last one shown as the cursor).
THEOREM WalksAreComplete == Spec => []WalkIsComplete
<1>1. ListingInv => WalkIsComplete
  BY DEF ListingInv, AheadOK, WalkIsComplete, Shown
<1> QED BY <1>1, ListingAlways, PTL

\* A next_cursor leads to a page that is not empty, unless the link is deleted.
THEOREM CursorsLeadOn == Spec => []CursorLeadsOn
<1>1. ListingInv => CursorLeadsOn
  BY DEF ListingInv
<1> QED BY <1>1, ListingAlways, PTL
===============================================================================
