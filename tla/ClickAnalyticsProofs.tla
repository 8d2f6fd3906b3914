------------------------- MODULE ClickAnalyticsProofs -------------------------
(***************************************************************************)
(* What the analytics of a link show, for every time zone, every number of *)
(* clicks and every order in which they are committed.                     *)
(***************************************************************************)
EXTENDS ClickAnalytics, FiniteSetTheorems, TLAPS

(* The inductive invariant. *)

\* No click is older than its link, and there is none without it.
ClicksOK ==
  /\ IsFiniteSet(clicks)
  /\ link = Null => clicks = {}
  /\ \A c \in clicks : link <= c.time

\* A request belongs to one link, for as long as that is there.
RequestOK ==
  /\ pc = "idle" => days = Null /\ top = Null
  /\ pc # "idle" /\ ~ gone => link = created
  /\ quiet => pc # "idle" /\ ~ gone

\* What the statements have returned, if they saw the clicks S1, S2 and S3.
SummaryIs(S1) == pc # "summary" => summary = Summary(S1, created, now)
DaysAre(S2) == pc \in {"countries", "answered", "listed"} => days = DailyClicks(S2, zone, now)
ListedIs(S3) == pc = "listed" => listed = Cardinality(App(S3))

\* Each statement saw what the one before it saw, and perhaps more.
SawOK ==
  pc # "idle" /\ ~ gone =>
    \E S3 \in SUBSET clicks : \E S2 \in SUBSET S3 : \E S1 \in SUBSET S2 :
      /\ SummaryIs(S1) /\ DaysAre(S2) /\ ListedIs(S3)
      /\ quiet => S1 = clicks

\* Unless something was committed meanwhile, the third statement saw the same.
TopOK ==
  quiet /\ pc \in {"answered", "listed"} => top = TopCountries(clicks, zone, now)

AnalyticsInv == TypeOK /\ ClicksOK /\ RequestOK /\ SawOK /\ TopOK
-------------------------------------------------------------------------------
(* Local dates. *)

\* A date begins at its midnight.
LEMMA Division ==
  ASSUME NEW n \in Int, NEW m \in Nat \ {0}, NEW d \in Int
  PROVE  n \div m \in Int /\ (d <= n \div m <=> d * m <= n)
<1>1. /\ n \div m \in Int /\ n % m \in 0 .. m - 1
      /\ n = m * (n \div m) + (n % m)
  OBVIOUS
<1>2. CASE d <= n \div m
  <2>1. d * m <= (n \div m) * m
    BY <1>1, <1>2
  <2> QED BY <1>1, <1>2, <2>1
<1>3. CASE d >= n \div m + 1
  <2>1. d * m >= (n \div m + 1) * m
    BY <1>1, <1>3
  <2>2. (n \div m + 1) * m = (n \div m) * m + m
    BY <1>1
  <2> QED BY <1>1, <1>3, <2>1, <2>2
<1> QED BY <1>1, <1>2, <1>3

\* A zone's offsets, and the day's length that ToTimeRange and LocalDate divide by.
LEMMA ZoneTypes ==
  ASSUME NEW z \in Zones
  PROVE  /\ z.before \in Int /\ z.after \in Int /\ z.change \in Int
         /\ DayLength \in Nat \ {0}
         /\ Later(z) \in {z.before, z.after} /\ Earlier(z) \in {z.before, z.after}
         /\ Earlier(z) <= z.before /\ z.before <= Later(z)
         /\ Earlier(z) <= z.after /\ z.after <= Later(z)
         /\ \A t \in Int : Offset(z, t) \in Int /\ LocalDate(z, t) \in Int
BY ZoneAssumption, BoundAssumption, Division DEF Zone, Later, Earlier, Offset, LocalDate

\* A local date begins when the clocks show its midnight.
LEMMA DateBegins ==
  ASSUME NEW z \in Zones, NEW t \in Int, NEW d \in Int
  PROVE  d <= LocalDate(z, t) <=> d * DayLength <= t + Offset(z, t)
<1>1. t + Offset(z, t) \in Int /\ DayLength \in Nat \ {0}
  BY ZoneTypes
<1>2. d <= (t + Offset(z, t)) \div DayLength <=> d * DayLength <= t + Offset(z, t)
  BY <1>1, Division
<1> QED BY <1>2 DEF LocalDate

\* The clocks show one date before and after they are changed.
LEMMA OneDate ==
  ASSUME NEW z \in Zones, z.before # z.after
  PROVE  (z.change + Earlier(z)) \div DayLength = (z.change + Later(z) - 1) \div DayLength
BY ZoneAssumption

\* No midnight lies strictly between what the clocks show before and after they
\* are changed.
LEMMA NoMidnightBetween ==
  ASSUME NEW z \in Zones, NEW d \in Int,
         z.change + Earlier(z) < d * DayLength, d * DayLength < z.change + Later(z)
  PROVE  FALSE
<1> DEFINE a == z.change + Earlier(z)
           b == z.change + Later(z)
<1>1. /\ a \in Int /\ b \in Int /\ DayLength \in Nat \ {0} /\ d * DayLength \in Int
      /\ a < d * DayLength /\ d * DayLength <= b - 1 
  BY ZoneTypes
<1>2. d <= (b - 1) \div DayLength /\ ~ (d <= a \div DayLength)
  BY <1>1, Division
<1>3. a \div DayLength = (b - 1) \div DayLength
  BY <1>1, ZoneAssumption, ZoneTypes
<1> QED BY <1>2, <1>3

\* to_time_range: an instant comes after a local midnight if and only if its local
\* date does, though the clocks are changed once.
LEMMA MidnightIsExact ==
  ASSUME NEW z \in Zones, NEW d \in Int, NEW t \in Int
  PROVE  Midnight(z, d) \in Int /\ (Midnight(z, d) <= t <=> d <= LocalDate(z, t))
<1> DEFINE m == d * DayLength
<1>1. m \in Int
  BY ZoneTypes
<1>2. d <= LocalDate(z, t) <=> m <= t + Offset(z, t)
  BY DateBegins
<1>3. ~ (z.change + Earlier(z) < m /\ m < z.change + Later(z))
  BY NoMidnightBetween
<1>4. Midnight(z, d) = m - IF m < z.change + Later(z) THEN z.before ELSE z.after
  BY DEF Midnight
<1> HIDE DEF m
<1> QED BY <1>1, <1>2, <1>3, <1>4, ZoneTypes DEF Offset

\* Local dates ascend.
LEMMA DatesAscend ==
  ASSUME NEW z \in Zones, NEW t \in Int, NEW u \in Int, t <= u
  PROVE  LocalDate(z, t) <= LocalDate(z, u)
<1>1. LocalDate(z, t) \in Int
  BY ZoneTypes
<1>2. Midnight(z, LocalDate(z, t)) \in Int /\ Midnight(z, LocalDate(z, t)) <= t
  BY <1>1, MidnightIsExact
<1> QED BY <1>1, <1>2, MidnightIsExact

\* The statement over a period of UTC takes the instants of its local dates.
LEMMA PeriodIsExact ==
  ASSUME NEW z \in Zones, NEW u \in Int, NEW t \in Int
  PROVE  LET r == ToTimeRange(z, Period(z, u))
         IN r.start <= t /\ t < r.end <=> LocalDate(z, t) \in Dates(z, u)
<1> DEFINE f == Period(z, u).from
           l == Period(z, u).through
           r == ToTimeRange(z, Period(z, u))
<1>1. f \in Int /\ l \in Int /\ LocalDate(z, t) \in Int
  BY ZoneTypes, BoundAssumption DEF Period
<1>2. r.start = Midnight(z, f) /\ r.end = Midnight(z, l + 1)
  BY DEF ToTimeRange
<1>3. Dates(z, u) = f .. l
  BY DEF Dates
<1> HIDE DEF f, l, r
<1>4. /\ Midnight(z, f) <= t <=> f <= LocalDate(z, t)
      /\ Midnight(z, l + 1) \in Int
      /\ Midnight(z, l + 1) <= t <=> l + 1 <= LocalDate(z, t)
  BY <1>1, MidnightIsExact
<1>5. r.start <= t /\ t < r.end <=> LocalDate(z, t) \in f .. l
  BY <1>1, <1>2, <1>4
<1> QED BY <1>3, <1>5 DEF r

\* The clocks are set by no more than a day.
LEMMA ShiftIsBounded ==
  ASSUME NEW z \in Zones
  PROVE  Later(z) - Earlier(z) <= DayLength
<1> DEFINE D == DayLength
           a == z.change + Earlier(z)
           c == z.change + Later(z) - 1
           e == a \div D
           f == c \div D
<1>1. D \in Nat \ {0} /\ a \in Int /\ c \in Int
  BY ZoneTypes
<1>2. e \in Int /\ e + 1 \in Int /\ f \in Int
  BY <1>1, Division
<1>3. e * D <= a
  BY <1>1, <1>2, Division
<1>4. z.before # z.after => ~ (e + 1 <= f)
  <2>1. z.before # z.after => e = f
    BY OneDate
  <2> HIDE DEF e, f
  <2> QED BY <1>2, <2>1
<1>5. z.before # z.after => ~ ((e + 1) * D <= c)
  BY <1>1, <1>2, <1>4, Division
<1>6. (e + 1) * D = e * D + D /\ e * D \in Int
  BY <1>1, <1>2
<1>7. z.before = z.after => Later(z) = Earlier(z)
  BY DEF Later, Earlier
<1> HIDE DEF e
<1> QED BY <1>1, <1>2, <1>3, <1>5, <1>6, <1>7, ZoneTypes

\* The last week lies in the days that are shown.
LEMMA WeekIsShown ==
  ASSUME NEW z \in Zones, NEW u \in Int, NEW t \in Int,
         u - WeekDays * DayLength <= t, t < u
  PROVE  LocalDate(z, t) \in Dates(z, u)
<1> DEFINE D == DayLength
           n == LocalDate(z, u)
<1>1. /\ D \in Nat \ {0} /\ WeekDays \in Nat /\ PeriodDays \in Nat
      /\ PeriodDays >= WeekDays + 2 /\ n \in Int /\ LocalDate(z, t) \in Int
  BY ZoneTypes, BoundAssumption
<1>2. LocalDate(z, t) <= n
  BY DatesAscend
<1>3. Later(z) - Earlier(z) <= D
  BY ShiftIsBounded
<1>4. (n - WeekDays - 1) * D <= t + Offset(z, t)
  <2>1. n * D <= u + Offset(z, u)
    BY <1>1, DateBegins
  <2>2. Offset(z, u) - Offset(z, t) <= D /\ Offset(z, u) \in Int /\ Offset(z, t) \in Int
    BY <1>1, <1>3, ZoneTypes DEF Offset
  <2>3. (n - WeekDays - 1) * D = n * D - WeekDays * D - D /\ n * D \in Int /\ WeekDays * D \in Int
    BY <1>1
  <2> HIDE DEF D, n
  <2> QED BY <1>1, <2>1, <2>2, <2>3 DEF D
<1>5. n - WeekDays - 1 <= LocalDate(z, t)
  <2>1. n - WeekDays - 1 \in Int
    BY <1>1
  <2> QED BY <1>4, <2>1, DateBegins
<1> QED BY <1>1, <1>2, <1>5 DEF Dates, Period
-------------------------------------------------------------------------------
(* Counting. *)

\* The number of elements is the sum of the numbers of those with each key.
LEMMA SumOfParts ==
  ASSUME NEW S, IsFiniteSet(S), NEW D, IsFiniteSet(D), NEW key \in [S -> D],
         NEW h, DOMAIN h = D, \A d \in D : h[d] = Cardinality({x \in S : key[x] = d})
  PROVE  Total(h) = Cardinality(S)
<1> DEFINE pick(s) == CHOOSE d \in s : TRUE
           Part(s) == {x \in S : key[x] \in s}
           G(s) == Cardinality(Part(s))
           Sums(g) == g = [s \in SUBSET D |->
                             IF s = {} THEN 0 ELSE h[pick(s)] + g[s \ {pick(s)}]]
           iter == CHOOSE g : Sums(g)
<1>1. G({}) = 0
  <2>1. Part({}) = {}
    OBVIOUS
  <2> QED BY <2>1, FS_EmptySet
<1>2. ASSUME NEW s \in SUBSET D, s # {}
      PROVE  pick(s) \in s /\ G(s) = h[pick(s)] + G(s \ {pick(s)})
  <2> DEFINE d == pick(s)
             A == {x \in S : key[x] = d}
             B == Part(s \ {d})
  <2>1. d \in s
    BY <1>2
  <2> HIDE DEF d
  <2>2. Part(s) = A \cup B /\ A \cap B = {}
    BY <2>1
  <2>3. IsFiniteSet(A) /\ IsFiniteSet(B)
    BY FS_Subset
  <2>4. Cardinality(A) \in Nat /\ Cardinality(B) \in Nat
    BY <2>3, FS_CardinalityType
  <2>5. Cardinality(A \cup B) = Cardinality(A) + Cardinality(B)
    <3>1. A \cap B = {}
      BY <2>2
    <3> HIDE DEF A, B
    <3>2. Cardinality(A \cup B) = Cardinality(A) + Cardinality(B) - Cardinality(A \cap B)
      BY <2>3, FS_Union
    <3>3. Cardinality(A \cap B) = 0
      BY <3>1, FS_EmptySet
    <3> QED BY <2>4, <3>2, <3>3
  <2> HIDE DEF A, B
  <2>6. h[d] = Cardinality(A)
    BY <2>1 DEF A
  <2> QED BY <2>1, <2>2, <2>5, <2>6 DEF B, d
<1> HIDE DEF pick, G
<1>3. Sums([s \in SUBSET D |-> G(s)])
  BY <1>1, <1>2
<1>4. Sums(iter)
  BY <1>3
<1> HIDE DEF iter
<1>5. \A s \in SUBSET D : iter[s] = G(s)
  <2> DEFINE T == {s \in SUBSET D : iter[s] # G(s)}
  <2>1. SUFFICES ASSUME T # {} PROVE FALSE
    OBVIOUS
  <2>2. PICK s \in T : \A t \in T : <<t, s>> \notin StrictSubsetOrdering(D)
    <3>1. IsWellFoundedOn(StrictSubsetOrdering(D), SUBSET D)
      BY FS_StrictSubsetOrderingWellFounded, FS_FiniteSubsetsOfFinite
    <3>2. T \subseteq SUBSET D
      OBVIOUS
    <3> HIDE DEF T
    <3> QED BY <2>1, <3>1, <3>2, WFMin
  <2>3. s # {}
    BY <1>1, <1>4, <2>2
  <2>4. pick(s) \in s /\ s \ {pick(s)} \in SUBSET D
    BY <1>2, <2>2, <2>3
  <2>5. iter[s] = h[pick(s)] + iter[s \ {pick(s)}]
    BY <1>4, <2>2, <2>3
  <2>6. <<s \ {pick(s)}, s>> \in StrictSubsetOrdering(D)
    BY <2>2, <2>4 DEF StrictSubsetOrdering
  <2>7. s \ {pick(s)} \notin T
    BY <2>2, <2>6
  <2>8. iter[s \ {pick(s)}] = G(s \ {pick(s)})
    BY <2>4, <2>7
  <2> QED BY <1>2, <2>2, <2>3, <2>5, <2>8
<1>6. Total(h) = iter[D]
  BY DEF Total, MapThenSumSet, MapThenFoldSet, iter, pick
<1>7. Part(D) = S
  OBVIOUS
<1> QED BY <1>5, <1>6, <1>7 DEF G

\* A part of finitely many clicks is counted, and has no more than the whole.
LEMMA PartsCount ==
  ASSUME NEW S, IsFiniteSet(S), NEW T \in SUBSET S
  PROVE  /\ IsFiniteSet(T) /\ Cardinality(T) \in Nat
         /\ Cardinality(S) \in Nat /\ Cardinality(T) <= Cardinality(S)
BY FS_Subset, FS_CardinalityType

\* A finite set of numbers has a greatest.
LEMMA MaxOfFinite ==
  ASSUME NEW S \in SUBSET Int, IsFiniteSet(S), S # {}
  PROVE  Max(S) \in S /\ \A n \in S : Max(S) >= n
<1> DEFINE Up(n) == {k \in S : k > n}
           Ups == {Up(n) : n \in S}
<1>1. PICK U \in Ups : \A V \in Ups : <<V, U>> \notin StrictSubsetOrdering(S)
  <2>1. Ups \subseteq SUBSET S /\ Ups # {}
    OBVIOUS
  <2>2. IsWellFoundedOn(StrictSubsetOrdering(S), SUBSET S)
    BY FS_StrictSubsetOrderingWellFounded, FS_FiniteSubsetsOfFinite
  <2> HIDE DEF Ups
  <2> QED BY <2>1, <2>2, WFMin
<1>2. PICK n \in S : U = Up(n)
  OBVIOUS
<1>3. ASSUME NEW m \in S, m > n PROVE FALSE
  <2>1. Up(m) \subseteq Up(n) /\ m \in Up(n) /\ m \notin Up(m)
    <3>1. \A k \in S : k > m => k > n
      BY <1>3, \A i, j, k \in Int : k > i /\ i > j => k > j
    <3>2. Up(m) \subseteq Up(n)
      BY <3>1, Zenon
    <3>3. m \in Up(n)
      BY <1>3
    <3>4. ~ (m > m)
      BY \A i \in Int : ~ (i > i)
    <3>5. m \notin Up(m)
      BY <3>4
    <3> QED BY <3>2, <3>3, <3>5
  <2>2. <<Up(m), Up(n)>> \in StrictSubsetOrdering(S)
    BY <2>1 DEF StrictSubsetOrdering
  <2> QED BY <1>1, <1>2, <2>2
<1>4. \E x \in S : \A y \in S : x >= y
  BY <1>3
<1> QED BY <1>4 DEF Max

\* An image of a finite set is finite.
LEMMA ImageIsFinite ==
  ASSUME NEW S, IsFiniteSet(S), NEW f, f = [x \in S |-> f[x]]
  PROVE  IsFiniteSet({f[x] : x \in S})
<1> DEFINE T == {f[x] : x \in S}
<1>1. f \in Surjection(S, T)
  BY DEF Surjection
<1> QED BY <1>1, FS_Surjection
-------------------------------------------------------------------------------
(* What the statements return. *)

\* All that is counted is a part of the clicks.
LEMMA Parts ==
  ASSUME NEW S
  PROVE  /\ App(S) \in SUBSET S
         /\ \A r : Within(S, r) \in SUBSET S
         /\ \A k : Of(S, k) \in SUBSET S
BY DEF App, Within, Of

\* What each of the three statements returns, for the finite set of clicks it sees:
\* the two counts of the summary,
LEMMA SummaryType ==
  ASSUME NEW S, IsFiniteSet(S), NEW c, NEW t
  PROVE  Summary(S, c, t) \in [total: Nat, week: Nat]
BY Parts, PartsCount DEF Summary

\* a count for every day of the period,
LEMMA DailyClicksType ==
  ASSUME NEW S, IsFiniteSet(S), NEW z, NEW t
  PROVE  DailyClicks(S, z, t) \in [Dates(z, t) -> Nat]
<1> DEFINE found == Within(S, ToTimeRange(z, Period(z, t)))
<1>1. IsFiniteSet(found)
  BY Parts, PartsCount
<1> HIDE DEF found
<1>2. \A d : Cardinality({c \in found : LocalDate(z, c.time) = d}) \in Nat
  BY <1>1, PartsCount
<1> QED BY <1>2 DEF DailyClicks, found

\* and counts of some of the countries.
LEMMA TopCountriesType ==
  ASSUME NEW S, IsFiniteSet(S), NEW z, NEW t
  PROVE  LET a == TopCountries(S, z, t)
         IN a.known \in Nat /\ DOMAIN a.counts \subseteq Countries
<1> DEFINE found == Within(S, ToTimeRange(z, Period(z, t)))
<1>1. IsFiniteSet(found) /\ found \ Of(found, Null) \in SUBSET found
  BY Parts, PartsCount
<1> HIDE DEF found
<1>2. Cardinality(found \ Of(found, Null)) \in Nat
  BY <1>1, PartsCount
<1>3. Leading(found) \subseteq Countries
  BY DEF Leading
<1> QED BY <1>2, <1>3 DEF TopCountries, found

\* The clicks found over the period are those with a local date of it.
LEMMA FoundByDate ==
  ASSUME NEW S, \A c \in S : c.time \in Int, NEW z \in Zones, NEW t \in Int
  PROVE  Within(S, ToTimeRange(z, Period(z, t)))
           = {c \in App(S) : LocalDate(z, c.time) \in Dates(z, t)}
<1> DEFINE r == ToTimeRange(z, Period(z, t))
<1>1. \A c \in App(S) : r.start <= c.time /\ c.time < r.end
                          <=> LocalDate(z, c.time) \in Dates(z, t)
  BY PeriodIsExact DEF App
<1> HIDE DEF r
<1>2. Within(S, r) = {c \in App(S) : r.start <= c.time /\ c.time < r.end}
  BY DEF Within
<1> QED BY <1>1, <1>2 DEF r

\* A day is shown with the clicks that have its local date.
LEMMA DailyClicksAreExact ==
  ASSUME NEW S, \A c \in S : c.time \in Int, NEW z \in Zones, NEW t \in Int,
         NEW d \in Dates(z, t)
  PROVE  DailyClicks(S, z, t)[d] = Cardinality({c \in App(S) : LocalDate(z, c.time) = d})
<1> DEFINE found == Within(S, ToTimeRange(z, Period(z, t)))
<1>1. {c \in found : LocalDate(z, c.time) = d} = {c \in App(S) : LocalDate(z, c.time) = d}
  BY FoundByDate
<1> HIDE DEF found
<1> QED BY <1>1 DEF DailyClicks, found

\* The days together have the clicks of the period.
LEMMA DaysAddUp ==
  ASSUME NEW S, IsFiniteSet(S), \A c \in S : c.time \in Int,
         NEW z \in Zones, NEW t \in Int, NEW shownDays, shownDays = DailyClicks(S, z, t)
  PROVE  Total(shownDays) = Cardinality({c \in App(S) : LocalDate(z, c.time) \in Dates(z, t)})
<1> DEFINE shown == {c \in App(S) : LocalDate(z, c.time) \in Dates(z, t)}
           date == [c \in shown |-> LocalDate(z, c.time)]
<1>1. IsFiniteSet(shown)
  BY Parts, PartsCount
<1>2. IsFiniteSet(Dates(z, t))
  <2>1. LocalDate(z, t) \in Int /\ LocalDate(z, t) - (PeriodDays - 1) \in Int
    BY ZoneTypes, BoundAssumption
  <2>2. IsFiniteSet(LocalDate(z, t) - (PeriodDays - 1) .. LocalDate(z, t))
    BY <2>1, FS_Interval
  <2> QED BY <2>2 DEF Dates, Period
<1>3. date \in [shown -> Dates(z, t)]
  OBVIOUS
<1>4. \A d \in Dates(z, t) : shownDays[d] = Cardinality({c \in shown : date[c] = d})
  <2> TAKE d \in Dates(z, t)
  <2>1. {c \in shown : date[c] = d} = {c \in App(S) : LocalDate(z, c.time) = d}
    OBVIOUS
  <2>2. DailyClicks(S, z, t)[d] = Cardinality({c \in App(S) : LocalDate(z, c.time) = d})
    BY DailyClicksAreExact
  <2> QED BY <2>1, <2>2
<1>5. DOMAIN shownDays = Dates(z, t)
  BY DailyClicksType
<1> HIDE DEF shown, date
<1>6. Total(shownDays) = Cardinality(shown)
  BY <1>1, <1>2, <1>3, <1>4, <1>5, SumOfParts
<1> QED BY <1>6 DEF shown

\* The last week is part of the total and of the days, if the statement about the
\* days saw what the one before it saw.
LEMMA WeekNests ==
  ASSUME NEW S, IsFiniteSet(S), NEW T \in SUBSET S, \A c \in S : c.time \in Int,
         NEW z \in Zones, NEW t \in Int, NEW c0 \in Int, \A c \in T : c0 <= c.time
  PROVE  /\ Summary(T, c0, t).week <= Summary(T, c0, t).total
         /\ Summary(T, c0, t).week <= Total(DailyClicks(S, z, t))
         /\ Summary(T, c0, t).total <= Cardinality(App(S))
<1> DEFINE week == Within(T, [start |-> t - WeekDays * DayLength, end |-> t])
           total == Within(T, [start |-> c0, end |-> t])
           shown == {c \in App(S) : LocalDate(z, c.time) \in Dates(z, t)}
<1>1. \A c \in week : /\ c \in App(T) /\ c \in App(S)
                      /\ t - WeekDays * DayLength <= c.time /\ c.time < t
  BY DEF Within, App
<1>2. week \subseteq shown
  BY <1>1, WeekIsShown DEF App
<1>3. week \subseteq total
  BY <1>1 DEF Within, App
<1>4. total \subseteq App(S)
  BY DEF Within, App
<1>5. IsFiniteSet(total) /\ IsFiniteSet(shown) /\ IsFiniteSet(App(S))
  BY <1>4, Parts, PartsCount
<1> HIDE DEF week, total, shown
<1>6. /\ Cardinality(week) <= Cardinality(total)
      /\ Cardinality(week) <= Cardinality(shown)
      /\ Cardinality(total) <= Cardinality(App(S))
  BY <1>2, <1>3, <1>4, <1>5, PartsCount
<1>7. Total(DailyClicks(S, z, t)) = Cardinality(shown)
  BY DaysAddUp DEF shown
<1>8. Summary(T, c0, t).week = Cardinality(week) /\ Summary(T, c0, t).total = Cardinality(total)
  BY DEF Summary, week, total
<1> QED BY <1>6, <1>7, <1>8

\* The list shows what no country left out outranks.
LEMMA LeadersLead ==
  ASSUME NEW S, IsFiniteSet(S), NEW k \in Leading(S), NEW j \in Countries \ Leading(S)
  PROVE  Cardinality(Of(S, j)) <= Cardinality(Of(S, k))
<1> DEFINE n(i) == Cardinality(Of(S, i))
           Before(i) == {h \in Countries : Outranks(S, h, i)}
<1>1. \A i : n(i) \in Nat /\ IsFiniteSet(Of(S, i))
  BY Parts, PartsCount
<1>2. SUFFICES ASSUME n(j) > n(k) PROVE FALSE
  BY <1>1
<1>3. k \in Countries /\ Cardinality(Before(k)) < TopLimit /\ TopLimit \in Nat
  BY BoundAssumption DEF Leading
<1>4. Of(S, j) # {}
  BY <1>1, <1>2, FS_EmptySet
<1>5. ~ (Cardinality(Before(j)) < TopLimit)
  BY <1>4 DEF Leading
<1>6. Before(j) \in SUBSET Before(k)
  <2> SUFFICES ASSUME NEW h \in Countries, Outranks(S, h, j) PROVE Outranks(S, h, k)
    OBVIOUS
  <2>1. n(h) >= n(j)
    BY <1>1 DEF Outranks
  <2>2. n(h) > n(k)
    BY <1>1, <1>2, <2>1
  <2> QED BY <2>2 DEF Outranks
<1>7. IsFiniteSet(Before(k))
  BY BoundAssumption, PartsCount
<1> HIDE DEF Before
<1>8. Cardinality(Before(j)) \in Nat /\ Cardinality(Before(k)) \in Nat
      /\ Cardinality(Before(j)) <= Cardinality(Before(k))
  BY <1>6, <1>7, PartsCount
<1> QED BY <1>3, <1>5, <1>8
-------------------------------------------------------------------------------
(* The steps. *)

\* The constants the steps compare numbers with.
LEMMA Bounds == MaxClock \in Nat /\ DayLength \in Nat \ {0} /\ Null \notin Int
BY BoundAssumption

\* There is no link and no request to begin with.
LEMMA AnalyticsInit == Init => AnalyticsInv
<1> SUFFICES ASSUME Init PROVE AnalyticsInv
  OBVIOUS
<1>1. TypeOK
  <2>1. clock \in 0 .. MaxClock /\ clicks \subseteq Click
    BY Bounds DEF Init
  <2>2. gone \in BOOLEAN /\ quiet \in BOOLEAN
    BY DEF Init
  <2> QED BY <2>1, <2>2 DEF Init, TypeOK
<1>2. ClicksOK
  BY FS_EmptySet DEF Init, ClicksOK
<1>3. RequestOK /\ SawOK /\ TopOK
  BY DEF Init, RequestOK, SawOK, TopOK
<1> QED BY <1>1, <1>2, <1>3 DEF AnalyticsInv

\* A development link is older than its clicks.
LEMMA SeededEarlier ==
  ASSUME clock \in Int
  PROVE  /\ SeededAt \in Int
         /\ \A c \in SeedClicks : c.days_ago \in Nat /\ SeededAt <= clock - c.days_ago * DayLength
<1> DEFINE f == [c \in SeedClicks |-> c.days_ago]
           ages == {c.days_ago : c \in SeedClicks}
           m == Max(ages \cup {0})
<1>1. ages = {f[c] : c \in SeedClicks} /\ ages \subseteq Nat
  BY SeedAssumption
<1>2. IsFiniteSet(ages)
  <2>1. f = [c \in SeedClicks |-> f[c]]
    OBVIOUS
  <2> HIDE DEF f, ages
  <2> QED BY <1>1, <2>1, SeedAssumption, ImageIsFinite
<1>3. IsFiniteSet(ages \cup {0}) /\ ages \cup {0} \in SUBSET Int /\ ages \cup {0} # {}
  BY <1>1, <1>2, FS_AddElement
<1>4. m \in ages \cup {0} /\ \A n \in ages \cup {0} : m >= n
  <2> HIDE DEF ages
  <2> QED BY <1>3, MaxOfFinite
<1>5. SeededAt = clock - (m + 1) * DayLength
  BY DEF SeededAt
<1>6. m \in Nat /\ \A c \in SeedClicks : c.days_ago \in Nat /\ c.days_ago <= m
  BY <1>1, <1>4
<1> HIDE DEF m
<1>7. DayLength \in Nat /\ (m + 1) * DayLength \in Int
  BY <1>6, BoundAssumption
<1>8. ASSUME NEW c \in SeedClicks
      PROVE  SeededAt <= clock - c.days_ago * DayLength
  <2>1. c.days_ago * DayLength <= (m + 1) * DayLength /\ c.days_ago * DayLength \in Int
    <3> DEFINE a == c.days_ago
    <3>1. a \in Nat /\ a <= m
      BY <1>6
    <3> HIDE DEF a
    <3>2. \A x, y, w \in Nat : x <= y => x * w <= y * w
      OBVIOUS
    <3>3. a * DayLength <= (m + 1) * DayLength /\ a * DayLength \in Int
      BY <1>6, <1>7, <3>1, <3>2
    <3> QED BY <3>3 DEF a
  <2> QED BY <1>5, <1>7, <2>1
<1> QED BY <1>5, <1>6, <1>7, <1>8

\* What the statements of a request in progress saw.
LEMMA Saw ==
  ASSUME SawOK, pc # "idle", ~ gone
  PROVE  \E S1, S2, S3 \in SUBSET clicks :
           /\ S1 \subseteq S2 /\ S2 \subseteq S3
           /\ SummaryIs(S1) /\ DaysAre(S2) /\ ListedIs(S3)
           /\ quiet => S1 = clicks
<1>1. PICK S3 \in SUBSET clicks : \E S2 \in SUBSET S3 : \E S1 \in SUBSET S2 :
        /\ SummaryIs(S1) /\ DaysAre(S2) /\ ListedIs(S3)
        /\ quiet => S1 = clicks
  BY DEF SawOK
<1>2. PICK S2 \in SUBSET S3 : \E S1 \in SUBSET S2 :
        /\ SummaryIs(S1) /\ DaysAre(S2) /\ ListedIs(S3)
        /\ quiet => S1 = clicks
  BY <1>1
<1>3. PICK S1 \in SUBSET S2 :
        /\ SummaryIs(S1) /\ DaysAre(S2) /\ ListedIs(S3)
        /\ quiet => S1 = clicks
  BY <1>2
<1>4. S1 \subseteq clicks /\ S2 \subseteq clicks
  OBVIOUS
<1> QED BY <1>3, <1>4

\* A request goes on while links and clicks come and go: it saw what it saw, and is
\* no longer quiet.
LEMMA SawMore ==
  ASSUME SawOK, TopOK, Changed, gone' = gone, clicks \subseteq clicks'
  PROVE  SawOK' /\ TopOK'
<1> USE DEF Changed, request, answer
<1>1. ASSUME pc # "idle", ~ gone
      PROVE  \E S3 \in SUBSET clicks' : \E S2 \in SUBSET S3 : \E S1 \in SUBSET S2 :
               /\ SummaryIs(S1)' /\ DaysAre(S2)' /\ ListedIs(S3)'
               /\ quiet' => S1 = clicks'
  <2>1. PICK S1, S2, S3 \in SUBSET clicks :
          /\ S1 \subseteq S2 /\ S2 \subseteq S3
          /\ SummaryIs(S1) /\ DaysAre(S2) /\ ListedIs(S3)
    BY <1>1, Saw
  <2>2. S3 \in SUBSET clicks' /\ SummaryIs(S1)' /\ DaysAre(S2)' /\ ListedIs(S3)'
    BY <2>1 DEF SummaryIs, DaysAre, ListedIs
  <2> QED BY <2>1, <2>2
<1>2. SawOK'
  BY <1>1 DEF SawOK
<1> QED BY <1>2 DEF TopOK

\* Requests keep their type while links and clicks come and go.
LEMMA TypeFrame ==
  ASSUME TypeOK, Changed, link' \in Int \cup {Null}, clicks' \subseteq Click, gone' \in BOOLEAN
  PROVE  TypeOK'
BY DEF TypeOK, Changed, request, answer

\* A link that is created is new to every request.
LEMMA CreateLinkStep ==
  ASSUME AnalyticsInv, CreateLink
  PROVE  AnalyticsInv'
<1> USE DEF AnalyticsInv, CreateLink
<1>1. TypeOK'
  BY TypeFrame DEF TypeOK
<1>2. ClicksOK'
  BY Bounds DEF ClicksOK, TypeOK
<1> USE DEF Changed, request, answer
<1>3. pc = "idle"
  BY Bounds DEF RequestOK, TypeOK
<1>4. RequestOK'
  BY <1>3 DEF RequestOK
<1> QED BY <1>1, <1>2, <1>4, SawMore

\* So is one that is seeded, with clicks that are younger.
LEMMA SeedStep ==
  ASSUME AnalyticsInv, Seed
  PROVE  AnalyticsInv'
<1> USE DEF AnalyticsInv, Changed, request, answer
<1>1. PICK id \in [SeedClicks -> ClickIds] :
        clicks' = {[id |-> id[c], time |-> clock - c.days_ago * DayLength,
                    country |-> c.country, source |-> c.source] : c \in SeedClicks}
  BY DEF Seed
<1>2. clock \in Int /\ link = Null /\ link' = SeededAt /\ pc = "idle" /\ gone' = gone /\ Changed
  BY DEF Seed, TypeOK
<1>3. \A c \in SeedClicks : /\ clock - c.days_ago * DayLength \in Int
                            /\ SeededAt <= clock - c.days_ago * DayLength
                            /\ c.country \in Countries \cup {Null} /\ c.source \in Sources
  BY <1>2, SeededEarlier, BoundAssumption, SeedAssumption
<1>4. clicks' \subseteq Click /\ \A c \in clicks' : link' <= c.time
  BY <1>1, <1>2, <1>3 DEF Click
<1>5. IsFiniteSet(clicks')
  <2> DEFINE f == [c \in SeedClicks |->
                     [id |-> id[c], time |-> clock - c.days_ago * DayLength,
                      country |-> c.country, source |-> c.source]]
  <2>1. f = [c \in SeedClicks |-> f[c]] /\ clicks' = {f[c] : c \in SeedClicks}
    BY <1>1
  <2> HIDE DEF f
  <2> QED BY <2>1, SeedAssumption, ImageIsFinite
<1>6. link' \in Int
  BY <1>2, SeededEarlier
<1>7. TypeOK'
  BY <1>2, <1>4, <1>6, TypeFrame DEF TypeOK
<1>8. ClicksOK'
  BY <1>4, <1>5, <1>6, BoundAssumption DEF ClicksOK
<1>9. clicks \subseteq clicks'
  BY <1>2 DEF ClicksOK
<1>10. RequestOK'
  BY <1>2 DEF RequestOK
<1> QED BY <1>2, <1>7, <1>8, <1>9, <1>10, SawMore

\* A click that is committed is seen by the statements to come.
LEMMA RecordClickStep ==
  ASSUME AnalyticsInv, RecordClick
  PROVE  AnalyticsInv'
<1> USE DEF AnalyticsInv, Changed, request, answer
<1>1. PICK i \in ClickIds, k \in ClickKinds, t \in link .. clock :
        clicks' = clicks \cup {[id |-> i, time |-> t, country |-> k.country,
                               source |-> k.source]}
  BY DEF RecordClick
<1>2. link # Null /\ Changed /\ UNCHANGED <<link, gone>>
  BY DEF RecordClick
<1>3. link \in Int /\ clock \in Int /\ t \in Int /\ link <= t
  BY <1>2 DEF TypeOK
<1>4. k.country \in Countries \cup {Null} /\ k.source \in Sources
  BY BoundAssumption
<1>5. TypeOK'
  <2>1. clicks' \subseteq Click
    BY <1>1, <1>3, <1>4 DEF TypeOK, Click
  <2> QED BY <1>2, <1>3, <2>1, TypeFrame DEF TypeOK
<1>6. ClicksOK'
  <2>1. IsFiniteSet(clicks')
    BY <1>1, FS_AddElement DEF ClicksOK
  <2>2. link' = link /\ \A c \in clicks' : link <= c.time
    BY <1>1, <1>2, <1>3 DEF ClicksOK
  <2> QED BY <1>2, <2>1, <2>2 DEF ClicksOK
<1>7. RequestOK'
  BY <1>2 DEF RequestOK
<1> QED BY <1>1, <1>2, <1>5, <1>6, <1>7, SawMore

\* A request whose link is deleted has nothing more to be held to.
LEMMA DeleteLinkStep ==
  ASSUME AnalyticsInv, DeleteLink
  PROVE  AnalyticsInv'
<1> USE DEF AnalyticsInv, DeleteLink, Changed, request, answer
<1>1. (gone' <=> pc # "idle") /\ gone' \in BOOLEAN
  OBVIOUS
<1>2. TypeOK'
  BY <1>1, TypeFrame
<1>3. ClicksOK'
  BY FS_EmptySet DEF ClicksOK
<1>4. RequestOK' /\ SawOK' /\ TopOK'
  BY <1>1 DEF RequestOK, SawOK, TopOK
<1> QED BY <1>2, <1>3, <1>4

\* Time passes.
LEMMA TickStep ==
  ASSUME AnalyticsInv, Tick
  PROVE  AnalyticsInv'
<1> USE DEF AnalyticsInv, Tick, request, answer
<1>1. TypeOK'
  BY Bounds DEF TypeOK
<1>2. ClicksOK' /\ RequestOK'
  BY DEF ClicksOK, RequestOK
<1>3. SawOK' /\ TopOK'
  BY DEF SawOK, TopOK, SummaryIs, DaysAre, ListedIs
<1> QED BY <1>1, <1>2, <1>3

\* A request begins with the link it finds.
LEMMA GetClickAnalyticsStep ==
  ASSUME AnalyticsInv, NEW z \in Zones, GetClickAnalytics(z)
  PROVE  AnalyticsInv'
<1> USE DEF AnalyticsInv, GetClickAnalytics, store, answer
<1>1. TypeOK'
  <2>1. link \in Int /\ clock \in 0 .. clock /\ days = Null /\ top = Null
    BY DEF TypeOK, RequestOK
  <2> QED BY <2>1 DEF TypeOK
<1>2. ClicksOK' /\ RequestOK'
  BY DEF ClicksOK, RequestOK
<1>3. SawOK' /\ TopOK'
  BY DEF SawOK, TopOK, SummaryIs, DaysAre, ListedIs
<1> QED BY <1>1, <1>2, <1>3

\* Each statement sees all that is committed.
LEMMA GetSummaryStep ==
  ASSUME AnalyticsInv, GetSummary
  PROVE  AnalyticsInv'
<1> USE DEF AnalyticsInv, GetSummary, store, request
<1>1. TypeOK'
  <2>1. IsFiniteSet(Seen)
    BY FS_EmptySet DEF Seen, ClicksOK
  <2>2. summary' \in [total: Nat, week: Nat]
    BY <2>1, SummaryType
  <2> QED BY <2>2 DEF TypeOK
<1>2. ClicksOK' /\ RequestOK'
  BY DEF ClicksOK, RequestOK
<1>3. ASSUME ~ gone
      PROVE  SummaryIs(clicks)' /\ DaysAre(clicks)' /\ ListedIs(clicks)'
  BY <1>3 DEF SummaryIs, DaysAre, ListedIs, Seen
<1>4. SawOK' /\ TopOK'
  BY <1>3 DEF SawOK, TopOK
<1> QED BY <1>1, <1>2, <1>4

\* The second statement sees what the first one saw, and what came since; a request
\* that is still quiet saw nothing else.
LEMMA GetDailyClicksStep ==
  ASSUME AnalyticsInv, GetDailyClicks
  PROVE  AnalyticsInv'
<1> USE DEF AnalyticsInv, GetDailyClicks, store, request
<1>1. TypeOK'
  <2>1. IsFiniteSet(Seen)
    BY FS_EmptySet DEF Seen, ClicksOK
  <2>2. days' \in [Dates(zone, now) -> Nat]
    BY <2>1, DailyClicksType
  <2> QED BY <2>2 DEF TypeOK
<1>2. ClicksOK' /\ RequestOK'
  BY DEF ClicksOK, RequestOK
<1>3. ASSUME ~ gone
      PROVE  \E S1 \in SUBSET clicks :
               /\ SummaryIs(S1)' /\ DaysAre(clicks)' /\ ListedIs(clicks)'
               /\ quiet => S1 = clicks
  <2>1. PICK S1 \in SUBSET clicks : SummaryIs(S1) /\ (quiet => S1 = clicks)
    BY <1>3, Saw
  <2>2. SummaryIs(S1)' /\ DaysAre(clicks)' /\ ListedIs(clicks)'
    BY <1>3, <2>1 DEF SummaryIs, DaysAre, ListedIs, Seen
  <2> QED BY <2>1, <2>2
<1>4. SawOK' /\ TopOK'
  BY <1>3 DEF SawOK, TopOK
<1> QED BY <1>1, <1>2, <1>4

\* The third adds the countries and leaves the earlier answers alone.
LEMMA GetTopCountriesStep ==
  ASSUME AnalyticsInv, GetTopCountries
  PROVE  AnalyticsInv'
<1> USE DEF AnalyticsInv, GetTopCountries, store, request
<1>1. TypeOK'
  <2>1. IsFiniteSet(Seen)
    BY FS_EmptySet DEF Seen, ClicksOK
  <2>2. top'.known \in Nat /\ DOMAIN top'.counts \subseteq Countries
    BY <2>1, TopCountriesType
  <2> QED BY <2>2 DEF TypeOK
<1>2. ClicksOK' /\ RequestOK'
  BY DEF ClicksOK, RequestOK
<1>3. SawOK'
  BY DEF SawOK, SummaryIs, DaysAre, ListedIs
<1>4. TopOK'
  BY DEF TopOK, RequestOK, Seen
<1> QED BY <1>1, <1>2, <1>3, <1>4

\* The list of links, read by a later request, counts every click there is by then.
LEMMA ListClickCountsStep ==
  ASSUME AnalyticsInv, ListClickCounts
  PROVE  AnalyticsInv'
<1> USE DEF AnalyticsInv, ListClickCounts, store, request
<1>1. TypeOK'
  <2>1. IsFiniteSet(Seen)
    BY FS_EmptySet DEF Seen, ClicksOK
  <2>2. listed' \in Nat
    BY <2>1, Parts, PartsCount
  <2> QED BY <2>2 DEF TypeOK
<1>2. ClicksOK' /\ RequestOK'
  BY DEF ClicksOK, RequestOK
<1>3. ASSUME ~ gone
      PROVE  \E S2 \in SUBSET clicks : \E S1 \in SUBSET S2 :
               /\ SummaryIs(S1)' /\ DaysAre(S2)' /\ ListedIs(clicks)'
               /\ quiet => S1 = clicks
  <2>1. PICK S1, S2 \in SUBSET clicks :
          S1 \subseteq S2 /\ SummaryIs(S1) /\ DaysAre(S2) /\ (quiet => S1 = clicks)
    BY <1>3, Saw
  <2>2. SummaryIs(S1)' /\ DaysAre(S2)' /\ ListedIs(clicks)'
    BY <1>3, <2>1 DEF SummaryIs, DaysAre, ListedIs, Seen
  <2> QED BY <2>1, <2>2
<1>4. SawOK' /\ TopOK'
  BY <1>3 DEF SawOK, TopOK
<1> QED BY <1>1, <1>2, <1>4

\* Nothing stays of a request that is over.
LEMMA LeaveStep ==
  ASSUME AnalyticsInv, Leave
  PROVE  AnalyticsInv'
<1> USE DEF AnalyticsInv, Leave, store
<1>1. TypeOK'
  BY DEF TypeOK
<1>2. ClicksOK' /\ RequestOK' /\ SawOK' /\ TopOK'
  BY DEF ClicksOK, RequestOK, SawOK, TopOK
<1> QED BY <1>1, <1>2

\* AnalyticsInv is inductive.
LEMMA AnalyticsStep == AnalyticsInv /\ [Next]_vars => AnalyticsInv'
<1> SUFFICES ASSUME AnalyticsInv, [Next]_vars PROVE AnalyticsInv'
  OBVIOUS
<1>1. CASE UNCHANGED vars
  <2> USE <1>1 DEF vars, store, request, answer, AnalyticsInv
  <2>1. TypeOK'
    BY DEF TypeOK
  <2>2. ClicksOK' /\ RequestOK'
    BY DEF ClicksOK, RequestOK
  <2>3. SawOK' /\ TopOK'
    BY DEF SawOK, TopOK, SummaryIs, DaysAre, ListedIs
  <2> QED BY <2>1, <2>2, <2>3
<1>2. CASE CreateLink \/ Seed \/ RecordClick \/ DeleteLink \/ Tick
  BY <1>2, CreateLinkStep, SeedStep, RecordClickStep, DeleteLinkStep, TickStep
<1>3. ASSUME NEW z \in Zones, GetClickAnalytics(z) PROVE AnalyticsInv'
  BY <1>3, GetClickAnalyticsStep
<1>4. CASE GetSummary \/ GetDailyClicks \/ GetTopCountries \/ ListClickCounts \/ Leave
  BY <1>4, GetSummaryStep, GetDailyClicksStep, GetTopCountriesStep, ListClickCountsStep,
     LeaveStep
<1> QED BY <1>1, <1>2, <1>3, <1>4 DEF Next

\* AnalyticsInv holds in every reachable state.
LEMMA AnalyticsAlways == Spec => []AnalyticsInv
BY AnalyticsInit, AnalyticsStep, PTL DEF Spec
-------------------------------------------------------------------------------
(* The theorems. *)

\* Every variable keeps its type: every day of the period has a count.
THEOREM AnalyticsTyped == Spec => []TypeOK
<1>1. AnalyticsInv => TypeOK
  BY DEF AnalyticsInv
<1> QED BY <1>1, AnalyticsAlways, PTL

\* Every day is shown with the clicks of its local date that the statement saw, in
\* every zone: to_time_range and GROUP BY of the local date agree, on the first
\* and the last day and where the clocks are changed.
THEOREM DaysStayExact == Spec => DaysAreExact
<1> DEFINE A == pc = "daily" /\ pc' = "countries" =>
                  \A d \in Dates(zone, now) :
                    days'[d] = Cardinality({c \in App(Seen) : LocalDate(zone, c.time) = d})
<1>1. AnalyticsInv /\ [Next]_vars => [A]_vars
  <2> SUFFICES ASSUME AnalyticsInv, Next, pc = "daily", pc' = "countries",
                      NEW d \in Dates(zone, now)
               PROVE  days'[d] = Cardinality({c \in App(Seen) : LocalDate(zone, c.time) = d})
    OBVIOUS
  <2>1. days' = DailyClicks(Seen, zone, now)
    BY DEF Next, CreateLink, Seed, RecordClick, DeleteLink, Changed, Tick, GetClickAnalytics,
           GetSummary, GetDailyClicks, GetTopCountries, ListClickCounts, Leave
  <2>2. zone \in Zones /\ now \in Int /\ \A c \in Seen : c.time \in Int
    BY DEF AnalyticsInv, TypeOK, Seen, Click
  <2> QED BY <2>1, <2>2, DailyClicksAreExact
<1> QED BY <1>1, AnalyticsAlways, PTL DEF Spec, DaysAreExact

\* Whatever is committed between the statements, the last week is part of the total
\* and of the days, and the total part of the count in the list, unless the link
\* was deleted.
THEOREM CountsStayNested == Spec => []CountsNest
<1>1. AnalyticsInv => CountsNest
  <2> SUFFICES ASSUME AnalyticsInv, Answered, ~ gone
               PROVE  /\ summary.week <= summary.total
                      /\ summary.week <= Total(days)
                      /\ pc = "listed" => summary.total <= listed
    BY DEF CountsNest
  <2> USE DEF AnalyticsInv, Answered
  <2>1. PICK S1, S2, S3 \in SUBSET clicks :
          /\ S1 \subseteq S2 /\ S2 \subseteq S3
          /\ SummaryIs(S1) /\ DaysAre(S2) /\ ListedIs(S3)
    BY Saw
  <2>2. /\ summary = Summary(S1, created, now)
        /\ days = DailyClicks(S2, zone, now)
        /\ pc = "listed" => listed = Cardinality(App(S3))
    BY <2>1 DEF SummaryIs, DaysAre, ListedIs
  <2>3. /\ zone \in Zones /\ now \in Int /\ created \in Int
        /\ \A c \in clicks : c.time \in Int /\ created <= c.time
        /\ IsFiniteSet(S2) /\ IsFiniteSet(S3)
    BY PartsCount DEF TypeOK, Click, RequestOK, ClicksOK
  <2>4. /\ summary.week <= summary.total
        /\ summary.week <= Total(days)
    BY <2>1, <2>2, <2>3, WeekNests
  <2>5. Summary(S1, created, now).total <= Cardinality(App(S3))
    BY <2>1, <2>3, WeekNests
  <2> QED BY <2>2, <2>4, <2>5
<1> QED BY <1>1, AnalyticsAlways, PTL

\* If nothing is committed between the statements they describe one state, and no
\* country that is left out has more clicks than one that is listed.
THEOREM SectionsStayInAgreement == Spec => []SectionsAgree
<1>1. AnalyticsInv => SectionsAgree
  <2> SUFFICES ASSUME AnalyticsInv, Answered, quiet
               PROVE  SectionsAgree
    BY DEF SectionsAgree
  <2> USE DEF AnalyticsInv, Answered
  <2> DEFINE shown == {c \in App(clicks) : LocalDate(zone, c.time) \in DOMAIN days}
             found == Within(clicks, ToTimeRange(zone, Period(zone, now)))
  <2>1. pc # "idle" /\ ~ gone
    BY DEF RequestOK
  <2>2. PICK S1, S2 \in SUBSET clicks :
          S1 \subseteq S2 /\ S1 = clicks /\ SummaryIs(S1) /\ DaysAre(S2)
    BY <2>1, Saw
  <2>3. /\ summary = Summary(clicks, created, now)
        /\ days = DailyClicks(clicks, zone, now)
        /\ top = TopCountries(clicks, zone, now)
    BY <2>2 DEF SummaryIs, DaysAre, TopOK
  <2>4. /\ zone \in Zones /\ now \in Int /\ created \in Int
        /\ \A c \in clicks : c.time \in Int /\ created <= c.time
        /\ IsFiniteSet(clicks) /\ IsFiniteSet(found)
    BY <2>1, Parts, PartsCount DEF TypeOK, Click, RequestOK, ClicksOK
  <2>5. found = shown
    BY <2>3, <2>4, FoundByDate, DailyClicksType
  <2>6. summary.total = Cardinality({c \in App(clicks) : c.time < now})
    <3>1. Within(clicks, [start |-> created, end |-> now]) = {c \in App(clicks) : c.time < now}
      BY <2>4 DEF Within, App
    <3> QED BY <2>3, <3>1 DEF Summary
  <2> HIDE DEF found, shown
  <2>7. /\ top.known = Cardinality(shown \ Of(shown, Null))
        /\ top.counts = [k \in Leading(shown) |-> Cardinality(Of(shown, k))]
    BY <2>3, <2>5 DEF TopCountries, found
  <2>8. shown \ Of(shown, Null) = {c \in shown : c.country # Null}
    BY DEF Of
  <2>9. ASSUME NEW k \in DOMAIN top.counts
        PROVE  /\ top.counts[k] = Cardinality(Of(shown, k))
               /\ \A j \in Countries \ DOMAIN top.counts :
                    Cardinality(Of(shown, j)) <= top.counts[k]
    BY <2>4, <2>5, <2>7, LeadersLead
  <2> QED BY <2>6, <2>7, <2>8, <2>9 DEF SectionsAgree, shown
<1> QED BY <1>1, AnalyticsAlways, PTL
===============================================================================
