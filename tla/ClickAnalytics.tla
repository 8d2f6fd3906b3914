---------------------------- MODULE ClickAnalytics ----------------------------
(***************************************************************************)
(* The analytics of a link: one request is a lookup, a reading of the clock*)
(* and three statements, each on its own snapshot, while clicks of the link*)
(* are committed and the link is deleted.  The statements take the period  *)
(* as an interval of UTC and count by local date, in a time zone whose     *)
(* clocks may change once.                                                 *)
(*                                                                         *)
(* Time is an integer; a day has DayLength units.  There is one clock.     *)
(***************************************************************************)
EXTENDS Integers, FiniteSets, FiniteSetsExt

CONSTANTS
  ClickIds,
  Countries,   \* country codes, numbered in their order
  Zones,       \* the IANA time zones a request may name
  SeedClicks,  \* DEVELOPMENT_LINKS: the clicks of a development link
  DayLength,
  PeriodDays,  \* 4 * 7
  WeekDays,    \* 7
  TopLimit,    \* 5, the countries listed
  ClickKinds,  \* what is recorded of a click beside its time
  CommitDelay, \* the longest time from a click's INSERT to its COMMIT
  Latency,     \* bound: how long a request may take
  MaxClock,    \* bound: the clock stops there
  Null         \* no link, no country, no answer yet

Sources == {"LNKR_APP", "PUBLIC_API"}

\* A zone's offset to UTC is "before" until the instant "change", then "after".
Zone == [before: Int, after: Int, change: Int]

Later(z) == IF z.before < z.after THEN z.after ELSE z.before
Earlier(z) == IF z.before < z.after THEN z.before ELSE z.after

\* No midnight lies strictly between what the clocks show before and after they
\* are changed, so dates neither recur nor begin in the part that is left out.
ASSUME ZoneAssumption ==
  \A z \in Zones :
    /\ z \in Zone
    /\ \/ z.before = z.after
       \/ (z.change + Earlier(z)) \div DayLength = (z.change + Later(z) - 1) \div DayLength

ASSUME SeedAssumption ==
  /\ SeedClicks \subseteq [days_ago: Nat, country: Countries \cup {Null}, source: Sources]
  /\ IsFiniteSet(SeedClicks)
  /\ Cardinality(SeedClicks) <= Cardinality(ClickIds)

\* The period reaches further back than the last week, by more than a clock is set.
ASSUME BoundAssumption ==
  /\ {DayLength, WeekDays, TopLimit, MaxClock} \subseteq Nat \ {0}
  /\ {PeriodDays, CommitDelay, Latency} \subseteq Nat
  /\ Countries \subseteq Int /\ IsFiniteSet(Countries)
  /\ ClickKinds \subseteq [country: Countries \cup {Null}, source: Sources]
  /\ PeriodDays >= WeekDays + 2
  /\ Null \notin Int

VARIABLES
  clock,
  link,    \* created_at of the link, or Null
  clicks,  \* the committed clicks of the link
  pc,      \* the statement the request comes to next
  zone,    \* its time zone
  created, \* created_at of the link it found
  now,     \* when it read the clock
  gone,    \* its link has been deleted
  quiet,   \* no click was committed or deleted since it read the clock
  summary, \* the sections of its answer
  days,
  top,
  listed   \* the count the list of links shows after that

store == <<clock, link, clicks>>
answer == <<summary, days, top, listed>>
request == <<zone, created, now>>
vars == <<store, pc, request, gone, quiet, answer>>

Click == [id: ClickIds, time: Int, country: Countries \cup {Null}, source: Sources]

Init ==
  /\ clock = 0
  /\ link = Null
  /\ clicks = {}
  /\ pc = "idle"
  /\ zone = Null /\ created = Null /\ now = Null
  /\ gone = FALSE /\ quiet = FALSE
  /\ summary = Null /\ days = Null /\ top = Null /\ listed = Null
-------------------------------------------------------------------------------
(* Local dates and the period of an answer. *)

Offset(z, t) == IF t < z.change THEN z.before ELSE z.after
LocalDate(z, t) == (t + Offset(z, t)) \div DayLength

\* Mutant: the second of two readings of one local time.
Midnight_Second(z, d) ==
  d * DayLength - IF d * DayLength < z.change + Earlier(z) THEN z.before ELSE z.after

\* The instant of a local midnight: datetime.combine with fold 0 takes the first
\* of two, and the offset before the change for one that is left out.
Midnight(z, d) ==
  d * DayLength - IF d * DayLength < z.change + Later(z) THEN z.before ELSE z.after

Period(z, t) == [from |-> LocalDate(z, t) - (PeriodDays - 1), through |-> LocalDate(z, t)]
Dates(z, t) == Period(z, t).from .. Period(z, t).through

ToTimeRange(z, p) ==
  [start |-> Midnight(z, p.from), end |-> Midnight(z, p.through + 1)]

App(S) == {c \in S : c.source = "LNKR_APP"}
Within(S, r) == {c \in App(S) : r.start <= c.time /\ c.time < r.end}
Of(S, k) == {c \in S : c.country = k}
-------------------------------------------------------------------------------
(* What the statements return, for the clicks S they see. *)

\* count_clicks_by_periods: both counts in one statement.
Summary(S, since, t) ==
  [total |-> Cardinality(Within(S, [start |-> since, end |-> t])),
   week |-> Cardinality(Within(S, [start |-> t - WeekDays * DayLength, end |-> t]))]

\* Mutant: days without a click are left out.
DailyClicks_Sparse(S, z, t) ==
  LET found == Within(S, ToTimeRange(z, Period(z, t)))
  IN [d \in {LocalDate(z, c.time) : c \in found} |->
        Cardinality({c \in found : LocalDate(z, c.time) = d})]

\* GROUP BY local date, then every day of the period with its count or 0.
DailyClicks(S, z, t) ==
  LET found == Within(S, ToTimeRange(z, Period(z, t)))
  IN [d \in Dates(z, t) |-> Cardinality({c \in found : LocalDate(z, c.time) = d})]

\* ORDER BY count DESC, country_code.
Outranks(S, j, k) ==
  \/ Cardinality(Of(S, j)) > Cardinality(Of(S, k))
  \/ Cardinality(Of(S, j)) = Cardinality(Of(S, k)) /\ j < k

Leading(S) ==
  {k \in Countries : /\ Of(S, k) # {}
                     /\ Cardinality({j \in Countries : Outranks(S, j, k)}) < TopLimit}

\* Mutant: the total of the rows that are left after LIMIT.
TopCountries_Listed(S, z, t) ==
  LET found == Within(S, ToTimeRange(z, Period(z, t)))
  IN [known |-> Cardinality(UNION {Of(found, k) : k \in Leading(found)}),
      counts |-> [k \in Leading(found) |-> Cardinality(Of(found, k))]]

\* The window function sums over all groups, before LIMIT.
TopCountries(S, z, t) ==
  LET found == Within(S, ToTimeRange(z, Period(z, t)))
  IN [known |-> Cardinality(found \ Of(found, Null)),
      counts |-> [k \in Leading(found) |-> Cardinality(Of(found, k))]]
-------------------------------------------------------------------------------
(* Links and clicks come and go. *)

Changed == quiet' = FALSE /\ UNCHANGED <<clock, pc, request, answer>>

\* A link of a request whose own is gone would be another one, with another id.
CreateLink ==
  /\ link = Null /\ ~ gone
  /\ link' = clock
  /\ UNCHANGED <<clicks, gone>>
  /\ Changed

\* Mutant: a development link is as old as the process.
SeededAt_Now == clock

\* One day older than the oldest click.
SeededAt == clock - (Max({c.days_ago : c \in SeedClicks} \cup {0}) + 1) * DayLength

\* create_initial_data, in development, unless the slug exists: the link and its
\* clicks in one transaction, before the process serves requests.
Seed ==
  /\ link = Null /\ pc = "idle"
  /\ link' = SeededAt
  /\ \E id \in [SeedClicks -> ClickIds] :
       /\ \A c, d \in SeedClicks : id[c] = id[d] => c = d
       /\ clicks' = {[id |-> id[c], time |-> clock - c.days_ago * DayLength,
                      country |-> c.country, source |-> c.source] : c \in SeedClicks}
  /\ UNCHANGED gone
  /\ Changed

\* A click is timestamped when it is inserted and seen when that is committed.
RecordClick ==
  /\ link # Null
  /\ \E i \in ClickIds \ {c.id : c \in clicks}, k \in ClickKinds,
        t \in {u \in link .. clock : clock - u <= CommitDelay} :
       clicks' = clicks \cup {[id |-> i, time |-> t, country |-> k.country,
                               source |-> k.source]}
  /\ UNCHANGED <<link, gone>>
  /\ Changed

\* ON DELETE CASCADE.
DeleteLink ==
  /\ link # Null
  /\ link' = Null
  /\ clicks' = {}
  /\ gone' = (pc # "idle")
  /\ Changed

Tick ==
  /\ clock < MaxClock
  /\ pc # "idle" => clock - now < Latency
  /\ clock' = clock + 1
  /\ UNCHANGED <<link, clicks, pc, request, gone, quiet, answer>>
-------------------------------------------------------------------------------
(* A request, and the list of links after it. *)

\* The lookup names the link by its id from here on.
Seen == IF gone THEN {} ELSE clicks

\* get_link_validate_user found the link; the clock is read once.
GetClickAnalytics(z) ==
  /\ pc = "idle" /\ link # Null
  /\ pc' = "summary"
  /\ zone' = z
  /\ created' = link
  /\ now' = clock
  /\ gone' = FALSE /\ quiet' = TRUE
  /\ UNCHANGED <<store, answer>>

GetSummary ==
  /\ pc = "summary"
  /\ pc' = "daily"
  /\ summary' = Summary(Seen, created, now)
  /\ UNCHANGED <<store, request, gone, quiet, days, top, listed>>

GetDailyClicks ==
  /\ pc = "daily"
  /\ pc' = "countries"
  /\ days' = DailyClicks(Seen, zone, now)
  /\ UNCHANGED <<store, request, gone, quiet, summary, top, listed>>

GetTopCountries ==
  /\ pc = "countries"
  /\ pc' = "answered"
  /\ top' = TopCountries(Seen, zone, now)
  /\ UNCHANGED <<store, request, gone, quiet, summary, days, listed>>

\* list_click_counts: all clicks of the app, whenever they were.
ListClickCounts ==
  /\ pc = "answered"
  /\ pc' = "listed"
  /\ listed' = Cardinality(App(Seen))
  /\ UNCHANGED <<store, request, gone, quiet, summary, days, top>>

\* The client leaves, or the request fails.
Leave ==
  /\ pc # "idle"
  /\ pc' = "idle"
  /\ zone' = Null /\ created' = Null /\ now' = Null
  /\ gone' = FALSE /\ quiet' = FALSE
  /\ summary' = Null /\ days' = Null /\ top' = Null /\ listed' = Null
  /\ UNCHANGED store

Next ==
  \/ CreateLink \/ Seed \/ RecordClick \/ DeleteLink \/ Tick
  \/ \E z \in Zones : GetClickAnalytics(z)
  \/ GetSummary \/ GetDailyClicks \/ GetTopCountries \/ ListClickCounts \/ Leave

Spec == Init /\ [][Next]_vars
-------------------------------------------------------------------------------
(* Properties. *)

Answered == pc \in {"answered", "listed"}

TypeOK ==
  /\ clock \in 0 .. MaxClock
  /\ link \in Int \cup {Null}
  /\ clicks \subseteq Click
  /\ pc \in {"idle", "summary", "daily", "countries", "answered", "listed"}
  /\ pc # "idle" => zone \in Zones /\ created \in Int /\ now \in 0 .. clock
  /\ gone \in BOOLEAN /\ quiet \in BOOLEAN
  /\ pc \notin {"idle", "summary"} => summary \in [total: Nat, week: Nat]
  /\ days # Null => days \in [Dates(zone, now) -> Nat]
  /\ top # Null => top.known \in Nat /\ DOMAIN top.counts \subseteq Countries
  /\ listed \in Nat \cup {Null}

\* Every day shown has all the clicks of that local date and no other, through a
\* change of clocks and on the first and last day too (to_time_range against
\* GROUP BY of the local date).
DaysAreExact ==
  [][pc = "daily" /\ pc' = "countries" =>
       \A d \in Dates(zone, now) :
         days'[d] = Cardinality({c \in App(Seen) : LocalDate(zone, c.time) = d})]_vars

\* The sum of the counts of all days.
Total(f) == MapThenSumSet(LAMBDA d : f[d], DOMAIN f)

\* Whatever is committed between the statements, the counts a client is shown
\* fit together unless the link was deleted: the last week is part of the total
\* and of the days, and the total part of the count in the list.
CountsNest ==
  Answered /\ ~ gone =>
    /\ summary.week <= summary.total
    /\ summary.week <= Total(days)
    /\ pc = "listed" => summary.total <= listed

\* If nothing is committed between the statements they describe one state: the
\* total misses no click before now, the shares of the countries are of
\* the days' clicks from known countries, and no country left out has more
\* clicks than one that is listed.
SectionsAgree ==
  Answered /\ quiet =>
    LET shown == {c \in App(clicks) : LocalDate(zone, c.time) \in DOMAIN days}
    IN /\ summary.total = Cardinality({c \in App(clicks) : c.time < now})
       /\ top.known = Cardinality({c \in shown : c.country # Null})
       /\ \A k \in DOMAIN top.counts :
            /\ top.counts[k] = Cardinality(Of(shown, k))
            /\ \A j \in Countries \ DOMAIN top.counts :
                 Cardinality(Of(shown, j)) <= top.counts[k]
===============================================================================
