# A TLA+ model of lnkr-api

lnkr-api is a link shortener: a FastAPI application in three replicas, PostgreSQL
for everything that lasts, Redis for copies of links. This directory holds TLA+
modules of its stateful parts, the TLC configurations that check them on small
instances, and proofs, checked by TLAPS, of what holds for every instance.
`PROJECT.json` lists the runs and theorems and says for every definition which
lines of the source it stands for.

    tlc -workers 2 -config MCAuthTokens.cfg MCAuthTokens.tla     # one run
    tlapm AuthTokensProofs.tla                                   # the proofs

## 1. Inventory

### The parts

| Component | Source (below `src/src/lnkr/`) | State it keeps | Operations |
|---|---|---|---|
| Link cache | `cache/link_cache.py` | Redis keys `link:<slug>`: a `LinkCache`, or the tombstone `invalidated`, each with a time to live | fill (`SET NX EX 60`), get (and discard of what does not validate), invalidate one or many (`SET EX 5`) |
| Forward and unlock | `api/routes/forward_route.py`, `services/link_service.py` | none of its own; writes rows of `clicks` | look up by cache or database, fill, decide, record a click |
| Link management | `api/routes/link_route.py`, `services/link_service.py`, `database/link_database.py` | rows of `links` | create (under the user row's lock and the limit), update, delete, list, read, random slug, QR code |
| Accounts | `services/user_service.py`, `database/user_database.py` | rows of `users` | get or create at sign-in, delete with everything that belongs to the account |
| Login tokens | `services/tokens/login_token_service.py` | rows of `login_tokens`: hash, email, `expires_at`, `used_at` | issue, exchange once, delete with the account |
| Refresh tokens | `services/tokens/refresh_token_service.py` | rows of `refresh_tokens`: hash, user, `expires_at`, `used_at`, `revoked_at` | issue, rotate, revoke, cascade |
| Authentication routes | `api/routes/auth_route.py`, `api/dependencies/auth.py` | none; an access token is a signed user id | one transaction (`session.begin()`) per request; the current user is read, not locked |
| Clicks and analytics | `services/click_service.py`, `database/click_database.py` | rows of `clicks` | record, page by cursor, count and group by day, country, ... |
| Seed data | `database/initial_data.py` | rows of all tables, development only | insert links and dated-back clicks, in one transaction, before requests are served |
| Error mapping | `exceptions.py` | none | exception class to HTTP status and headers |
| Metadata, health, email, GeoIP | `api/dependencies/header.py`, `services/*_service.py` | none | parsing and I/O |
| Startup and shutdown | `main.py`, `database/__init__.py` | connections | open, close |
| Migrations, deployment | `src/alembic`, `src/deployment` | configuration | replicas, rolling release, eviction policy |

### How they interact

Every request runs as a coroutine with a database session of its own. Requests
share nothing in memory; they meet in PostgreSQL and in Redis.

* PostgreSQL runs at READ COMMITTED. A statement sees what is committed when it
  starts. A written row belongs to its transaction until that ends;
  `get_user_by_id_for_update` takes a user row without writing it. Foreign keys
  cascade: users to links and refresh tokens, links to clicks. Login tokens know
  only an email and are deleted by `delete_user` itself.
* Redis is asked before PostgreSQL by forward and unlock and told after the commit
  by update, delete and account deletion. There is no transaction over both. What
  stands in for one is a protocol: a mutation leaves a tombstone for five seconds,
  a reader fills with `NX`, so that a copy read before the mutation is refused.
* Redis errors are suppressed on every path. Redis may evict any key
  (`allkeys-lru`), restart, and hold entries written by another release
  (`start-first` rolling update).
* The client's side has state as well: a token value it was given, a
  `next_cursor`, a page number, and an HTTP cache that keeps what the answers'
  `Cache-Control` lets it keep.

### What is hard

Interleavings of statements from any number of requests; a value read before an
`await` and used after it; commits that are not followed by what should follow
them; locks taken in different orders; rows that vanish between two statements;
answers made of several queries; answers kept by a client's HTTP cache. `PROJECT.json`
lists 40 hazards, each at the line where it bites and with the properties that would
notice it going wrong.

### What makes each part correct

* Link cache with forward, unlock and link management: a cached link is the
  committed one unless a mutation is about to say otherwise; nobody is answered
  with a version whose replacement was answered before; when messages get lost, a
  copy is late by a bounded time.
* Link management: the limit holds however creations interleave; updates that
  overlap undo nothing of each other; a listing neither loses nor repeats links.
* Accounts: everything an account owns disappears and is invalidated with it; an
  email has one account; accounts come from completed sign-ins only.
* Tokens: a token is exchanged once, and is used up exactly if something was
  issued for it; a sign-in has one live refresh token; chains stay inside the
  account.
* Clicks: a walk by cursor shows every click once and in order. The sections of the
  analytics fit together, and a day has the clicks of that local date.
* Answers: what a client sees was true at some moment since it asked.
* All together: what is committed changes one whole operation at a time.
* All: no two transactions wait for each other for ever.

## 2. Modules

| Module | What it models | Checked by |
|---|---|---|
| `LinkForwarding` | links, users, clicks, their cached copies, and forward, unlock, create, update, delete, account deletion | `accounts`, `updates`, `discarded_tombstone` |
| `ReadYourWrites` | `LinkForwarding` with history of which versions were replaced | `reads` |
| `BoundedStaleness` | `LinkForwarding` with the age of every copy | `staleness` |
| `LinkRegister` | abstract: accounts, links and clicks, one whole operation at a time | `reads`, `accounts` |
| `LinkForwardingProofs` | theorems about `LinkForwarding`, and that it implements `LinkRegister` | TLAPS |
| `AuthTokens` | accounts, login tokens, refresh tokens, the five endpoints that use them | `tokens`, `token_locks`, `vanished_user` |
| `TokenLifecycle` | abstract: the same rows, one whole operation at a time | `tokens` |
| `HttpAnswers` | answers of forward, unlock and random slug, and a client's HTTP cache | `answers` |
| `ClickListing` | clicks of a slug and a client that walks by cursor | `click_pages` |
| `ClickAnalytics` | a request for the analytics of a link, its three statements, local days, seed data | `analytics` |
| `LinkListing` | a user's links and a client that walks by offset | `link_pages` |
| `ReadYourWritesProofs`, `BoundedStalenessProofs`, `AuthTokensProofs`, `HttpAnswersProofs`, `ClickListingProofs`, `ClickAnalyticsProofs`, `LinkListingProofs` | theorems about the modules they are named for | TLAPS |
| `MC*` | values, request bodies and symmetries for TLC | |

Operators whose names contain an underscore and a capital, such as
`AddCachedLink_Overwrite`, are marked "Mutant": the definition of the same name
with a plausible mistake in it. Nothing uses them. Putting one in place of its
original makes TLC refute the property it is paired with in `PROJECT.json`, which
shows that the property depends on that line of the code.

### LinkForwarding

One action is one statement to PostgreSQL or Redis, or the local work between two.
A request is a slot (`Readers`, `Writers`) with a program counter and the local
variables of its handler.

| Code | Actions |
|---|---|
| `forward_to_target_url_endpoint`, `unlock_target_url_endpoint` | `StartForward`, `CacheGet`, `CacheDiscard`, `LoadLink`, `FillCache`, `Decide`, `RecordClick` |
| `create_link` | `BeginCreate`, `LockUser`, `CountLinks`, `InsertLink`, `Commit`, `Refresh` |
| `update_link` | `BeginUpdate`, `LoadOwnLink`, `FlushUpdate`, `Commit`, `Refresh`, `Invalidate` |
| `delete_link` | `BeginDelete`, `LoadOwnLink`, `FlushDelete`, `Commit`, `Invalidate` |
| `delete_user` | `BeginDeleteUser`, `LockUser`, `ListSlugs`, `FlushDeleteUser`, `Commit`, `Invalidate` |
| errors, cancellation, end of the process | `AbandonRead`, `AbandonWrite` at every step |
| Redis and time | `Tick`, `DeadlinePasses`, `Evict`, `ForeignFill` |

`links` is what is committed; `draft` and `linkLock` are what a transaction has made
of a row and that it holds it. An action that needs a row somebody else holds is
disabled, which is the wait. SQLAlchemy's unit of work is in `FlushUpdate`: only
columns that differ from what was *loaded* are written, on top of what is
*committed*; no row matched is `StaleDataError`.

What Redis and its clients may do wrong is the constant `Faults`:

* `lost_invalidation`: an invalidation, or part of the pipeline of an account
  deletion, is not carried out, or its request ends first;
* `tombstone_evicted`: Redis drops a tombstone early;
* `malformed_entry`: a replica of another release fills a key with what this one
  cannot validate.

Eviction of an ordinary entry, a failed lookup, a fill that is not carried out and
failures of PostgreSQL happen regardless of `Faults`. `FillDelay` bounds how long a
reader takes from its SELECT to its SET.

Abstractions: of a link, the fields forward looks at (`favorite` and the timestamps
only matter to the listing, and `Patches` are those that leave them alone); a password and its hash are
one value, and a salt makes two hashes of one password differ; random ids are fresh
values, taken again only once nothing refers to them; the id of a deleted account
never returns; reads that change nothing (`get_link`, QR code) are left out.

`LinkRegister` is what this amounts to for whoever looks at committed rows only. Its
steps are whole operations, `ImplementsRegister` maps `users`, `links` and `clicks`
to themselves, and every action but `Commit` and `RecordClick` is a stutter. It leaves
open which fields of a patch an update sets, since that depends on what the request
loaded. `UpdatesAreKept` says which, of the statements themselves: a field is written
with the patch's value, or left as it is committed by then if the patch does not set it or
restates what was loaded. So overlapping patches that restate fields can end in a mixture:
{t1, disabled} and {t2, active}, both loaded over {t1, active}, leave {t2, disabled}. Nothing
in the repository promises otherwise.

### AuthTokens

The rows of `users`, `login_tokens` and `refresh_tokens`, keyed by ids and token
values. A request is a slot with the endpoint (`op`) and the statement it comes to
next; the records `VerifyOrder`, `RefreshOrder`, ... give the order of statements.
`origin` and `sign_in` of a refresh token are not columns: they record what the row
was issued for, so that properties can speak of it.

| Code | Actions |
|---|---|
| `request_login_token_endpoint` | `RequestLoginToken`, `InsertLogin`, `Commit` |
| `verify_login_token_endpoint`, `verify_login_token` | `VerifyLoginToken`, `LookupLogin`, `FindUser`, `InsertUser`, `RereadUser`, `LockUser`, `ConsumeLogin`, `InsertRefresh`, `Commit` |
| `refresh_auth_tokens_endpoint`, `rotate_refresh_token` | `RotateRefreshToken`, `LookupRefresh`, `LockUser`, `ConsumeRefresh`, `InsertRefresh`, `Commit` |
| `revoke_refresh_token_endpoint` | `RevokeRefreshToken`, `RevokeRefresh`, `Commit` |
| `delete_user` (tokens) | `DeleteAccount`, `LockUser`, `DeleteLogins`, `DeleteUser`, `Commit` |
| errors, cancellation, end of the process | `Abandon` at every step, `Unhandled` |
| time | `Expire` |

Abstractions: the attempts to find an unused token value are one action that
succeeds with a fresh value or gives up; the mail (after the commit) and the reading
of the user after a rotation change no state; links are not here, and their part of
`delete_user` is in `LinkForwarding`.

`TokenLifecycle` is the abstract specification: issue, sign in, sign up, rotate, revoke,
delete. `ImplementsLifecycle` maps `db` to itself; only `Commit` is not a stutter. A
deletion leaves a login token of its email behind if that was issued while the deletion
was under way, and the abstract `DeleteAccount` says so.

### HttpAnswers

A link is reduced to what a request decides on. The API's part is `Forward` (decide and
answer; the click, whose errors are suppressed, does not change the answer and is
`RecordClick` of `LinkForwarding`), `GenerateSlug` (one draw of
`generate_unused_random_slug`) and the table of answers with status and `no_store`, from
`exceptions.py` and `_set_no_store_header`. The client's part is external: visits from
several tabs, answers that arrive in any order or get lost, and a cache that keeps what
RFC 9111 lets it keep, for as long as it likes, and answers in the API's place. A header set
on the injected response goes out with a success only: an `HTTPException` is a response
of its own. So `SlugDoesNotExist` and `LinkDisabled`, which are raised without headers,
may be kept; `AnswersAreCurrent` excepts them and would fail otherwise. That is
recorded as a hazard and not as a disagreement, since nothing in the repository says what
these two should carry.

### ClickAnalytics

One request at a time: the lookup and the reading of the clock
(`GetClickAnalytics`), then `GetSummary`, `GetDailyClicks`, `GetTopCountries`, each on what
is committed then, and finally the count that the list of links shows
(`ListClickCounts`). Meanwhile clicks are committed with a timestamp up to `CommitDelay`
old, the link is deleted, or the development data is inserted (`Seed`). Time is an
integer. A zone changes its offset once, at an instant that `Zones` gives;
`ZoneAssumption` excludes zones that change their clocks across midnight. `Latency`
bounds a request, `MaxClock` the run. There is one clock. Percentages are left out:
what is checked are the counts and the total they are computed from.

### ClickListing and LinkListing

Both put one client that turns pages against everything that changes the rows
meanwhile. `ClickListing` has the transaction of a click open between its INSERT,
which takes the timestamp, and its COMMIT, and lets timestamps be anything: replicas'
clocks differ. The link can be deleted and its slug created again by another user
between any two requests and between the lookup and the listing of one.
`LinkListing` has the count and the select of a page as two statements. A change of
a link is one action there, its commit. The time it writes is any: `onupdate` is evaluated
in Python before the UPDATE waits for its row, and replicas' clocks differ, so that the
later of two overlapping updates can leave the earlier `updated_at` (`Overtaken`). In
descending `updated_at` that moves a link back, and the next offset skips one that
nobody has touched; `UntouchedLinksAreShown` is about walks that meet no such update, and
none that removes a link. Its variables `awaited` and `happened` are history.

## 3. Runs

| Run | Bounds | Shows |
|---|---|---|
| `reads` | 1 reader, 2 writers, 1 slug, 2 ids, limit 2, no fault | `StaleFillsBlocked`, `ReadsSeeAnsweredWrites`, `ImplementsRegister` |
| `staleness` | 2 readers, 1 writer, 1 slug, a password, a deadline, every fault | `TypeOK`, `CacheLagBounded`: less than `FillDelay + LinkTTL` |
| `accounts` | 2 writers, 1 account, 2 slugs, limit 1, foreign entries, fairness | `WithinLimit`, `DeletedLinksAreListed`, `ImplementsRegister`, `NoDeadlock`, `EveryRequestEnds` |
| `updates` | 2 writers, 1 slug, 2 ids, 2 patches of two and three fields that meet in one | `UpdatesAreKept` |
| `tokens` | 3 requests, 1 email, 2 account ids, 2 login and 2 refresh values | the four token invariants, `NoDeadlock`, `TypeOK` and `ImplementsLifecycle` |
| `token_locks` | 2 requests, 1 login value, 2 refresh values, fairness | `EveryRequestEnds` |
| `answers` | 2 tabs, 1 slug, 2 passwords, 2 attempts, links with one reason each to refuse | `AnswersAreCurrent` and `TypeOK` |
| `click_pages` | 2 users, 2 link ids, 4 clicks, 2 timestamps, limits 1 and 2 | `PagesDescend`, `WalkIsComplete`, `CursorLeadsOn` and `TypeOK` |
| `analytics` | 2 clicks, 2 countries, clock 0..7, days of 2 units, 3 days, 8 zones | `DaysAreExact`, `CountsNest`, `SectionsAgree` and `TypeOK` |
| `link_pages` | 3 links, 2 times, pages of 2, all orders and filters, one walk | `QuietWalkIsExact`, `UntouchedLinksAreShown` and `TypeOK` |
| `discarded_tombstone`, `vanished_user` | as needed | a violation each, see below |

Why the bounds are enough. The races of the cache are between one fill, one
mutation and one more party (a second mutation, a second reader or an eviction)
on one slug; slugs do not interact except through the limit and account deletion, which
have two. Times are scaled: 60 s and 5 s become 2 and 2 ticks with a delay of 1, so
that an entry and a tombstone can each be young or old and a reader slow or fast;
that tombstones outlive delays and not their exact length is what matters, and the
proofs cover all values. Locks are held by one transaction at a time, so two writers make
every pair of operations meet; three requests on tokens make a loser of each race
and a deletion between. Two refresh values are the least for a rotation and its
origin, and once both are stored the next insertion fails, as it does after five
collisions. Four clicks make two pages of different sizes and a click beyond; three
links make a page, its successor, and one pushed between. Days of two units can be
longer or shorter by a change of clocks and still have a first and a second half, three
days are a first, a middle and a last, and a list of one country is full with the
second. One slug is all the answers are about; two tabs make answers overtake.

`accounts` and `updates` do not check for deadlock: all accounts can be deleted and
they have no readers, and then nothing is left to start. Every other run does.

Fairness. Only the statements of a request in progress are fair, strongly: the event
loop resumes a coroutine whose answer has arrived, and PostgreSQL queues those that
wait for a row, so that whoever waits gets it if it is released again and again. New
requests, abandonment, expiry and faults are not fair. So
`EveryRequestEnds` holds because the statements go through, not because a request
is given up.

### Disagreements between code and text

Each is a run of its own in which TLC reaches the situation (details, with the
lines, under "findings" in `PROJECT.json`).

1. `discarded_tombstone`: `get_cached_link_by_slug` deletes the key of an entry it could
   not validate, whatever the key holds by then. If that is a tombstone, a stale fill
   gets in.
2. `vanished_user`: a sign-in loses the insertion of its account to another, and that
   account is deleted before it is read again: `get_or_create_user_without_commit`
   neither gets nor creates, and the endpoint answers 500.

The first is why the theorem on the cache assumes no fault. Its other hypothesis,
`FillDelay < InvalidationTTL`, is not something the code enforces: nothing bounds the time
from a reader's SELECT to its fill, and one that takes as long as a tombstone lives puts
the old link back. `CacheLagBounded` says what either can cost: a tombstone
that is evicted has the effect of one that was outlived, so that run has all the ways a
stale fill gets in.

## 4. Proofs

### The cache

`LinkForwardingProofs` proves, for any number of readers, writers, accounts, slugs,
ids and values, any limit and times to live:

| Theorem | Statement |
|---|---|
| `TypeCorrect` | `Spec => []TypeOK` |
| `DeletionsAreComplete` | `Spec => []DeletedLinksAreListed` |
| `LimitHolds` | `Spec => []WithinLimit` |
| `CacheIsCoherent` | `Undisturbed` implies `Spec => []StaleFillsBlocked`, where `Undisturbed` is `Faults = {}` and `FillDelay < InvalidationTTL` |

From three assumptions on the constants: `DomainAssumption` (readers are not
writers, finitely many slugs, bodies of the right type), `TimeAssumption` (numbers are
naturals, times to live positive) and `NullAssumption` (the special values are
none of the ordinary ones).

The argument is in three layers.

* `SafeInv` is inductive under every fault: `TypeOK`, what a reader and a writer
  carry at each step (`ReadersOK`, `WritersOK`), what the holder of a row will make
  of it (`RowsOK`: whoever holds a row is about to commit, and its draft is a new link
  where there was none, the same link changed, or nothing), who holds the user row
  (`UserRowsOK`), and that what `delete_user` listed is still all there is (`ListsOK`).
  The last is `DeletedLinksAreListed` one step earlier, and it holds because a
  creation must hold the user row that the deletion holds.
* `LimitInv` adds to `WithinLimit` that a creation that has counted still has room
  (`HasRoom`): no other creation of the account can commit while it holds the user
  row. The limit after its commit is a fact on cardinalities.
* `CacheInv` adds to `StaleFillsBlocked` that no entry is malformed, and `FillsOK`: a
  reader about to fill with an outdated copy either sits behind a mutation that has
  yet to invalidate, or will find a tombstone, and
  `ttl + age > FillDelay` says that the tombstone lasts longer than the reader may
  take. The invariant by itself is not inductive: whether a fill is harmless
  depends on what the reader holds before it sends it.

Two more theorems build on this, in modules of their own:

| Theorem | Statement |
|---|---|
| `AnsweredWritesAreRead` | `Undisturbed` implies `HSpec => []ReadsSeeAnsweredWrites` |
| `CacheLagIsBounded` | `LSpec => []CacheLagBounded`, under every fault |

* `HistoryInv` (`ReadYourWritesProofs`) says when a version is `Gone` for good: it is not
  the row, it is not in Redis, and a reader that is about to put it there finds a
  tombstone that outlasts it. `CacheInv` would not do: it allows an outdated copy
  while a mutation is under way, and says nothing about *which* version that is. What an
  answered mutation replaced is `Gone` (`GoneAtSuccess`), stays so (`GoneStays`), and
  so does what a reader is forbidden to see.
* `LagInv` (`BoundedStalenessProofs`) adds what is left of an entry's time to live to its
  age: a copy in Redis can have been outdated for at most `FillDelay + LinkTTL` minus
  its `ttl`, and one in a reader's hand for at most the reader's own age
  (`CacheLagOK`, `EntryLagOK`). A second takes from the one what it adds to the other.
  No tombstone is needed for that, which is why no fault can disturb it.

### The register of links

`LinkForwardingProofs` also proves `ImplementsTheRegister`: `Spec => ImplementsRegister`,
under every fault, from the same assumptions. Its invariant `RegisterInv` adds to `SafeInv`
what a commit has to know about the moment it happens at: an id belongs to one link, also
among those about to be committed (`UniqueIds`), a click is of a link that is there
(`ClicksOK`), a request works on a row of the account it acts for (`ActorsOK`) and holds all
the rows it is about to change (`HoldsOK`). With that, `Commit` is one operation of the
register and `RecordClick` another, and every other action leaves what the register
sees alone.

`UpdatesStayKept` is `Spec => UpdatesAreKept`. Its invariant `FlushedOK` says that an update about
to commit holds its row with `Changes(patch, loaded)` applied to the row as it is
*committed*, or has no change and holds none; it stays so since whoever holds a row keeps all
others from committing to it. `FieldsKept` says of values what this makes of each field.

### Who waits for whom

`NoRequestsDeadlock` is `Spec => []NoDeadlock`: of any set of requests one waits for none of
the others, and nobody waits for a request whose transaction is over. The waiting is
stated apart from the actions (`Wants`, `WantsUser`, `MayHave`, `WaitsFor`), since the
model's cascade takes its links at one moment and PostgreSQL's takes them one by one: an
account's deletion at its DELETE counts as the holder of all it wants. `StatementsWait`
ties these to the guards of the actions.

A request that waits has a `Rank`: for the user row before for a link row, and the
statements on one link before the cascade. `HoldersRankLower` shows that whoever is waited
for has a lower rank, so that the lowest of a set waits for none of it. A link row is held at
the commit only (`RowsOK`). A user row is held only from its lock to the commit
(`UserLocksOK`, which `SafeInv` does not say: `UserRowsOK` is its converse), so that each
way out of a transaction, the refusal at the limit included, gives it back. Two cascades that
want the same link are of one account, and both would hold its user row.

### The tokens

`AuthTokensProofs` proves, for any number of requests, accounts, emails and tokens:

| Theorem | Statement |
|---|---|
| `TokensTyped` | `Spec => []TypeOK` |
| `TokensExchangedOnce` | `Spec => []ExchangedOnce` |
| `OneLiveToken` | `Spec => []OneLiveTokenPerSignIn` |
| `ChainsStay` | `Spec => []ChainsStayInAccount` |
| `AccountsFromSignIns` | `Spec => []AccountsComeFromSignIns` |
| `ImplementsTheLifecycle` | `Spec => ImplementsLifecycle` |
| `NobodyWaitsInCircles` | `Spec => []NoDeadlock` |

From `KeysAssumption` (ids and token values are told apart) and `NullAssumption`. The
refinement comes first and the invariants follow from it.

* `RequestsOK` says of a request in progress what it carries at each statement
  (`StepOK`), that a row it read earlier may have gone but is not another by now (`HandOK`:
  values and ids do not recur while anybody knows them), that whatever it holds is
  what that step makes of the committed row (`LocksOK`), and that it does hold the rows it
  has come past (`HoldsOK`). The last has the reason for the order of locks: while
  `delete_user` holds the user row nobody exchanges a token of that account, so that
  the tokens it has taken are all of them (`HasAll`). `EmailsOK` is the unique index,
  which covers what is about to be committed; `UnlockedOK` says that drafts have holders.
* From these, a `Commit` is one step of `TokenLifecycle`, by cases on the endpoint, and no
  other action changes a committed row (`LifecycleImplemented`).
* `CommittedInv` (`ChainsOK`, `SuccessorsOK`, `AccountsOK`) speaks of committed rows alone and is
  inductive for `TokenLifecycle`: there it is shown for whole operations
  (`ExchangeKeeps`, `MarkKeeps`, `DeletionKeeps`), without a lock or a program counter.
  It is needed since the properties alone are not inductive: that a sign-in has
  one live token after a rotation takes that it had no other one before, and that a
  deletion leaves no part of a chain takes that a chain stays in one account.
* `NoDeadlock` says of every set of requests that one of them waits for none of the
  others. The waiting is stated apart from the actions (`Wants`, `MayHave`, `WaitsFor`),
  since the model's DELETE takes its rows at one moment and PostgreSQL's takes them one by
  one: a request at a DELETE counts as the holder of all it wants. `StatementsWait` ties
  `Wants` to the guards of the actions. Each statement that waits has a `Rank`: user
  rows before login tokens before refresh tokens, and a revocation, which holds nothing
  yet, above all that it may wait for. `HoldersRankLower` and `TakersRankLower` show that
  whoever is waited for and waits itself has a lower rank, and so the lowest of a set
  waits for none of it. Between two requests of one rank it is the user row that
  decides: both would hold it (`OneAccountHolder`). This is the comment "Match account
  deletion's lock order: user first, then token rows" as a theorem, and the part of
  `EveryRequestEnds` that does not depend on fairness. An account's links go in
  the same DELETE as its refresh tokens; a transaction that has written a link row has
  nothing left to do but to commit (`RowsOK` above), so the two sets of locks together
  close no circle either.

### Analytics

`ClickAnalyticsProofs` proves, for any zones, length of a day and of the period, clock,
number of clicks, countries and seed data:

| Theorem | Statement |
|---|---|
| `AnalyticsTyped` | `Spec => []TypeOK` |
| `DaysStayExact` | `Spec => DaysAreExact` |
| `CountsStayNested` | `Spec => []CountsNest` |
| `SectionsStayInAgreement` | `Spec => []SectionsAgree` |

From `ZoneAssumption` (no clock changes across midnight, wherever the change lies),
`SeedAssumption` (the seed data are finitely many clicks of the right type) and
`BoundAssumption` (numbers are naturals, the period is two days longer than a week at
least, and the countries are finitely many, numbered in the order of their codes).

* Each theorem is about answers that several statements made at different moments, so the
  invariant has to remember what they saw. `SawOK` says that there are sets of
  clicks, each part of the next and the last part of what is committed now, such that the
  summary, the days and the list are the counts of them, and that they are one set if
  nothing was committed meanwhile. Neither `CountsNest` nor `SectionsAgree` is
  inductive without it. `ClicksOK` has that no click is older than its link, which is what
  makes the total, counted from the link's creation, part of what the list counts;
  `SeededEarlier` shows that dated-back seed data keep to that.
* On local dates: a date begins at its midnight and ends at the next (`DateBegins`,
  `DatesAscend`), also where the clocks change (`MidnightIsExact`), so that the range of
  timestamps of a period are exactly the clicks of its dates (`PeriodIsExact`). From
  this `DaysStayExact` follows for each day, and `WeekIsShown` for the last seven of them,
  since a change of the clocks moves a click by less than a day (`ShiftIsBounded`).
* On sums: the days are added up by a fold over a finite set. Rather than by an
  induction over its size, `SumOfParts` is proved by taking a least finite set for which
  it fails (`WFMin`, the well-foundedness of strict inclusion) and removing an element;
  `MaxOfFinite` is had the same way. It gives that the days add up to the clicks of the
  period (`DaysAddUp`), and with `WeekIsShown` that the last week is no more than that
  (`WeekNests`). `LeadersLead` is about the list of countries: what it leaves out has no
  more clicks than what it shows.

### Answers and listings

| Module | Theorem | Statement |
|---|---|---|
| `HttpAnswersProofs` | `AnswersTyped`, `AnswersStayCurrent` | `Spec => []TypeOK`, `Spec => []AnswersAreCurrent` |
| `ClickListingProofs` | `ListingTyped`, `PagesAlwaysDescend`, `WalksAreComplete`, `CursorsLeadOn` | `Spec => []TypeOK`, `Spec => []PagesDescend`, `Spec => []WalkIsComplete`, `Spec => []CursorLeadsOn` |
| `LinkListingProofs` | `LinksTyped`, `QuietWalksAreExact`, `UntouchedLinksStayInSight` | `Spec => []TypeOK`, `Spec => []QuietWalkIsExact`, `Spec => []UntouchedLinksAreShown` |

* `AnswersInv`: what a waiting visit may get includes what is true now, and nothing that
  an answer with `no_store` says is ever stored or reused.
* `ListingInv`: committed clicks have their link (`LinkedOK`), the cursor is the oldest
  click shown (`CursorOK`), what has not been shown is beyond it (`AheadOK`), and something
  is, as long as the link is there (`MoreOK`). The last two make the walk complete and its
  cursors useful. They rest on lemmas about `Newest` (`PageIsTop`, `ShortPageIsAll`,
  `FullPageLeavesSome`), that is on `ORDER BY timestamp DESC, id DESC LIMIT n` as an
  operator on finite sets, of which `PageCases` makes what an answer consists of.
* `ListInv`: pages are ranges of positions. While nothing changes, the pages before are the
  positions below the offset (`QuietOK`). When something does, `ChangeStep` says what
  is needed: as long as changes only push back (`OnlyPushed`), a link left alone
  never has fewer links ahead of it than before, so that it is not behind the pages
  (`AwaitedOK`). Both rest on `Positions`: a position is below the number of links, and
  follows the order.

These bounds of the runs are no bounds of the theorems: page sizes, clocks, numbers of
visits, links and clicks are arbitrary, ids and timestamps any naturals.

Each invariant was checked by TLC before it was proved. A proof has a lemma per
action, or per group of them that touch the same variables, and one step per
conjunct that is at stake.

Only model-checked: liveness (`EveryRequestEnds` in both modules), which is out of
the prover's reach. Every other property of the passing runs is a theorem.

## 5. Not modelled

* Access tokens: stateless; a request begins with an account id that was valid when
  it was read.
* Error mapping: which class becomes which status and header matters for the answers
  of forward and unlock only, and is in `HttpAnswers`. The rest is a table.
* Header parsing, health, email, GeoIP, QR codes: no state. What they supply
  to a click (country, device, ...) is a value of the click.
* Startup and shutdown: open and close connections. That the development data is inserted
  before requests are served, once per worker, is in `ClickAnalytics` as far as its clicks go.
* Migrations and deployment: what they imply for the rest (several replicas, two
  releases at once, eviction) is in the models.
* Isolation and locks of PostgreSQL, commands of Redis and the unit of work of
  SQLAlchemy are modelled from how the code uses them; that they work as documented
  is assumed. So is the constraint checks' share of the outcome: a click of a deleted link is
  refused by the foreign key.

## 6. Plan

Order of work: the cache protocol first, since it is the only place where two stores
have to agree; then tokens, where statements of five endpoints meet on the same rows;
then listings, analytics and answers; abstract specifications and proofs along with
them.

Done: every module of section 2, both refinements, and the theorems of section 4.

Next:

1. `AuthTokens` with two emails in a run, and with clients that hold tokens and retry after
   a lost answer.
2. Answers of the mutations: a client that retries a creation or a deletion whose answer
   was lost.
