---------------------------- MODULE LinkForwarding ----------------------------
(***************************************************************************)
(* Links in PostgreSQL, their copies in Redis, and the requests that read  *)
(* and change them: the forward and unlock endpoints on one side, create,  *)
(* update and delete of a link and delete of an account on the other.      *)
(*                                                                         *)
(* One action is one statement to PostgreSQL or Redis, or the local work   *)
(* between two of them, so everything the event loop, the three replicas   *)
(* and the two stores can interleave is interleaved.  PostgreSQL runs at   *)
(* READ COMMITTED: a statement reads what is committed when it runs, a row *)
(* written or locked FOR UPDATE stays with its transaction to its end, and *)
(* a statement that needs a row of another transaction waits (its action   *)
(* is disabled).                                                           *)
(***************************************************************************)
EXTENDS Naturals, FiniteSets

CONSTANTS
  Readers,      \* slots for concurrent forward and unlock requests
  Writers,      \* slots for concurrent create, update and delete requests
  Users,        \* account ids; a deleted account's id never comes back
  Slugs,        \* links.slug, unique
  Ids,          \* links.id, a new uuid for each inserted row
  Targets,      \* links.target_url
  Deadlines,    \* the values of links.expires_at
  Passwords,    \* the passwords a link can be protected with
  Creations,    \* request bodies of POST /links
  Patches,      \* request bodies of PATCH /links/{slug}
  LinkLimit,        \* USER_LINK_LIMIT
  LinkTTL,          \* LINK_CACHE_TTL_SECONDS, in ticks
  InvalidationTTL,  \* _LINK_INVALIDATION_TTL_SECONDS, in ticks
  FillDelay,        \* the longest time from a reader's SELECT to its SET NX
  Faults,           \* which of FaultKinds may happen
  Null,             \* no row, no key, no password, no deadline, a free lock
  Tombstone,        \* the cached value "invalidated"
  Malformed,        \* a cached value LinkCache does not validate
  Keep              \* a field the patch does not set

Statuses == {"active", "disabled"}
FaultKinds == {"lost_invalidation", "tombstone_evicted", "malformed_entry"}

Requests == Readers \cup Writers

Link == [id: Ids, user: Users, target: Targets, status: Statuses,
         expires_at: Deadlines \cup {Null}, password: Passwords \cup {Null}]

\* LinkCache: what is cached of a link.
Entry == [id: Ids, target: Targets, status: Statuses,
          expires_at: Deadlines \cup {Null}, password: Passwords \cup {Null}]

\* LinkUpdate: target and status cannot be cleared, the other two can.
LinkUpdate == [target: Targets \cup {Keep}, status: Statuses \cup {Keep},
               expires_at: Deadlines \cup {Null, Keep},
               password: Passwords \cup {Null, Keep}]

\* LinkCreate: a new link is active.
LinkCreate == [target: Targets, status: {"active"},
               expires_at: Deadlines \cup {Null},
               password: Passwords \cup {Null}]

ASSUME DomainAssumption ==
  /\ Readers \cap Writers = {}
  /\ IsFiniteSet(Slugs)
  /\ Creations \subseteq LinkCreate
  /\ Patches \subseteq LinkUpdate
  /\ Faults \subseteq FaultKinds

ASSUME TimeAssumption ==
  /\ LinkLimit \in Nat
  /\ LinkTTL \in Nat \ {0}
  /\ InvalidationTTL \in Nat \ {0}
  /\ FillDelay \in Nat

ASSUME NullAssumption ==
  /\ Null \notin Link \cup Entry \cup Writers \cup Ids \cup Users \cup Slugs
  /\ Null \notin Passwords \cup Deadlines \cup LinkUpdate \cup LinkCreate
  /\ Keep \notin Targets \cup Statuses \cup Deadlines \cup Passwords \cup {Null}
  /\ Tombstone \notin Entry \cup {Null}
  /\ Malformed \notin Entry \cup {Null, Tombstone}

VARIABLES
  users,     \* committed rows of users
  links,     \* committed row of links with each slug, or Null
  draft,     \* the version of that row its lock's holder will commit
  linkLock,  \* the transaction that holds the row, or its unique key
  userLock,  \* the transaction that holds the user row FOR UPDATE
  clicks,    \* the link ids that rows of clicks refer to
  passed,    \* the deadlines that lie in the past
  cache,     \* the Redis value of each link:<slug>
  ttl,       \* ticks until that key expires
  pc,        \* where each request is
  slug,      \* the slug a request names
  given,     \* the password an unlock supplies; Null for a forward
  entry,     \* the LinkCache a reader holds
  age,       \* ticks since a reader that is about to fill read the database
  op,        \* what a writer does
  actor,     \* the authenticated user of a writer
  patch,     \* a writer's request body
  loaded,    \* the link a writer loaded or made, as it was then
  stale      \* the slugs a writer has to invalidate once it has committed

db == <<users, links, draft, linkLock, userLock, clicks>>
redis == <<cache, ttl>>
readerVars == <<given, entry, age>>
writerVars == <<op, actor, patch, loaded, stale>>
vars == <<db, passed, redis, pc, slug, readerVars, writerVars>>

ReaderSteps == {"idle", "get", "discard", "load", "fill", "decide", "click"}
WriterSteps == {"idle", "load", "lock", "count", "list", "flush", "commit",
                "refresh", "invalidate"}
Ops == {"create", "update", "delete", "delete_user"}

TypeOK ==
  /\ users \subseteq Users
  /\ links \in [Slugs -> Link \cup {Null}]
  /\ draft \in [Slugs -> Link \cup {Null}]
  /\ linkLock \in [Slugs -> Writers \cup {Null}]
  /\ userLock \in [Users -> Writers \cup {Null}]
  /\ clicks \subseteq Ids
  /\ passed \subseteq Deadlines
  /\ cache \in [Slugs -> Entry \cup {Null, Tombstone, Malformed}]
  /\ ttl \in [Slugs -> Nat]
  /\ pc \in [Requests -> ReaderSteps \cup WriterSteps]
  /\ \A r \in Readers : pc[r] \in ReaderSteps
  /\ \A w \in Writers : pc[w] \in WriterSteps
  /\ slug \in [Requests -> Slugs \cup {Null}]
  /\ given \in [Readers -> Passwords \cup {Null}]
  /\ entry \in [Readers -> Entry \cup {Null}]
  /\ age \in [Readers -> Nat]
  /\ op \in [Writers -> Ops \cup {Null}]
  /\ actor \in [Writers -> Users \cup {Null}]
  /\ patch \in [Writers -> LinkUpdate \cup LinkCreate \cup {Null}]
  /\ loaded \in [Writers -> Link \cup {Null}]
  /\ stale \in [Writers -> SUBSET Slugs]

Init ==
  /\ users = Users
  /\ links = [s \in Slugs |-> Null]
  /\ draft = [s \in Slugs |-> Null]
  /\ linkLock = [s \in Slugs |-> Null]
  /\ userLock = [u \in Users |-> Null]
  /\ clicks = {}
  /\ passed = {}
  /\ cache = [s \in Slugs |-> Null]
  /\ ttl = [s \in Slugs |-> 0]
  /\ pc = [q \in Requests |-> "idle"]
  /\ slug = [q \in Requests |-> Null]
  /\ given = [r \in Readers |-> Null]
  /\ entry = [r \in Readers |-> Null]
  /\ age = [r \in Readers |-> 0]
  /\ op = [w \in Writers |-> Null]
  /\ actor = [w \in Writers |-> Null]
  /\ patch = [w \in Writers |-> Null]
  /\ loaded = [w \in Writers |-> Null]
  /\ stale = [w \in Writers |-> {}]
-------------------------------------------------------------------------------
(* Rows, locks and transactions. *)

FromLink(l) == [id |-> l.id, target |-> l.target, status |-> l.status,
                expires_at |-> l.expires_at, password |-> l.password]

FromLinkCreate(c, u, i) ==
  [id |-> i, user |-> u, target |-> c.target, status |-> c.status,
   expires_at |-> c.expires_at, password |-> c.password]

\* Mutant: the fields a patch does not set are written too.
Patched_Always(new, old) == new

Patched(new, old) == IF new = Keep THEN old ELSE new

UpdateFromLinkUpdate(l, p) ==
  [l EXCEPT !.target = Patched(p.target, @),
            !.status = Patched(p.status, @),
            !.expires_at = Patched(p.expires_at, @),
            !.password = Patched(p.password, @)]

\* Mutant: the flush writes every column, as loaded where the patch does not set it.
Changes_AllColumns(p, l) ==
  [target |-> Patched(p.target, l.target),
   status |-> Patched(p.status, l.status),
   expires_at |-> Patched(p.expires_at, l.expires_at),
   password |-> Patched(p.password, l.password)]

\* The columns the flush writes: those that differ from what was loaded.  A
\* password is hashed with a fresh salt, so only "none" can equal "none".
Changes(p, l) ==
  [target |-> IF p.target = l.target THEN Keep ELSE p.target,
   status |-> IF p.status = l.status THEN Keep ELSE p.status,
   expires_at |-> IF p.expires_at = l.expires_at THEN Keep ELSE p.expires_at,
   password |-> IF p.password = Null /\ l.password = Null
                THEN Keep ELSE p.password]

NoChange == [target |-> Keep, status |-> Keep, expires_at |-> Keep,
             password |-> Keep]

OwnedBy(u) == {s \in Slugs : links[s] # Null /\ links[s].user = u}
RowIds == {links[s].id : s \in {t \in Slugs : links[t] # Null}}
Matches(w) == links[slug[w]] # Null /\ links[slug[w]].id = loaded[w].id

\* uuid4: an id nothing refers to is as good as one never used before.
IdsIn(S) == {x.id : x \in S \cap (Link \cup Entry)}
FreshIds ==
  Ids \ (clicks \cup IdsIn({links[s] : s \in Slugs})
                 \cup IdsIn({draft[s] : s \in Slugs})
                 \cup IdsIn({cache[s] : s \in Slugs})
                 \cup IdsIn({entry[r] : r \in Readers})
                 \cup IdsIn({loaded[w] : w \in Writers}))

Goto(q, step) == pc' = [pc EXCEPT ![q] = step]

\* Write version v to the rows S and keep them until the transaction ends.
Write(w, S, v) ==
  /\ linkLock' = [s \in Slugs |-> IF s \in S THEN w ELSE linkLock[s]]
  /\ draft' = [s \in Slugs |-> IF s \in S THEN v ELSE draft[s]]

\* The transaction ends: its row locks go, and with them its drafts.
Release(w) ==
  /\ linkLock' = [s \in Slugs |-> IF linkLock[s] = w THEN Null ELSE linkLock[s]]
  /\ draft' = [s \in Slugs |-> IF linkLock[s] = w THEN Null ELSE draft[s]]
  /\ userLock' = [u \in Users |-> IF userLock[u] = w THEN Null ELSE userLock[u]]

\* The request is answered: its local variables are gone.
EndReader(r) ==
  /\ Goto(r, "idle")
  /\ slug' = [slug EXCEPT ![r] = Null]
  /\ given' = [given EXCEPT ![r] = Null]
  /\ entry' = [entry EXCEPT ![r] = Null]
  /\ age' = [age EXCEPT ![r] = 0]

EndWriter(w) ==
  /\ Goto(w, "idle")
  /\ slug' = [slug EXCEPT ![w] = Null]
  /\ op' = [op EXCEPT ![w] = Null]
  /\ actor' = [actor EXCEPT ![w] = Null]
  /\ patch' = [patch EXCEPT ![w] = Null]
  /\ loaded' = [loaded EXCEPT ![w] = Null]
  /\ stale' = [stale EXCEPT ![w] = {}]

\* An error, or a refusal, before the commit.
Rollback(w) ==
  /\ Release(w)
  /\ EndWriter(w)
  /\ UNCHANGED <<users, links, clicks, passed, redis, readerVars>>
-------------------------------------------------------------------------------
(* Forward and unlock. *)

StartForward(r, s, p) ==
  /\ pc[r] = "idle"
  /\ Goto(r, "get")
  /\ slug' = [slug EXCEPT ![r] = s]
  /\ given' = [given EXCEPT ![r] = p]
  /\ UNCHANGED <<db, passed, redis, entry, age, writerVars>>

\* Mutant: a hit prolongs the entry.
CacheGet_Sliding(r) ==
  /\ pc[r] = "get"
  /\ \/ /\ cache[slug[r]] \in Entry
        /\ entry' = [entry EXCEPT ![r] = cache[slug[r]]]
        /\ ttl' = [ttl EXCEPT ![slug[r]] = LinkTTL]
        /\ Goto(r, "decide")
     \/ /\ cache[slug[r]] \notin Entry
        /\ Goto(r, "load")
        /\ UNCHANGED <<ttl, entry>>
  /\ UNCHANGED <<db, passed, cache, slug, given, age, writerVars>>

\* GET link:<slug>.  The tombstone and an absent key are misses, and so is a
\* Redis error.
CacheGet(r) ==
  /\ pc[r] = "get"
  /\ \/ /\ cache[slug[r]] \in Entry
        /\ entry' = [entry EXCEPT ![r] = cache[slug[r]]]
        /\ Goto(r, "decide")
     \/ /\ cache[slug[r]] = Malformed
        /\ Goto(r, "discard")
        /\ UNCHANGED entry
     \/ /\ Goto(r, "load")
        /\ UNCHANGED entry
  /\ UNCHANGED <<db, passed, redis, slug, given, age, writerVars>>

\* The value did not validate: DEL link:<slug>, whatever it holds by now.
CacheDiscard(r) ==
  /\ pc[r] = "discard"
  /\ \/ /\ cache' = [cache EXCEPT ![slug[r]] = Null]
        /\ ttl' = [ttl EXCEPT ![slug[r]] = 0]
     \/ UNCHANGED redis
  /\ Goto(r, "load")
  /\ UNCHANGED <<db, passed, slug, readerVars, writerVars>>

LoadLink(r) ==
  /\ pc[r] = "load"
  /\ IF links[slug[r]] = Null
     THEN EndReader(r)
     ELSE /\ entry' = [entry EXCEPT ![r] = FromLink(links[slug[r]])]
          /\ age' = [age EXCEPT ![r] = 0]
          /\ Goto(r, "fill")
          /\ UNCHANGED <<slug, given>>
  /\ UNCHANGED <<db, passed, redis, writerVars>>

\* Mutant: SET without NX.
AddCachedLink_Overwrite(s, e) ==
  /\ cache' = [cache EXCEPT ![s] = e]
  /\ ttl' = [ttl EXCEPT ![s] = LinkTTL]

\* SET link:<slug> EX LINK_CACHE_TTL_SECONDS NX; a Redis error is suppressed.
AddCachedLink(s, e) ==
  /\ cache[s] = Null
  /\ cache' = [cache EXCEPT ![s] = e]
  /\ ttl' = [ttl EXCEPT ![s] = LinkTTL]

FillCache(r) ==
  /\ pc[r] = "fill"
  /\ AddCachedLink(slug[r], entry[r]) \/ UNCHANGED redis
  /\ age' = [age EXCEPT ![r] = 0]
  /\ Goto(r, "decide")
  /\ UNCHANGED <<db, passed, slug, given, entry, writerVars>>

\* Disabled, expired, or not opened by what the request supplies.
Serves(e, p) ==
  /\ e.status = "active"
  /\ e.expires_at \notin passed
  /\ e.password \in {Null, p}

Decide(r) ==
  /\ pc[r] = "decide"
  /\ IF Serves(entry[r], given[r])
     THEN Goto(r, "click") /\ UNCHANGED <<slug, readerVars>>
     ELSE EndReader(r)
  /\ UNCHANGED <<db, passed, redis, writerVars>>

\* INSERT INTO clicks and COMMIT.  The foreign key check waits for a
\* transaction that is deleting the link and fails when the link is gone; that
\* error, like any other, is suppressed and the target is still returned.
BeingDeleted(i) ==
  \E s \in Slugs : /\ linkLock[s] # Null /\ draft[s] = Null
                  /\ links[s] # Null /\ links[s].id = i

\* Mutant: a click is recorded whether or not its link exists.
RecordClick_NoForeignKey(r) ==
  /\ pc[r] = "click"
  /\ clicks' = clicks \cup {entry[r].id}
  /\ EndReader(r)
  /\ UNCHANGED <<users, links, draft, linkLock, userLock, passed, redis,
                 writerVars>>

RecordClick(r) ==
  /\ pc[r] = "click"
  /\ ~ BeingDeleted(entry[r].id)
  /\ clicks' = clicks \cup ({entry[r].id} \cap RowIds)
  /\ EndReader(r)
  /\ UNCHANGED <<users, links, draft, linkLock, userLock, passed, redis,
                 writerVars>>

\* The request ends early: a database error, or the process is gone.  The error
\* of a click is suppressed: the forward is answered and nothing is recorded.
AbandonRead(r) ==
  /\ pc[r] # "idle"
  /\ EndReader(r)
  /\ UNCHANGED <<db, passed, redis, writerVars>>
-------------------------------------------------------------------------------
(* Create, update and delete a link; delete an account. *)

\* get_current_user found the account of the access token.  The row is not
\* locked, so the account can be gone by the time the handler runs.
Begin(w, o, u, s, p, step) ==
  /\ pc[w] = "idle"
  /\ u \in users
  /\ Goto(w, step)
  /\ op' = [op EXCEPT ![w] = o]
  /\ actor' = [actor EXCEPT ![w] = u]
  /\ slug' = [slug EXCEPT ![w] = s]
  /\ patch' = [patch EXCEPT ![w] = p]
  /\ UNCHANGED <<db, passed, redis, readerVars, loaded, stale>>

BeginCreate(w, u, s, c) == Begin(w, "create", u, s, c, "lock")
BeginUpdate(w, u, s, p) == Begin(w, "update", u, s, p, "load")
BeginDelete(w, u, s) == Begin(w, "delete", u, s, Null, "load")
BeginDeleteUser(w, u) == Begin(w, "delete_user", u, Null, Null, "lock")

\* get_link_validate_user: 404, 403, or the link as it is now.  Hashing a new
\* password comes between this and the flush.
LoadOwnLink(w) ==
  /\ pc[w] = "load"
  /\ IF links[slug[w]] # Null /\ links[slug[w]].user = actor[w]
     THEN /\ loaded' = [loaded EXCEPT ![w] = links[slug[w]]]
          /\ stale' = [stale EXCEPT ![w] = {slug[w]}]
          /\ Goto(w, "flush")
          /\ UNCHANGED <<slug, op, actor, patch>>
     ELSE EndWriter(w)
  /\ UNCHANGED <<db, passed, redis, readerVars>>

\* UPDATE links SET <changed columns> WHERE id = <loaded id>.  Nothing changed:
\* no statement.  No row: StaleDataError.  The columns not set keep the values
\* of the committed row, which may be newer than the loaded one.
FlushUpdate(w) ==
  /\ pc[w] = "flush" /\ op[w] = "update"
  /\ LET s == slug[w]
         change == Changes(patch[w], loaded[w])
     IN \/ /\ change = NoChange
           /\ Goto(w, "commit")
           /\ UNCHANGED <<db, passed, redis, slug, readerVars, writerVars>>
        \/ /\ change # NoChange
           /\ Matches(w)
           /\ linkLock[s] = Null
           /\ Write(w, {s}, UpdateFromLinkUpdate(links[s], change))
           /\ Goto(w, "commit")
           /\ UNCHANGED <<users, links, userLock, clicks, passed, redis, slug,
                          readerVars, writerVars>>
        \/ /\ change # NoChange
           /\ ~ Matches(w)
           /\ Rollback(w)

\* DELETE FROM links WHERE id = <loaded id>; deleting no row is only a warning.
FlushDelete(w) ==
  /\ pc[w] = "flush" /\ op[w] = "delete"
  /\ IF Matches(w)
     THEN /\ linkLock[slug[w]] = Null
          /\ Write(w, {slug[w]}, Null)
     ELSE UNCHANGED <<draft, linkLock>>
  /\ Goto(w, "commit")
  /\ UNCHANGED <<users, links, userLock, clicks, passed, redis, slug, readerVars,
                 writerVars>>

\* Mutant: a plain SELECT.
LockUser_NoLock(w) ==
  /\ pc[w] = "lock"
  /\ IF actor[w] \in users
     THEN /\ Goto(w, IF op[w] = "create" THEN "count" ELSE "list")
          /\ UNCHANGED <<db, passed, redis, slug, readerVars, writerVars>>
     ELSE Rollback(w)

\* SELECT ... FROM users WHERE id = ... FOR UPDATE.
LockUser(w) ==
  /\ pc[w] = "lock"
  /\ IF actor[w] \in users
     THEN /\ userLock[actor[w]] = Null
          /\ userLock' = [userLock EXCEPT ![actor[w]] = w]
          /\ Goto(w, IF op[w] = "create" THEN "count" ELSE "list")
          /\ UNCHANGED <<users, links, draft, linkLock, clicks, passed, redis, slug,
                         readerVars, writerVars>>
     ELSE Rollback(w)

\* count_links_by_user against USER_LINK_LIMIT.
BelowLimit(u) == Cardinality(OwnedBy(u)) < LinkLimit

\* Mutant: the refusal leaves the transaction open.
CountLinks_NoRollback(w) ==
  /\ pc[w] = "count"
  /\ IF BelowLimit(actor[w])
     THEN Goto(w, "flush") /\ UNCHANGED <<slug, writerVars>>
     ELSE EndWriter(w)
  /\ UNCHANGED <<db, passed, redis, readerVars>>

CountLinks(w) ==
  /\ pc[w] = "count"
  /\ IF BelowLimit(actor[w])
     THEN /\ Goto(w, "flush")
          /\ UNCHANGED <<db, passed, redis, slug, readerVars, writerVars>>
     ELSE Rollback(w)

\* INSERT INTO links.  The unique index on slug waits for a transaction that has
\* written the row of that slug and refuses one that is taken.
InsertLink(w) ==
  /\ pc[w] = "flush" /\ op[w] = "create"
  /\ linkLock[slug[w]] = Null
  /\ LET s == slug[w]
     IN \/ /\ links[s] = Null
           /\ \E i \in FreshIds : LET l == FromLinkCreate(patch[w], actor[w], i)
                                 IN /\ Write(w, {s}, l)
                                    /\ loaded' = [loaded EXCEPT ![w] = l]
           /\ Goto(w, "commit")
           /\ UNCHANGED <<users, links, userLock, clicks, passed, redis, slug,
                          readerVars, op, actor, patch, stale>>
        \/ /\ links[s] # Null
           /\ Rollback(w)

\* The slugs to invalidate are read before the rows go.
ListSlugs(w) ==
  /\ pc[w] = "list"
  /\ stale' = [stale EXCEPT ![w] = OwnedBy(actor[w])]
  /\ Goto(w, "flush")
  /\ UNCHANGED <<db, passed, redis, slug, readerVars, op, actor, patch, loaded>>

\* DELETE FROM users; ON DELETE CASCADE takes the account's links with it, once
\* no other transaction holds one of them.
FlushDeleteUser(w) ==
  /\ pc[w] = "flush" /\ op[w] = "delete_user"
  /\ \A s \in OwnedBy(actor[w]) : linkLock[s] = Null
  /\ Write(w, OwnedBy(actor[w]), Null)
  /\ Goto(w, "commit")
  /\ UNCHANGED <<users, links, userLock, clicks, passed, redis, slug, readerVars,
                 writerVars>>

\* COMMIT: the drafts become the rows, and the clicks of deleted links go.
Commit(w) ==
  /\ pc[w] = "commit"
  /\ links' = [s \in Slugs |-> IF linkLock[s] = w THEN draft[s] ELSE links[s]]
  /\ users' = IF op[w] = "delete_user" THEN users \ {actor[w]} ELSE users
  /\ clicks' = clicks \cap RowIds'
  /\ Release(w)
  /\ Goto(w, IF op[w] \in {"create", "update"} THEN "refresh" ELSE "invalidate")
  /\ UNCHANGED <<slug, writerVars, passed, redis, readerVars>>

\* Reload the row.  A row that is gone is an error, and an update leaves without
\* invalidating; a creation has nothing to invalidate.
Refresh(w) ==
  /\ pc[w] = "refresh"
  /\ IF op[w] = "update" /\ Matches(w)
     THEN Goto(w, "invalidate") /\ UNCHANGED <<slug, writerVars>>
     ELSE EndWriter(w)
  /\ UNCHANGED <<db, passed, redis, readerVars>>

\* Mutant: DEL link:<slug> instead of a tombstone.
SetCachedLinksInvalidated_Delete(S) ==
  /\ cache' = [s \in Slugs |-> IF s \in S THEN Null ELSE cache[s]]
  /\ ttl' = [s \in Slugs |-> IF s \in S THEN 0 ELSE ttl[s]]

\* SET link:<slug> "invalidated" EX 5, for each slug S.
SetCachedLinksInvalidated(S) ==
  /\ cache' = [s \in Slugs |-> IF s \in S THEN Tombstone ELSE cache[s]]
  /\ ttl' = [s \in Slugs |-> IF s \in S THEN InvalidationTTL ELSE ttl[s]]

\* A Redis error is suppressed, and the pipeline that invalidates an account's
\* slugs is no transaction: any part of it may have been carried out.
Invalidate(w) ==
  /\ pc[w] = "invalidate"
  /\ \/ SetCachedLinksInvalidated(stale[w])
     \/ /\ "lost_invalidation" \in Faults
        /\ \E S \in SUBSET stale[w] : SetCachedLinksInvalidated(S)
  /\ EndWriter(w)
  /\ UNCHANGED <<db, passed, readerVars>>

\* A database error or the end of the process.  Before the commit it costs the
\* transaction; after it the invalidation is never sent.
AbandonWrite(w) ==
  /\ pc[w] # "idle"
  /\ pc[w] \in {"refresh", "invalidate"} => "lost_invalidation" \in Faults
  /\ Rollback(w)
-------------------------------------------------------------------------------
(* Time and Redis. *)

\* A second passes: no reader takes longer than FillDelay from SELECT to SET.
Tick ==
  /\ \A r \in Readers : pc[r] = "fill" => age[r] < FillDelay
  /\ \/ \E s \in Slugs : ttl[s] > 0
     \/ \E r \in Readers : pc[r] = "fill"
  /\ cache' = [s \in Slugs |-> IF ttl[s] <= 1 THEN Null ELSE cache[s]]
  /\ ttl' = [s \in Slugs |-> IF ttl[s] <= 1 THEN 0 ELSE ttl[s] - 1]
  /\ age' = [r \in Readers |-> IF pc[r] = "fill" THEN age[r] + 1 ELSE age[r]]
  /\ UNCHANGED <<db, passed, pc, slug, given, entry, writerVars>>

DeadlinePasses(d) ==
  /\ d \in Deadlines \ passed
  /\ passed' = passed \cup {d}
  /\ UNCHANGED <<db, redis, pc, slug, readerVars, writerVars>>

\* maxmemory-policy allkeys-lru, or a restart of Redis.
Evict(s) ==
  /\ \/ cache[s] \in Entry \cup {Malformed}
     \/ cache[s] = Tombstone /\ "tombstone_evicted" \in Faults
  /\ cache' = [cache EXCEPT ![s] = Null]
  /\ ttl' = [ttl EXCEPT ![s] = 0]
  /\ UNCHANGED <<db, passed, pc, slug, readerVars, writerVars>>

\* A replica of another release fills the key with a LinkCache this release
\* does not validate.
ForeignFill(s) ==
  /\ "malformed_entry" \in Faults
  /\ links[s] # Null
  /\ AddCachedLink(s, Malformed)
  /\ UNCHANGED <<db, passed, pc, slug, readerVars, writerVars>>

ReaderStep(r) ==
  \/ CacheGet(r) \/ CacheDiscard(r) \/ LoadLink(r) \/ FillCache(r)
  \/ Decide(r) \/ RecordClick(r)

WriterStep(w) ==
  \/ LoadOwnLink(w) \/ FlushUpdate(w) \/ FlushDelete(w)
  \/ LockUser(w) \/ CountLinks(w) \/ InsertLink(w)
  \/ ListSlugs(w) \/ FlushDeleteUser(w)
  \/ Commit(w) \/ Refresh(w) \/ Invalidate(w)

NewRequest ==
  \/ \E r \in Readers, s \in Slugs, p \in Passwords \cup {Null} : StartForward(r, s, p)
  \/ \E w \in Writers, u \in Users, s \in Slugs :
       \/ \E c \in Creations : BeginCreate(w, u, s, c)
       \/ \E p \in Patches : BeginUpdate(w, u, s, p)
       \/ BeginDelete(w, u, s)
  \/ \E w \in Writers, u \in Users : BeginDeleteUser(w, u)

Environment ==
  \/ \E d \in Deadlines : DeadlinePasses(d)
  \/ \E s \in Slugs : Evict(s) \/ ForeignFill(s)

\* Everything but the passing of time.
Work ==
  \/ NewRequest
  \/ \E r \in Readers : ReaderStep(r) \/ AbandonRead(r)
  \/ \E w \in Writers : WriterStep(w) \/ AbandonWrite(w)
  \/ Environment

Next == Work \/ Tick

Spec == Init /\ [][Next]_vars

\* A request in progress runs on; PostgreSQL serves those that wait for a row in
\* the order they came, so that each gets it if it is released again and again.
Fairness ==
  /\ \A r \in Readers : SF_vars(ReaderStep(r))
  /\ \A w \in Writers : SF_vars(WriterStep(w))

FairSpec == Spec /\ Fairness
-------------------------------------------------------------------------------
(* Waiting. *)

\* The link rows, or slugs, the next statement of a request waits for if another
\* transaction has them.  A click waits for a deletion, not for an update.
Wants(q) ==
  CASE pc[q] = "click" ->
         {s \in Slugs : /\ links[s] # Null /\ links[s].id = entry[q].id
                        /\ linkLock[s] # Null => draft[s] = Null}
    [] pc[q] = "flush" /\ op[q] = "create" -> {slug[q]}
    [] pc[q] = "flush" /\ op[q] = "update" ->
         {s \in {slug[q]} : Matches(q) /\ Changes(patch[q], loaded[q]) # NoChange}
    [] pc[q] = "flush" /\ op[q] = "delete" -> {s \in {slug[q]} : Matches(q)}
    [] pc[q] = "flush" /\ op[q] = "delete_user" -> OwnedBy(actor[q])
    [] OTHER -> {}

\* A cascade takes its rows one by one: while it waits for one it may have others.
MayHave(w) ==
  {s \in Slugs : linkLock[s] = w}
    \cup IF pc[w] = "flush" /\ op[w] = "delete_user" THEN Wants(w) ELSE {}

WantsUser(q, u) == pc[q] = "lock" /\ u = actor[q] /\ u \in users

WaitsFor(q) ==
  {w \in Writers \ {q} : \/ Wants(q) \cap MayHave(w) # {}
                         \/ \E u \in Users : WantsUser(q, u) /\ userLock[u] = w}
-------------------------------------------------------------------------------
(* Properties. *)

\* A mutation that has committed and has yet to invalidate the slug.  An update
\* still has to reload its row, and will get past that as long as the row is
\* there.
Covers(w, s) ==
  /\ s \in stale[w]
  /\ \/ pc[w] = "invalidate"
     \/ pc[w] = "refresh" /\ Matches(w)

Outdated(e, s) == links[s] = Null \/ e # FromLink(links[s])

\* A cached link differs from its row only between the commit of a mutation and
\* that mutation's own invalidation: the tombstone keeps out every reader that
\* read the row before (set_cached_link_invalidated, add_cached_link).
StaleFillsBlocked ==
  \A s \in Slugs : cache[s] \in Entry /\ Outdated(cache[s], s)
                     => \E w \in Writers : Covers(w, s)

\* However creations interleave, an account never holds more links than the
\* limit (create_link counts under the user row's lock).
WithinLimit == \A u \in Users : Cardinality(OwnedBy(u)) <= LinkLimit

\* delete_user invalidates every link it deletes: none appears between the
\* reading of the slugs and the commit.
DeletedLinksAreListed ==
  \A w \in Writers : pc[w] = "commit" /\ op[w] = "delete_user"
                        => OwnedBy(actor[w]) \subseteq stale[w]

\* No requests wait for each other in a circle, whatever part of its rows a
\* cascade has by then, nor for one whose transaction is over: account deletion
\* and creation lock the user row first, and no error leaves a lock behind.
NoDeadlock ==
  /\ \A S \in SUBSET Requests : S # {} => \E q \in S : WaitsFor(q) \cap S = {}
  /\ \A q \in Requests : \A w \in WaitsFor(q) : pc[w] \notin {"idle", "refresh", "invalidate"}

\* No request waits for ever: each gets the rows it waits for in the end, and its
\* statements come to an end.
EveryRequestEnds ==
  \A q \in Requests : (pc[q] # "idle") ~> (pc[q] = "idle")

\* However requests interleave, what is committed changes as if each operation
\* happened at one moment: no update brings back or leaves behind a row of another
\* request, every link has an account, and no click has a link that is gone.
Register == INSTANCE LinkRegister WITH users <- users, links <- links, clicks <- clicks

ImplementsRegister == Register!Spec

\* However updates of one link overlap, a commit loses none of them: each field is
\* written with the patch's value, or left as it is committed by then.  The latter
\* is for a field the patch does not set, or sets to what this request loaded: the
\* flush leaves that out, even if another request has changed the field since.
UpdatesAreKept ==
  [][\A w \in Writers :
       pc[w] = "commit" /\ pc'[w] = "refresh" /\ op[w] = "update" /\ Matches(w) =>
         \A f \in {"target", "status", "expires_at", "password"} :
           LET new == links'[slug[w]][f]
           IN  \/ patch[w][f] # Keep /\ new = patch[w][f]
               \/ /\ patch[w][f] \in {Keep, loaded[w][f]}
                  /\ new = links[slug[w]][f]]_vars
===============================================================================
