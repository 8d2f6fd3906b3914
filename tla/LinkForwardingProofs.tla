------------------------- MODULE LinkForwardingProofs -------------------------
(***************************************************************************)
(* What holds of LinkForwarding for every number of requests, accounts,    *)
(* slugs and values.                                                       *)
(***************************************************************************)
EXTENDS LinkForwarding, FiniteSetTheorems, TLAPS

(* The inductive invariant. *)

\* A reader in progress has its slug, and after the lookup a LinkCache.
ReadersOK ==
  \A r \in Readers :
    /\ pc[r] # "idle" => slug[r] \in Slugs
    /\ pc[r] \in {"fill", "decide", "click"} => entry[r] \in Entry
    /\ pc[r] = "fill" => age[r] <= FillDelay

\* Which writer takes which step, and what it has by then.
WriterOK(w) ==
  /\ pc[w] # "idle" => op[w] \in Ops /\ actor[w] \in Users
  /\ pc[w] # "idle" /\ op[w] # "delete_user" => slug[w] \in Slugs
  /\ pc[w] # "idle" /\ op[w] = "create" => patch[w] \in Creations
  /\ pc[w] # "idle" /\ op[w] = "update" => patch[w] \in Patches
  /\ pc[w] = "load" => op[w] \in {"update", "delete"}
  /\ pc[w] = "lock" => op[w] \in {"create", "delete_user"}
  /\ pc[w] = "count" => op[w] = "create"
  /\ pc[w] = "list" => op[w] = "delete_user"
  /\ pc[w] = "refresh" => op[w] \in {"create", "update"}
  /\ pc[w] = "idle" \/ op[w] = "create" => stale[w] = {}
  /\ pc[w] = "invalidate" => op[w] # "create"
  /\ pc[w] \in {"flush", "commit", "refresh", "invalidate"} /\ op[w] \in {"update", "delete"}
       => loaded[w] \in Link /\ stale[w] = {slug[w]}

WritersOK == \A w \in Writers : WriterOK(w)

\* A row is held only by a transaction about to commit, and the version it will
\* commit is what its operation makes of the committed one.
HeldFor(w, s) ==
  /\ pc[w] = "commit"
  /\ \/ /\ op[w] = "create"
        /\ s = slug[w]
        /\ links[s] = Null
        /\ draft[s] \in Link /\ draft[s].user = actor[w]
        /\ draft[s] = FromLinkCreate(patch[w], actor[w], draft[s].id)
     \/ /\ op[w] = "update"
        /\ s = slug[w]
        /\ links[s] \in Link /\ links[s].id = loaded[w].id
        /\ draft[s] \in Link /\ draft[s].id = links[s].id
        /\ draft[s].user = links[s].user
        /\ draft[s] \in Register!Updates(links[s], patch[w])
     \/ /\ op[w] \in {"delete", "delete_user"}
        /\ s \in stale[w]
        /\ links[s] # Null /\ draft[s] = Null
        /\ op[w] = "delete_user" => links[s].user = actor[w]

RowsOK == \A s \in Slugs, w \in Writers : linkLock[s] = w => HeldFor(w, s)

\* The steps of a writer that holds its user row.
HasUserRow(w) ==
  \/ op[w] = "create" /\ pc[w] \in {"count", "flush", "commit"}
  \/ op[w] = "delete_user" /\ pc[w] \in {"list", "flush", "commit"}

UserRowsOK == \A w \in Writers : HasUserRow(w) => userLock[actor[w]] = w

\* What delete_user listed is still everything the account owns.
Listed(w) ==
  op[w] = "delete_user" /\ pc[w] \in {"flush", "commit"}
    => OwnedBy(actor[w]) \subseteq stale[w]

ListsOK == \A w \in Writers : Listed(w)

SafeInv == TypeOK /\ ReadersOK /\ WritersOK /\ RowsOK /\ UserRowsOK /\ ListsOK

\* Nothing in Redis but links and tombstones.
NothingMalformed ==
  /\ \A s \in Slugs : cache[s] # Malformed
  /\ \A r \in Readers : pc[r] # "discard"

Covered(s) == \E w \in Writers : Covers(w, s)

\* A reader about to fill with an outdated link is behind a mutation that has
\* yet to invalidate, or finds a tombstone that outlasts its delay.
FillsOK ==
  \A r \in Readers :
    pc[r] = "fill" /\ Outdated(entry[r], slug[r])
      => \/ Covered(slug[r])
         \/ /\ cache[slug[r]] = Tombstone
            /\ ttl[slug[r]] + age[r] > FillDelay

CacheInv == NothingMalformed /\ StaleFillsBlocked /\ FillsOK
-------------------------------------------------------------------------------
(* Values. *)

\* What is cached of a link is a LinkCache.
LEMMA FromLinkType == ASSUME NEW l \in Link PROVE FromLink(l) \in Entry
BY DEF FromLink, Link, Entry

\* A creation's row is a link of its creator.
LEMMA NewLinkType ==
  ASSUME NEW c \in LinkCreate, NEW u \in Users, NEW i \in Ids
  PROVE  /\ FromLinkCreate(c, u, i) \in Link
         /\ FromLinkCreate(c, u, i).user = u
BY DEF FromLinkCreate, LinkCreate, Link, Statuses

\* The columns a flush writes form a patch.
LEMMA ChangesType ==
  ASSUME NEW p \in LinkUpdate, NEW l \in Link
  PROVE  Changes(p, l) \in LinkUpdate
BY DEF Changes, LinkUpdate

\* An update writes a link, and leaves its id and its owner alone.
LEMMA UpdatedLinkType ==
  ASSUME NEW l \in Link, NEW p \in LinkUpdate
  PROVE  /\ UpdateFromLinkUpdate(l, p) \in Link
         /\ UpdateFromLinkUpdate(l, p).id = l.id
         /\ UpdateFromLinkUpdate(l, p).user = l.user
<1>1. /\ Patched(p.target, l.target) \in Targets
      /\ Patched(p.status, l.status) \in Statuses
      /\ Patched(p.expires_at, l.expires_at) \in Deadlines \cup {Null}
      /\ Patched(p.password, l.password) \in Passwords \cup {Null}
  BY DEF Patched, LinkUpdate, Link
<1> QED BY <1>1 DEF UpdateFromLinkUpdate, Link

\* The columns a flush writes, chosen by what was loaded, are fields of the patch.
LEMMA ChangesChoose ==
  ASSUME NEW l \in Link, NEW old \in Link, NEW p \in LinkUpdate
  PROVE  UpdateFromLinkUpdate(l, Changes(p, old)) \in Register!Updates(l, p)
<1> DEFINE c == Changes(p, old)
           T == Patched(c.target, l.target)
           A == Patched(c.status, l.status)
           D == Patched(c.expires_at, l.expires_at)
           K == Patched(c.password, l.password)
           Set(t, a, d, k) == [l EXCEPT !.target = t, !.status = a,
                                        !.expires_at = d, !.password = k]
<1>1. /\ T \in Register!Choice(p.target, l.target)
      /\ A \in Register!Choice(p.status, l.status)
      /\ D \in Register!Choice(p.expires_at, l.expires_at)
      /\ K \in Register!Choice(p.password, l.password)
  BY DEF Patched, Changes, Register!Choice
<1>2. UpdateFromLinkUpdate(l, c) = Set(T, A, D, K)
  BY DEF UpdateFromLinkUpdate, Link
<1>3. Register!Updates(l, p)
        = {Set(t, a, d, k) : t \in Register!Choice(p.target, l.target),
                             a \in Register!Choice(p.status, l.status),
                             d \in Register!Choice(p.expires_at, l.expires_at),
                             k \in Register!Choice(p.password, l.password)}
  BY DEF Register!Updates
<1> HIDE DEF c, T, A, D, K, Set
<1> QED BY <1>1, <1>2, <1>3 DEF c
-------------------------------------------------------------------------------
(* Types. *)

\* The initial state is typed.
LEMMA TypeInit == Init => TypeOK
BY NullAssumption, TimeAssumption
DEF Init, TypeOK, ReaderSteps, WriterSteps, Requests

\* A step of a reader keeps the types.
LEMMA TypeReader ==
  ASSUME TypeOK, ReadersOK, NEW r \in Readers,
         \/ \E s \in Slugs, p \in Passwords \cup {Null} : StartForward(r, s, p)
         \/ ReaderStep(r) \/ AbandonRead(r)
  PROVE  TypeOK'
<1> USE DEF TypeOK, ReaderSteps, WriterSteps, Requests, Goto, EndReader,
            db, redis, readerVars, writerVars
<1>0. r \in Requests /\ r \notin Writers
  BY DomainAssumption
<1>1. ASSUME NEW s \in Slugs, NEW p \in Passwords \cup {Null}, StartForward(r, s, p)
      PROVE  TypeOK'
  BY <1>0, <1>1 DEF StartForward
<1>2. CASE CacheGet(r)
  BY <1>0, <1>2 DEF CacheGet
<1>3. CASE CacheDiscard(r)
  BY <1>0, <1>3 DEF CacheDiscard
<1>4. CASE LoadLink(r)
  <2>1. CASE links[slug[r]] = Null
    BY <1>0, <1>4, <2>1 DEF LoadLink
  <2>2. CASE links[slug[r]] # Null
    <3>1. FromLink(links[slug[r]]) \in Entry
      BY <1>0, <1>4, <2>2, FromLinkType DEF LoadLink, ReadersOK
    <3> QED BY <1>0, <1>4, <2>2, <3>1 DEF LoadLink
  <2> QED BY <2>1, <2>2
<1>5. CASE FillCache(r)
  BY <1>0, <1>5, TimeAssumption DEF FillCache, AddCachedLink, ReadersOK
<1>6. CASE Decide(r)
  <2>1. CASE Goto(r, "click") /\ UNCHANGED <<slug, readerVars>>
    BY <1>0, <1>6, <2>1 DEF Decide
  <2>2. CASE EndReader(r)
    BY <1>0, <1>6, <2>2 DEF Decide
  <2> QED BY <1>6, <2>1, <2>2 DEF Decide
<1>7. CASE RecordClick(r)
  BY <1>0, <1>7 DEF RecordClick, RowIds, Link
<1>8. CASE AbandonRead(r)
  BY <1>0, <1>8 DEF AbandonRead
<1> QED BY <1>1, <1>2, <1>3, <1>4, <1>5, <1>6, <1>7, <1>8 DEF ReaderStep

\* So does the beginning of a mutation,
LEMMA TypeBegin ==
  ASSUME TypeOK, NEW w \in Writers, NEW o \in Ops, NEW u \in Users,
         NEW s \in Slugs \cup {Null}, NEW p \in LinkUpdate \cup LinkCreate \cup {Null},
         NEW step \in {"load", "lock"}, Begin(w, o, u, s, p, step)
  PROVE  TypeOK'
BY DomainAssumption
DEF Begin, TypeOK, ReaderSteps, WriterSteps, Requests, Goto, db, redis, readerVars

\* The end of a request and of its transaction keep every variable in its type.
LEMMA TypeEndWriter ==
  ASSUME TypeOK, NEW w \in Writers, EndWriter(w)
  PROVE  /\ pc' \in [Requests -> ReaderSteps \cup WriterSteps]
         /\ \A r \in Readers : pc'[r] \in ReaderSteps
         /\ \A v \in Writers : pc'[v] \in WriterSteps
         /\ slug' \in [Requests -> Slugs \cup {Null}]
         /\ op' \in [Writers -> Ops \cup {Null}]
         /\ actor' \in [Writers -> Users \cup {Null}]
         /\ patch' \in [Writers -> LinkUpdate \cup LinkCreate \cup {Null}]
         /\ loaded' \in [Writers -> Link \cup {Null}]
         /\ stale' \in [Writers -> SUBSET Slugs]
BY DomainAssumption
DEF EndWriter, Goto, TypeOK, ReaderSteps, WriterSteps, Requests

\* The end of a transaction keeps the types of rows and locks.
LEMMA TypeRelease ==
  ASSUME TypeOK, NEW w \in Writers, Release(w)
  PROVE  /\ linkLock' \in [Slugs -> Writers \cup {Null}]
         /\ draft' \in [Slugs -> Link \cup {Null}]
         /\ userLock' \in [Users -> Writers \cup {Null}]
BY DEF Release, TypeOK

\* So does a write of a link or of its deletion.
LEMMA TypeWrite ==
  ASSUME TypeOK, NEW w \in Writers, NEW S, NEW v \in Link \cup {Null}, Write(w, S, v)
  PROVE  /\ linkLock' \in [Slugs -> Writers \cup {Null}]
         /\ draft' \in [Slugs -> Link \cup {Null}]
BY DEF Write, TypeOK

\* A writer's next step is a writer's step, and readers stay where they are.
LEMMA TypeGoto ==
  ASSUME TypeOK, NEW w \in Writers, NEW step \in WriterSteps, Goto(w, step)
  PROVE  /\ pc' \in [Requests -> ReaderSteps \cup WriterSteps]
         /\ \A r \in Readers : pc'[r] \in ReaderSteps
         /\ \A v \in Writers : pc'[v] \in WriterSteps
BY DomainAssumption DEF TypeOK, Goto, Requests

\* A rollback keeps the types.
LEMMA TypeRollback ==
  ASSUME TypeOK, NEW w \in Writers, Rollback(w)
  PROVE  TypeOK'
BY TypeEndWriter, TypeRelease DEF Rollback, TypeOK, redis, readerVars

\* So does each statement of a writer,
LEMMA TypeWriter ==
  ASSUME TypeOK, WritersOK, NEW w \in Writers, WriterStep(w)
  PROVE  TypeOK'
<1> USE DEF db, redis, readerVars, writerVars
<1>0. WriterOK(w)
  BY DEF WritersOK
<1>1. CASE LoadOwnLink(w)
  <2>1. CASE EndWriter(w)
    BY <1>1, <2>1, TypeEndWriter DEF LoadOwnLink, TypeOK
  <2>2. CASE ~ EndWriter(w)
    <3>1. /\ links[slug[w]] # Null
          /\ loaded' = [loaded EXCEPT ![w] = links[slug[w]]]
          /\ stale' = [stale EXCEPT ![w] = {slug[w]}]
          /\ Goto(w, "flush")
          /\ UNCHANGED <<slug, op, actor, patch, db, passed, redis, readerVars>>
      BY <1>1, <2>2 DEF LoadOwnLink
    <3>2. slug[w] \in Slugs
      BY <1>0, <1>1 DEF WriterOK, LoadOwnLink
    <3> QED BY <3>1, <3>2, TypeGoto DEF TypeOK, WriterSteps
  <2> QED BY <2>1, <2>2
<1>2. CASE FlushUpdate(w)
  <2>1. /\ slug[w] \in Slugs
        /\ patch[w] \in LinkUpdate
        /\ loaded[w] \in Link
    BY <1>0, <1>2, DomainAssumption DEF WriterOK, FlushUpdate, Ops
  <2> DEFINE change == Changes(patch[w], loaded[w])
  <2>2. CASE Goto(w, "commit") /\ UNCHANGED <<db, passed, redis, slug, readerVars, writerVars>>
    BY <2>2, TypeGoto DEF TypeOK, WriterSteps
  <2>3. CASE /\ Matches(w)
             /\ Write(w, {slug[w]}, UpdateFromLinkUpdate(links[slug[w]], change))
             /\ Goto(w, "commit")
             /\ UNCHANGED <<users, links, userLock, clicks, passed, redis, slug,
                            readerVars, writerVars>>
    <3>1. links[slug[w]] \in Link
      BY <2>1, <2>3 DEF TypeOK, Matches
    <3>2. UpdateFromLinkUpdate(links[slug[w]], change) \in Link
      BY <2>1, <3>1, ChangesType, UpdatedLinkType
    <3> QED BY <2>3, <3>2, TypeGoto, TypeWrite DEF TypeOK, WriterSteps
  <2>4. CASE Rollback(w)
    BY <2>4, TypeRollback
  <2> QED BY <1>2, <2>2, <2>3, <2>4 DEF FlushUpdate
<1>3. CASE FlushDelete(w)
  <2>1. CASE Write(w, {slug[w]}, Null)
    BY <1>3, <2>1, TypeGoto, TypeWrite DEF FlushDelete, TypeOK, WriterSteps
  <2>2. CASE UNCHANGED <<draft, linkLock>>
    BY <1>3, <2>2, TypeGoto DEF FlushDelete, TypeOK, WriterSteps
  <2> QED BY <1>3, <2>1, <2>2 DEF FlushDelete
<1>4. CASE LockUser(w)
  <2>1. CASE Rollback(w)
    BY <2>1, TypeRollback
  <2>2. CASE ~ Rollback(w)
    <3>1. /\ userLock' = [userLock EXCEPT ![actor[w]] = w]
          /\ Goto(w, "count") \/ Goto(w, "list")
          /\ UNCHANGED <<users, links, draft, linkLock, clicks, passed, redis, slug,
                         readerVars, writerVars>>
      BY <1>4, <2>2 DEF LockUser
    <3> QED BY <3>1, TypeGoto DEF TypeOK, WriterSteps
  <2> QED BY <2>1, <2>2
<1>5. CASE CountLinks(w)
  <2>1. CASE Rollback(w)
    BY <2>1, TypeRollback
  <2>2. CASE ~ Rollback(w)
    BY <1>5, <2>2, TypeGoto DEF CountLinks, TypeOK, WriterSteps
  <2> QED BY <2>1, <2>2
<1>6. CASE InsertLink(w)
  <2>1. CASE Rollback(w)
    BY <2>1, TypeRollback
  <2>2. CASE ~ Rollback(w)
    <3>1. PICK i \in FreshIds :
            /\ Write(w, {slug[w]}, FromLinkCreate(patch[w], actor[w], i))
            /\ loaded' = [loaded EXCEPT ![w] = FromLinkCreate(patch[w], actor[w], i)]
      BY <1>6, <2>2 DEF InsertLink
    <3>2. FromLinkCreate(patch[w], actor[w], i) \in Link
      BY <1>0, <1>6, NewLinkType, DomainAssumption DEF WriterOK, InsertLink, FreshIds
    <3>3. /\ Goto(w, "commit")
          /\ UNCHANGED <<users, links, userLock, clicks, passed, redis, slug,
                         readerVars, op, actor, patch, stale>>
      BY <1>6, <2>2 DEF InsertLink
    <3> QED BY <3>1, <3>2, <3>3, TypeGoto, TypeWrite DEF TypeOK, WriterSteps
  <2> QED BY <2>1, <2>2
<1>7. CASE ListSlugs(w)
  BY <1>7, TypeGoto DEF ListSlugs, OwnedBy, TypeOK, WriterSteps
<1>8. CASE FlushDeleteUser(w)
  BY <1>8, TypeGoto, TypeWrite DEF FlushDeleteUser, TypeOK, WriterSteps
<1>9. CASE Commit(w)
  <2>1. /\ links' \in [Slugs -> Link \cup {Null}]
        /\ users' \subseteq Users
        /\ clicks' \subseteq Ids
    BY <1>9 DEF Commit, TypeOK
  <2>2. Goto(w, "refresh") \/ Goto(w, "invalidate")
    BY <1>9 DEF Commit
  <2> QED BY <1>9, <2>1, <2>2, TypeGoto, TypeRelease DEF Commit, TypeOK, WriterSteps
<1>10. CASE Refresh(w)
  <2>1. CASE EndWriter(w)
    BY <1>10, <2>1, TypeEndWriter DEF Refresh, TypeOK
  <2>2. CASE Goto(w, "invalidate") /\ UNCHANGED <<slug, writerVars>>
    BY <1>10, <2>2, TypeGoto DEF Refresh, TypeOK, WriterSteps
  <2> QED BY <1>10, <2>1, <2>2 DEF Refresh
<1>11. CASE Invalidate(w)
  <2>1. PICK S \in SUBSET Slugs : SetCachedLinksInvalidated(S)
    BY <1>11 DEF Invalidate, TypeOK
  <2>2. /\ cache' \in [Slugs -> Entry \cup {Null, Tombstone, Malformed}]
        /\ ttl' \in [Slugs -> Nat]
    BY <2>1, TimeAssumption DEF SetCachedLinksInvalidated, TypeOK
  <2> QED BY <1>11, <2>2, TypeEndWriter DEF Invalidate, TypeOK
<1> QED BY <1>1, <1>2, <1>3, <1>4, <1>5, <1>6, <1>7, <1>8, <1>9, <1>10, <1>11 DEF WriterStep

\* and so do time, Redis and stuttering.
LEMMA TypeEnvironment ==
  ASSUME TypeOK, Environment \/ Tick \/ UNCHANGED vars
  PROVE  TypeOK'
<1> USE DEF TypeOK, db, redis, readerVars, writerVars
<1>1. ASSUME NEW d \in Deadlines, DeadlinePasses(d) PROVE TypeOK'
  BY <1>1 DEF DeadlinePasses
<1>2. ASSUME NEW s \in Slugs, Evict(s) PROVE TypeOK'
  BY <1>2 DEF Evict
<1>3. ASSUME NEW s \in Slugs, ForeignFill(s) PROVE TypeOK'
  BY <1>3, TimeAssumption DEF ForeignFill, AddCachedLink
<1>4. CASE Tick
  BY <1>4 DEF Tick
<1>5. CASE UNCHANGED vars
  BY <1>5 DEF vars
<1> QED BY <1>1, <1>2, <1>3, <1>4, <1>5 DEF Environment

\* What a writer may begin with.
BeginsWith(w, o, u, s, p, step) ==
  /\ Begin(w, o, u, s, p, step)
  /\ \/ o = "create" /\ s \in Slugs /\ p \in Creations /\ step = "lock"
     \/ o = "update" /\ s \in Slugs /\ p \in Patches /\ step = "load"
     \/ o = "delete" /\ s \in Slugs /\ p = Null /\ step = "load"
     \/ o = "delete_user" /\ s = Null /\ p = Null /\ step = "lock"

WriterBegins(w) ==
  \E o \in Ops, u \in Users, s \in Slugs \cup {Null},
     p \in LinkUpdate \cup LinkCreate \cup {Null}, step \in {"load", "lock"} :
    BeginsWith(w, o, u, s, p, step)

WriterAction(w) == WriterBegins(w) \/ WriterStep(w) \/ AbandonWrite(w)

ReaderAction(r) ==
  \/ \E s \in Slugs, p \in Passwords \cup {Null} : StartForward(r, s, p)
  \/ ReaderStep(r) \/ AbandonRead(r)

\* Work is done by a writer, a reader or Redis.
LEMMA WorkCases ==
  ASSUME Work
  PROVE  \/ \E w \in Writers : WriterAction(w)
         \/ \E r \in Readers : ReaderAction(r)
         \/ Environment
<1>1. ASSUME NEW w \in Writers, NEW u \in Users, NEW s \in Slugs,
             \/ \E c \in Creations : BeginCreate(w, u, s, c)
             \/ \E p \in Patches : BeginUpdate(w, u, s, p)
             \/ BeginDelete(w, u, s)
      PROVE  WriterBegins(w)
  BY <1>1, DomainAssumption
  DEF WriterBegins, BeginsWith, BeginCreate, BeginUpdate, BeginDelete, Ops
<1>2. ASSUME NEW w \in Writers, NEW u \in Users, BeginDeleteUser(w, u)
      PROVE  WriterBegins(w)
  BY <1>2 DEF WriterBegins, BeginsWith, BeginDeleteUser, Ops
<1> QED BY <1>1, <1>2
        DEF Work, NewRequest, WriterAction, ReaderAction

\* Every step is one of a writer, one of a reader, or one of neither.
LEMMA StepCases ==
  ASSUME [Next]_vars
  PROVE  \/ \E w \in Writers : WriterAction(w)
         \/ \E r \in Readers : ReaderAction(r)
         \/ Environment \/ Tick \/ UNCHANGED vars
BY WorkCases DEF Next

\* Every step keeps the types.
LEMMA TypeStep ==
  ASSUME TypeOK, ReadersOK, WritersOK, [Next]_vars
  PROVE  TypeOK'
<1>1. ASSUME NEW w \in Writers, WriterAction(w) PROVE TypeOK'
  BY <1>1, TypeBegin, TypeWriter, TypeRollback
  DEF WriterAction, WriterBegins, BeginsWith, AbandonWrite
<1>2. ASSUME NEW r \in Readers, ReaderAction(r) PROVE TypeOK'
  BY <1>2, TypeReader DEF ReaderAction
<1> QED BY <1>1, <1>2, StepCases, TypeEnvironment
-------------------------------------------------------------------------------
(* What a step leaves alone. *)

WriterSame(w) ==
  /\ pc'[w] = pc[w] /\ slug'[w] = slug[w] /\ op'[w] = op[w]
  /\ actor'[w] = actor[w] /\ patch'[w] = patch[w]
  /\ loaded'[w] = loaded[w] /\ stale'[w] = stale[w]

ReaderSame(r) ==
  /\ pc'[r] = pc[r] /\ slug'[r] = slug[r]
  /\ entry'[r] = entry[r] /\ age'[r] = age[r]

RowsSame == UNCHANGED <<users, links, draft, linkLock, userLock>>

\* A writer's step moves no other request.
LEMMA WriterFrame ==
  ASSUME TypeOK, NEW w \in Writers, WriterAction(w)
  PROVE  /\ \A v \in Writers \ {w} : WriterSame(v)
         /\ \A r \in Readers : ReaderSame(r)
<1> USE DomainAssumption
    DEF TypeOK, Requests, WriterSame, ReaderSame, Goto, db, redis, readerVars, writerVars
<1>1. CASE WriterBegins(w)
  BY <1>1 DEF WriterBegins, BeginsWith, Begin
<1>2. CASE Rollback(w)
  BY <1>2 DEF Rollback, EndWriter
<1>3. CASE LoadOwnLink(w)
  BY <1>3 DEF LoadOwnLink, EndWriter
<1>4. CASE FlushUpdate(w)
  BY <1>2, <1>4 DEF FlushUpdate
<1>5. CASE FlushDelete(w)
  BY <1>5 DEF FlushDelete
<1>6. CASE LockUser(w)
  BY <1>2, <1>6 DEF LockUser
<1>7. CASE CountLinks(w)
  BY <1>2, <1>7 DEF CountLinks
<1>8. CASE InsertLink(w)
  BY <1>2, <1>8 DEF InsertLink
<1>9. CASE ListSlugs(w)
  BY <1>9 DEF ListSlugs
<1>10. CASE FlushDeleteUser(w)
  BY <1>10 DEF FlushDeleteUser
<1>11. CASE Commit(w)
  BY <1>11 DEF Commit, EndWriter
<1>12. CASE Refresh(w)
  BY <1>12 DEF Refresh, EndWriter
<1>13. CASE Invalidate(w)
  BY <1>13 DEF Invalidate, EndWriter
<1> QED BY <1>1, <1>2, <1>3, <1>4, <1>5, <1>6, <1>7, <1>8, <1>9, <1>10, <1>11,
           <1>12, <1>13 DEF WriterAction, WriterStep, AbandonWrite

\* A reader's step touches no row, no lock and no other request.
LEMMA ReaderFrame ==
  ASSUME TypeOK, NEW r \in Readers, ReaderAction(r)
  PROVE  /\ RowsSame
         /\ \A w \in Writers : WriterSame(w)
         /\ \A q \in Readers \ {r} : ReaderSame(q)
<1> USE DomainAssumption
    DEF TypeOK, Requests, WriterSame, ReaderSame, RowsSame, Goto, EndReader,
        db, redis, readerVars, writerVars
<1>1. ASSUME NEW s \in Slugs, NEW p \in Passwords \cup {Null}, StartForward(r, s, p)
      PROVE  /\ RowsSame
             /\ \A w \in Writers : WriterSame(w)
             /\ \A q \in Readers \ {r} : ReaderSame(q)
  BY <1>1 DEF StartForward
<1>2. CASE CacheGet(r)
  BY <1>2 DEF CacheGet
<1>3. CASE CacheDiscard(r)
  BY <1>3 DEF CacheDiscard
<1>4. CASE LoadLink(r)
  BY <1>4 DEF LoadLink
<1>5. CASE FillCache(r)
  BY <1>5 DEF FillCache
<1>6. CASE Decide(r)
  BY <1>6 DEF Decide
<1>7. CASE RecordClick(r)
  BY <1>7 DEF RecordClick
<1>8. CASE AbandonRead(r)
  BY <1>8 DEF AbandonRead
<1> QED BY <1>1, <1>2, <1>3, <1>4, <1>5, <1>6, <1>7, <1>8 DEF ReaderAction, ReaderStep

\* Time and Redis touch no row, no lock and no request.
LEMMA EnvironmentFrame ==
  ASSUME TypeOK, Environment \/ Tick \/ UNCHANGED vars
  PROVE  /\ RowsSame
         /\ UNCHANGED <<pc, slug, entry>>
         /\ \A w \in Writers : WriterSame(w)
BY DEF Environment, DeadlinePasses, Evict, ForeignFill, Tick, vars, RowsSame, WriterSame,
       db, readerVars, writerVars
-------------------------------------------------------------------------------
(* Where requests are, and what they have by then. *)

\* Every step keeps ReadersOK.
LEMMA ReadersStep ==
  ASSUME SafeInv, [Next]_vars
  PROVE  ReadersOK'
<1> USE DEF SafeInv
<1>1. ASSUME NEW r \in Readers, ReaderAction(r) PROVE ReadersOK'
  <2> DEFINE OK == /\ pc'[r] # "idle" => slug'[r] \in Slugs
                   /\ pc'[r] \in {"fill", "decide", "click"} => entry'[r] \in Entry
                   /\ pc'[r] = "fill" => age'[r] <= FillDelay
  <2> USE TimeAssumption
      DEF TypeOK, ReadersOK, Requests, Goto, EndReader, db, redis, readerVars, writerVars
  <2>1. ASSUME NEW s \in Slugs, NEW p \in Passwords \cup {Null}, StartForward(r, s, p)
        PROVE  OK
    BY <2>1 DEF StartForward
  <2>2. CASE CacheGet(r)
    BY <2>2 DEF CacheGet
  <2>3. CASE CacheDiscard(r)
    BY <2>3 DEF CacheDiscard
  <2>4. CASE LoadLink(r)
    BY <2>4, FromLinkType DEF LoadLink
  <2>5. CASE FillCache(r)
    BY <2>5 DEF FillCache
  <2>6. CASE Decide(r)
    BY <2>6 DEF Decide
  <2>7. CASE RecordClick(r)
    BY <2>7 DEF RecordClick
  <2>8. CASE AbandonRead(r)
    BY <2>8 DEF AbandonRead
  <2>9. OK
    BY <1>1, <2>1, <2>2, <2>3, <2>4, <2>5, <2>6, <2>7, <2>8 DEF ReaderAction, ReaderStep
  <2> QED BY <1>1, <2>9, ReaderFrame DEF ReaderSame
<1>2. ASSUME NEW w \in Writers, WriterAction(w) PROVE ReadersOK'
  BY <1>2, WriterFrame DEF ReaderSame, ReadersOK
<1>3. CASE Tick
  BY <1>3, TimeAssumption
  DEF Tick, TypeOK, ReadersOK, Requests, db, redis, readerVars, writerVars
<1>4. CASE Environment \/ UNCHANGED vars
  BY <1>4
  DEF Environment, DeadlinePasses, Evict, ForeignFill, vars, ReadersOK, db, readerVars
<1> QED BY <1>1, <1>2, <1>3, <1>4, StepCases

\* A mutation begins with what its first steps need.
LEMMA WriterBeginsOK ==
  ASSUME TypeOK, NEW w \in Writers, WriterOK(w), WriterBegins(w)
  PROVE  WriterOK(w)'
BY DEF WriterBegins, BeginsWith, Begin, Goto, TypeOK, Requests, WriterOK, Ops

\* An answered mutation is idle.
LEMMA EndWriterOK ==
  ASSUME TypeOK, NEW w \in Writers, EndWriter(w)
  PROVE  /\ pc'[w] = "idle"
         /\ WriterOK(w)'
BY DEF EndWriter, Goto, TypeOK, Requests, WriterOK

\* Each statement of a writer leaves what the next one needs.
LEMMA WriterStepOK ==
  ASSUME SafeInv, NEW w \in Writers, WriterStep(w)
  PROVE  WriterOK(w)'
<1> USE DEF SafeInv, TypeOK, Requests, Goto, Ops, db, redis, readerVars, writerVars
<1>0. WriterOK(w)
  BY DEF WritersOK
<1>e. CASE EndWriter(w)
  BY <1>e, EndWriterOK
<1>r. CASE Rollback(w)
  BY <1>e, <1>r DEF Rollback
<1>1. CASE LoadOwnLink(w)
  BY <1>0, <1>e, <1>1 DEF LoadOwnLink, WriterOK
<1>2. CASE FlushUpdate(w)
  BY <1>0, <1>r, <1>2 DEF FlushUpdate, WriterOK
<1>3. CASE FlushDelete(w)
  BY <1>0, <1>3 DEF FlushDelete, WriterOK
<1>4. CASE LockUser(w)
  BY <1>0, <1>r, <1>4 DEF LockUser, WriterOK
<1>5. CASE CountLinks(w)
  BY <1>0, <1>r, <1>5 DEF CountLinks, WriterOK
<1>6. CASE InsertLink(w)
  BY <1>0, <1>r, <1>6 DEF InsertLink, WriterOK
<1>7. CASE ListSlugs(w)
  BY <1>0, <1>7 DEF ListSlugs, WriterOK
<1>8. CASE FlushDeleteUser(w)
  BY <1>0, <1>8 DEF FlushDeleteUser, WriterOK
<1>9. CASE Commit(w)
  BY <1>0, <1>9 DEF Commit, WriterOK
<1>10. CASE Refresh(w)
  BY <1>0, <1>e, <1>10 DEF Refresh, WriterOK
<1>11. CASE Invalidate(w)
  BY <1>e, <1>11 DEF Invalidate
<1> QED BY <1>1, <1>2, <1>3, <1>4, <1>5, <1>6, <1>7, <1>8, <1>9, <1>10, <1>11 DEF WriterStep

\* Every step keeps WritersOK.
LEMMA WritersStep ==
  ASSUME SafeInv, [Next]_vars
  PROVE  WritersOK'
<1> USE DEF SafeInv
<1>1. ASSUME NEW w \in Writers, WriterAction(w) PROVE WritersOK'
  <2>1. WriterOK(w)'
    BY <1>1, WriterBeginsOK, WriterStepOK, EndWriterOK
    DEF WritersOK, WriterAction, AbandonWrite, Rollback
  <2>2. ASSUME NEW v \in Writers \ {w} PROVE WriterOK(v)'
    BY <1>1, WriterFrame DEF WriterSame, WritersOK, WriterOK
  <2> QED BY <2>1, <2>2 DEF WritersOK
<1>2. ASSUME \A w \in Writers : WriterSame(w) PROVE WritersOK'
  BY <1>2 DEF WriterSame, WritersOK, WriterOK
<1> QED BY <1>1, <1>2, StepCases, ReaderFrame, EnvironmentFrame
-------------------------------------------------------------------------------
(* Rows and locks. *)

\* What a step of writer w does to the rows.
WritesRows(w) ==
  \E S \in SUBSET Slugs, v \in Link \cup {Null} :
    /\ Write(w, S, v)
    /\ UNCHANGED <<users, links, userLock>>
    /\ pc[w] = "flush" /\ pc'[w] = "commit"
    /\ op'[w] = op[w] /\ actor'[w] = actor[w] /\ stale'[w] = stale[w]
    /\ \A s \in S : linkLock[s] = Null /\ HeldFor(w, s)'
    /\ \/ v = Null \/ v.id \in FreshIds
       \/ \A s \in S : links[s] # Null /\ links[s].id = v.id

LocksUser(w) ==
  /\ pc[w] = "lock" /\ pc'[w] \in {"count", "list"}
  /\ op'[w] = op[w] /\ actor'[w] = actor[w]
  /\ userLock[actor[w]] = Null
  /\ userLock' = [userLock EXCEPT ![actor[w]] = w]
  /\ UNCHANGED <<users, links, draft, linkLock>>

KeepsRows(w) ==
  /\ RowsSame
  /\ pc[w] # "commit" /\ pc[w] # "lock"
  /\ HasUserRow(w)' <=> HasUserRow(w)
  /\ HasUserRow(w) => actor'[w] = actor[w]
  /\ Listed(w)'

EndsTransaction(w) ==
  /\ Release(w)
  /\ ~ HasUserRow(w)'
  /\ UNCHANGED <<users, links>> \/ Commit(w)

\* An update that is flushed writes its row, or has nothing to write.
LEMMA FlushUpdateRows ==
  ASSUME SafeInv, NEW w \in Writers, FlushUpdate(w), ~ Rollback(w)
  PROVE  WritesRows(w) \/ KeepsRows(w)
<1> USE DEF SafeInv, TypeOK, Requests, Goto, db, redis, readerVars, writerVars
<1> DEFINE s == slug[w]
           change == Changes(patch[w], loaded[w])
<1>1. /\ s \in Slugs /\ patch[w] \in LinkUpdate /\ loaded[w] \in Link
      /\ change \in LinkUpdate
  BY ChangesType, DomainAssumption DEF FlushUpdate, WritersOK, WriterOK, Ops
<1>2. CASE change = NoChange
  BY <1>2 DEF FlushUpdate, KeepsRows, RowsSame, HasUserRow, Listed
<1>3. CASE change # NoChange
  <2> DEFINE v == UpdateFromLinkUpdate(links[s], change)
  <2>1. /\ links[s] \in Link /\ links[s].id = loaded[w].id
        /\ linkLock[s] = Null /\ Write(w, {s}, v)
        /\ Goto(w, "commit")
        /\ UNCHANGED <<users, links, userLock, slug, writerVars>>
    BY <1>1, <1>3 DEF FlushUpdate, Matches
  <2>2. /\ v \in Link /\ v.id = links[s].id /\ v.user = links[s].user
        /\ v \in Register!Updates(links[s], patch[w])
    BY <1>1, <2>1, UpdatedLinkType, ChangesChoose
  <2> HIDE DEF v, change
  <2>3. HeldFor(w, s)'
    BY <1>1, <2>1, <2>2 DEF HeldFor, Write, FlushUpdate
  <2>4. links[s] # Null
    BY <2>1, NullAssumption
  <2> QED BY <1>1, <2>1, <2>2, <2>3, <2>4 DEF WritesRows, FlushUpdate
<1> QED BY <1>2, <1>3

\* A deletion that is flushed writes its row, or finds none.
LEMMA FlushDeleteRows ==
  ASSUME SafeInv, NEW w \in Writers, FlushDelete(w)
  PROVE  WritesRows(w) \/ KeepsRows(w)
<1> USE DEF SafeInv, TypeOK, Requests, Goto, db, redis, readerVars, writerVars, FlushDelete
<1>1. slug[w] \in Slugs /\ stale[w] = {slug[w]}
  BY DEF WritersOK, WriterOK, Ops
<1>2. CASE Matches(w)
  <2>1. HeldFor(w, slug[w])'
    BY <1>1, <1>2 DEF HeldFor, Write, Matches
  <2> QED BY <1>1, <1>2, <2>1 DEF WritesRows
<1>3. CASE ~ Matches(w)
  BY <1>3 DEF KeepsRows, RowsSame, HasUserRow, Listed
<1> QED BY <1>2, <1>3

\* An insertion writes a row where there was none.
LEMMA InsertLinkRows ==
  ASSUME SafeInv, NEW w \in Writers, InsertLink(w), ~ Rollback(w)
  PROVE  WritesRows(w)
<1> USE DEF SafeInv, TypeOK, Requests, Goto, db, redis, readerVars, writerVars
<1>1. slug[w] \in Slugs /\ patch[w] \in LinkCreate /\ actor[w] \in Users
  BY DomainAssumption DEF InsertLink, WritersOK, WriterOK
<1>2. PICK i \in FreshIds : Write(w, {slug[w]}, FromLinkCreate(patch[w], actor[w], i))
  BY DEF InsertLink
<1> DEFINE v == FromLinkCreate(patch[w], actor[w], i)
<1>3. /\ v \in Link /\ v.user = actor[w] /\ v.id = i
      /\ v = FromLinkCreate(patch[w], actor[w], v.id)
  BY <1>1, NewLinkType DEF FreshIds, FromLinkCreate
<1> HIDE DEF v
<1>4. /\ links[slug[w]] = Null /\ linkLock[slug[w]] = Null
      /\ Goto(w, "commit")
      /\ UNCHANGED <<users, links, userLock, slug, op, actor, patch, stale>>
  BY DEF InsertLink
<1>5. Write(w, {slug[w]}, v)
  BY <1>2 DEF v
<1>6. HeldFor(w, slug[w])'
  BY <1>1, <1>3, <1>4, <1>5 DEF HeldFor, Write, InsertLink
<1> QED BY <1>1, <1>3, <1>4, <1>5, <1>6 DEF WritesRows, InsertLink

\* An account's deletion writes the rows it listed, and no others.
LEMMA FlushDeleteUserRows ==
  ASSUME SafeInv, NEW w \in Writers, FlushDeleteUser(w)
  PROVE  WritesRows(w)
<1> USE DEF SafeInv, TypeOK, Requests, Goto, db, redis, readerVars, writerVars, FlushDeleteUser
<1>1. OwnedBy(actor[w]) \subseteq stale[w]
  BY DEF ListsOK, Listed
<1>2. OwnedBy(actor[w]) \in SUBSET Slugs
  BY DEF OwnedBy
<1>3. \A s \in OwnedBy(actor[w]) : HeldFor(w, s)'
  BY <1>1, <1>2 DEF HeldFor, Write, OwnedBy
<1> QED BY <1>2, <1>3 DEF WritesRows

\* A writer's step writes rows, locks the user row, ends the transaction, or
\* leaves rows and locks alone.
LEMMA WriterRows ==
  ASSUME SafeInv, NEW w \in Writers, WriterAction(w)
  PROVE  WritesRows(w) \/ LocksUser(w) \/ KeepsRows(w) \/ EndsTransaction(w)
<1> USE DEF SafeInv, TypeOK, Requests, Goto, db, redis, readerVars, writerVars
<1>0. WriterOK(w)
  BY DEF WritersOK
<1>r. CASE Rollback(w)
  <2>1. pc'[w] = "idle"
    BY <1>r, EndWriterOK DEF Rollback
  <2> QED BY <1>r, <2>1 DEF Rollback, EndsTransaction, HasUserRow
<1>1. CASE WriterBegins(w)
  BY <1>1 DEF WriterBegins, BeginsWith, Begin, KeepsRows, RowsSame, HasUserRow, Listed
<1>2. CASE LoadOwnLink(w)
  BY <1>0, <1>2 DEF LoadOwnLink, EndWriter, WriterOK, KeepsRows, RowsSame, HasUserRow, Listed
<1>3. CASE FlushUpdate(w)
  BY <1>r, <1>3, FlushUpdateRows
<1>4. CASE FlushDelete(w)
  BY <1>4, FlushDeleteRows
<1>5. CASE LockUser(w)
  BY <1>r, <1>5 DEF LockUser, LocksUser
<1>6. CASE CountLinks(w)
  BY <1>0, <1>r, <1>6 DEF CountLinks, WriterOK, KeepsRows, RowsSame, HasUserRow, Listed
<1>7. CASE InsertLink(w)
  BY <1>r, <1>7, InsertLinkRows
<1>8. CASE ListSlugs(w)
  BY <1>0, <1>8 DEF ListSlugs, WriterOK, KeepsRows, RowsSame, HasUserRow, Listed, OwnedBy
<1>9. CASE FlushDeleteUser(w)
  BY <1>9, FlushDeleteUserRows
<1>10. CASE Commit(w)
  <2>1. pc'[w] \in {"idle", "refresh", "invalidate"}
    BY <1>10, EndWriterOK DEF Commit
  <2> QED BY <1>10, <2>1 DEF Commit, EndsTransaction, HasUserRow
<1>11. CASE Refresh(w)
  BY <1>11 DEF Refresh, EndWriter, KeepsRows, RowsSame, HasUserRow, Listed
<1>12. CASE Invalidate(w)
  BY <1>12 DEF Invalidate, EndWriter, KeepsRows, RowsSame, HasUserRow, Listed
<1> QED BY <1>r, <1>1, <1>2, <1>3, <1>4, <1>5, <1>6, <1>7, <1>8, <1>9, <1>10, <1>11,
           <1>12 DEF WriterAction, WriterStep, AbandonWrite

\* What a row is held for stays while its holder and the row stay.
LEMMA HeldForFrame ==
  ASSUME NEW v \in Writers, NEW s \in Slugs, HeldFor(v, s), WriterSame(v),
         links'[s] = links[s], draft'[s] = draft[s]
  PROVE  HeldFor(v, s)'
BY DEF HeldFor, WriterSame

\* Every step keeps RowsOK.
LEMMA RowsStep ==
  ASSUME SafeInv, [Next]_vars
  PROVE  RowsOK'
<1> USE DEF SafeInv
<1>1. ASSUME NEW w \in Writers, WriterAction(w) PROVE RowsOK'
  <2> SUFFICES ASSUME NEW s \in Slugs, NEW v \in Writers, linkLock'[s] = v
               PROVE  HeldFor(v, s)'
    BY DEF RowsOK
  <2>0. v # w => WriterSame(v)
    BY <1>1, WriterFrame
  <2>1. CASE WritesRows(w)
    <3>1. PICK S \in SUBSET Slugs, x \in Link \cup {Null} :
            /\ Write(w, S, x) /\ UNCHANGED links /\ pc[w] = "flush"
            /\ \A t \in S : HeldFor(w, t)'
      BY <2>1 DEF WritesRows
    <3>2. CASE s \in S
      BY <3>1, <3>2 DEF Write
    <3>3. CASE s \notin S
      <4>1. linkLock[s] = v /\ draft'[s] = draft[s]
        BY <3>1, <3>3 DEF Write
      <4>2. HeldFor(v, s) /\ v # w
        BY <3>1, <4>1 DEF RowsOK, HeldFor
      <4> QED BY <2>0, <3>1, <4>1, <4>2, HeldForFrame
    <3> QED BY <3>2, <3>3
  <2>2. CASE LocksUser(w) \/ KeepsRows(w)
    <3>1. linkLock[s] = v /\ UNCHANGED <<links, draft>> /\ pc[w] # "commit"
      BY <2>2 DEF LocksUser, KeepsRows, RowsSame
    <3>2. HeldFor(v, s) /\ v # w
      BY <3>1 DEF RowsOK, HeldFor
    <3> QED BY <2>0, <3>1, <3>2, HeldForFrame
  <2>3. CASE EndsTransaction(w)
    <3>1. linkLock[s] = v /\ v # w /\ draft'[s] = draft[s]
      BY <2>3, NullAssumption DEF EndsTransaction, Release
    <3>2. links'[s] = links[s]
      BY <2>3, <3>1 DEF EndsTransaction, Commit
    <3> QED BY <2>0, <3>1, <3>2, HeldForFrame DEF RowsOK
  <2> QED BY <1>1, <2>1, <2>2, <2>3, WriterRows
<1>2. ASSUME RowsSame, \A w \in Writers : WriterSame(w) PROVE RowsOK'
  BY <1>2, HeldForFrame DEF RowsSame, RowsOK
<1> QED BY <1>1, <1>2, StepCases, ReaderFrame, EnvironmentFrame

\* Every step keeps UserRowsOK.
LEMMA UserRowsStep ==
  ASSUME SafeInv, [Next]_vars
  PROVE  UserRowsOK'
<1> USE DEF SafeInv
<1>1. ASSUME NEW w \in Writers, WriterAction(w) PROVE UserRowsOK'
  <2> SUFFICES ASSUME NEW v \in Writers, HasUserRow(v)'
               PROVE  userLock'[actor'[v]] = v
    BY DEF UserRowsOK
  <2>1. CASE v = w
    <3>1. CASE LocksUser(w)
      <4>1. actor[w] \in Users
        BY <3>1 DEF LocksUser, WritersOK, WriterOK
      <4> QED BY <2>1, <3>1, <4>1 DEF LocksUser, TypeOK
    <3>2. CASE ~ LocksUser(w)
      <4>1. HasUserRow(w) /\ actor'[w] = actor[w] /\ UNCHANGED userLock
        BY <1>1, <2>1, <3>2, WriterRows
        DEF WritesRows, KeepsRows, RowsSame, EndsTransaction, HasUserRow
      <4> QED BY <2>1, <4>1 DEF UserRowsOK
    <3> QED BY <3>1, <3>2
  <2>2. CASE v # w
    <3>1. WriterSame(v)
      BY <1>1, <2>2, WriterFrame
    <3>2. HasUserRow(v) /\ userLock[actor[v]] = v /\ actor[v] \in Users
      BY <3>1 DEF HasUserRow, WriterSame, UserRowsOK, WritersOK, WriterOK
    <3>3. CASE LocksUser(w)
      BY <3>1, <3>2, <3>3, NullAssumption DEF LocksUser, WriterSame, TypeOK
    <3>4. CASE EndsTransaction(w)
      BY <2>2, <3>1, <3>2, <3>4 DEF EndsTransaction, Release, WriterSame
    <3>5. CASE WritesRows(w) \/ KeepsRows(w)
      BY <3>1, <3>2, <3>5 DEF WritesRows, KeepsRows, RowsSame, WriterSame
    <3> QED BY <1>1, <3>3, <3>4, <3>5, WriterRows
  <2> QED BY <2>1, <2>2
<1>2. ASSUME RowsSame, \A w \in Writers : WriterSame(w) PROVE UserRowsOK'
  BY <1>2 DEF RowsSame, WriterSame, UserRowsOK, HasUserRow
<1> QED BY <1>1, <1>2, StepCases, ReaderFrame, EnvironmentFrame

\* While a transaction holds a user row, no other commit adds to what that
\* account owns: a creation would hold the row, an update keeps the owner.
LEMMA OwnedShrinks ==
  ASSUME SafeInv, NEW w \in Writers, Commit(w), NEW u \in Users,
         op[w] = "create" => actor[w] # u
  PROVE  \A s \in Slugs : links'[s] # Null /\ links'[s].user = u => s \in OwnedBy(u)
<1> USE DEF SafeInv
<1> SUFFICES ASSUME NEW s \in Slugs, links'[s] # Null, links'[s].user = u
             PROVE  links[s] # Null /\ links[s].user = u
  BY DEF OwnedBy
<1>1. CASE linkLock[s] # w
  BY <1>1 DEF Commit
<1>2. CASE linkLock[s] = w
  <2>1. HeldFor(w, s) /\ links'[s] = draft[s]
    BY <1>2 DEF RowsOK, Commit
  <2> QED BY <2>1, NullAssumption DEF HeldFor
<1> QED BY <1>1, <1>2

\* Every step keeps ListsOK.
LEMMA ListsStep ==
  ASSUME SafeInv, [Next]_vars
  PROVE  ListsOK'
<1> USE DEF SafeInv
<1>1. ASSUME NEW w \in Writers, WriterAction(w) PROVE ListsOK'
  <2> SUFFICES ASSUME NEW v \in Writers, op'[v] = "delete_user",
                      pc'[v] \in {"flush", "commit"}
               PROVE  OwnedBy(actor[v])' \subseteq stale'[v]
    BY DEF ListsOK, Listed
  <2>1. CASE v = w
    BY <1>1, <2>1, WriterRows
    DEF WritesRows, LocksUser, KeepsRows, EndsTransaction, HasUserRow, ListsOK, Listed, OwnedBy
  <2>2. CASE v # w
    <3>1. WriterSame(v)
      BY <1>1, <2>2, WriterFrame
    <3>2. HasUserRow(v) /\ op[v] = "delete_user" /\ OwnedBy(actor[v]) \subseteq stale[v]
      BY <3>1 DEF WriterSame, HasUserRow, ListsOK, Listed
    <3>3. CASE Commit(w)
      <4>1. actor[v] \in Users /\ userLock[actor[v]] = v
        BY <3>2 DEF HasUserRow, UserRowsOK, WritersOK, WriterOK
      <4>2. op[w] = "create" => actor[w] # actor[v]
        BY <2>2, <3>3, <4>1 DEF Commit, HasUserRow, UserRowsOK
      <4>3. \A s \in Slugs : links'[s] # Null /\ links'[s].user = actor[v]
                              => s \in OwnedBy(actor[v])
        BY <3>3, <4>1, <4>2, OwnedShrinks
      <4> QED BY <3>1, <3>2, <4>3 DEF WriterSame, OwnedBy
    <3>4. CASE UNCHANGED links
      BY <3>1, <3>2, <3>4 DEF WriterSame, OwnedBy
    <3> QED BY <1>1, <3>3, <3>4, WriterRows
            DEF WritesRows, LocksUser, KeepsRows, RowsSame, EndsTransaction
  <2> QED BY <2>1, <2>2
<1>2. ASSUME RowsSame, \A w \in Writers : WriterSame(w) PROVE ListsOK'
  BY <1>2 DEF RowsSame, WriterSame, ListsOK, Listed, OwnedBy
<1> QED BY <1>1, <1>2, StepCases, ReaderFrame, EnvironmentFrame

\* SafeInv holds initially,
LEMMA SafeInit == Init => SafeInv
BY TypeInit, NullAssumption
DEF Init, SafeInv, ReadersOK, WritersOK, WriterOK, RowsOK, UserRowsOK, HasUserRow, ListsOK,
    Listed, Requests

\* is kept by every step,
LEMMA SafeStep == SafeInv /\ [Next]_vars => SafeInv'
BY TypeStep, ReadersStep, WritersStep, RowsStep, UserRowsStep, ListsStep DEF SafeInv

\* and so is an invariant, whatever faults happen.
LEMMA SafeAlways == Spec => []SafeInv
BY SafeInit, SafeStep, PTL DEF Spec

\* Every variable keeps its type, whatever faults happen.
THEOREM TypeCorrect == Spec => []TypeOK
<1>1. SafeInv => TypeOK
  BY DEF SafeInv
<1> QED BY <1>1, SafeAlways, PTL

\* At the commit of delete_user, every link the account owns is on the list of
\* slugs to invalidate: the lock on the user row keeps creations out.
THEOREM DeletionsAreComplete == Spec => []DeletedLinksAreListed
<1>1. SafeInv => DeletedLinksAreListed
  BY DEF SafeInv, ListsOK, Listed, DeletedLinksAreListed
<1> QED BY <1>1, SafeAlways, PTL
-------------------------------------------------------------------------------
(* The limit of links. *)

\* A creation that has counted will still find room when it commits.
HasRoom(w) ==
  op[w] = "create" /\ pc[w] \in {"flush", "commit"} => BelowLimit(actor[w])

LimitInv == WithinLimit /\ \A w \in Writers : HasRoom(w)

\* An account's links are finitely many, and fewer slugs are no more links.
LEMMA OwnedFinite ==
  /\ \A u : OwnedBy(u) \subseteq Slugs /\ IsFiniteSet(OwnedBy(u))
            /\ Cardinality(OwnedBy(u)) \in Nat
  /\ \A u : OwnedBy(u)' \subseteq Slugs /\ IsFiniteSet(OwnedBy(u)')
            /\ Cardinality(OwnedBy(u)') \in Nat
<1>1. \A S \in SUBSET Slugs : IsFiniteSet(S) /\ Cardinality(S) \in Nat
  BY DomainAssumption, FS_Subset, FS_CardinalityType
<1>2. \A u : OwnedBy(u) \in SUBSET Slugs /\ OwnedBy(u)' \in SUBSET Slugs
  BY DEF OwnedBy
<1> QED BY <1>1, <1>2

\* The limit, when no step but a creation's commit adds to an account.
LEMMA CommitWithinLimit ==
  ASSUME SafeInv, LimitInv, NEW w \in Writers, Commit(w), NEW u \in Users
  PROVE  /\ Cardinality(OwnedBy(u)') <= LinkLimit
         /\ ~ (op[w] = "create" /\ actor[w] = u)
              => Cardinality(OwnedBy(u)') <= Cardinality(OwnedBy(u))
<1> USE TimeAssumption DEF SafeInv
<1>1. CASE ~ (op[w] = "create" /\ actor[w] = u)
  <2>1. OwnedBy(u)' \subseteq OwnedBy(u)
    BY <1>1, OwnedShrinks DEF OwnedBy
  <2>2. Cardinality(OwnedBy(u)') <= Cardinality(OwnedBy(u))
    BY <2>1, OwnedFinite, FS_Subset
  <2> QED BY <2>2, OwnedFinite DEF LimitInv, WithinLimit
<1>2. CASE op[w] = "create" /\ actor[w] = u
  <2>1. OwnedBy(u)' \subseteq OwnedBy(u) \cup {slug[w]}
    <3> SUFFICES ASSUME NEW s \in Slugs, links'[s] # Null, links'[s].user = u, s # slug[w]
                 PROVE  links[s] # Null /\ links[s].user = u
      BY DEF OwnedBy
    <3>1. linkLock[s] # w
      BY <1>2 DEF RowsOK, HeldFor
    <3> QED BY <3>1 DEF Commit
  <2>2. Cardinality(OwnedBy(u)) < LinkLimit
    BY <1>2 DEF LimitInv, HasRoom, BelowLimit, Commit
  <2>3. /\ IsFiniteSet(OwnedBy(u) \cup {slug[w]})
        /\ Cardinality(OwnedBy(u) \cup {slug[w]}) <= Cardinality(OwnedBy(u)) + 1
    BY OwnedFinite, FS_AddElement
  <2>4. Cardinality(OwnedBy(u)') <= Cardinality(OwnedBy(u) \cup {slug[w]})
    BY <2>1, <2>3, FS_Subset
  <2>5. Cardinality(OwnedBy(u) \cup {slug[w]}) \in Nat
    BY <2>3, FS_CardinalityType
  <2> QED BY <1>2, <2>2, <2>3, <2>4, <2>5, OwnedFinite
<1> QED BY <1>1, <1>2

\* The writer that moves keeps room for its own creation.
LEMMA HasRoomKept ==
  ASSUME SafeInv, LimitInv, NEW w \in Writers, WriterAction(w), ~ Commit(w)
  PROVE  HasRoom(w)'
<1>0. WriterOK(w) /\ HasRoom(w)
  BY DEF SafeInv, WritersOK, LimitInv
<1>1. UNCHANGED links
  BY WriterRows DEF WritesRows, LocksUser, KeepsRows, RowsSame, EndsTransaction
<1>2. SUFFICES ASSUME op'[w] = "create", pc'[w] \in {"flush", "commit"}
               PROVE  BelowLimit(actor[w])'
  BY DEF HasRoom
<1>3. ~ EndWriter(w)
  BY <1>2, EndWriterOK DEF SafeInv
<1>4. InsertLink(w) \/ CountLinks(w)
  <2> USE DEF SafeInv, TypeOK, Requests, Goto, db, redis, readerVars, writerVars
  <2>1. ~ WriterBegins(w)
    BY <1>2 DEF WriterBegins, BeginsWith, Begin
  <2>2. ~ (LoadOwnLink(w) \/ ListSlugs(w))
    BY <1>0, <1>2, <1>3 DEF LoadOwnLink, ListSlugs, WriterOK
  <2>3. ~ (FlushUpdate(w) \/ FlushDelete(w) \/ FlushDeleteUser(w))
    BY <1>2, <1>3 DEF FlushUpdate, FlushDelete, FlushDeleteUser, Rollback
  <2>4. ~ (LockUser(w) \/ Refresh(w) \/ Invalidate(w) \/ AbandonWrite(w))
    BY <1>2, <1>3 DEF LockUser, Refresh, Invalidate, AbandonWrite, Rollback
  <2> QED BY <2>1, <2>2, <2>3, <2>4 DEF WriterAction, WriterStep
<1>5. UNCHANGED actor /\ op[w] = "create" /\ BelowLimit(actor[w])
  BY <1>0, <1>2, <1>3, <1>4
  DEF InsertLink, CountLinks, Rollback, HasRoom, WriterOK, writerVars
<1> QED BY <1>1, <1>5 DEF BelowLimit, OwnedBy

\* Every step keeps LimitInv.
LEMMA LimitStep ==
  ASSUME SafeInv, LimitInv, [Next]_vars
  PROVE  LimitInv'
<1> USE DEF SafeInv
<1>1. ASSUME NEW w \in Writers, Commit(w) PROVE LimitInv'
  <2>1. WithinLimit'
    BY <1>1, CommitWithinLimit DEF WithinLimit
  <2>2. ASSUME NEW v \in Writers \ {w} PROVE HasRoom(v)'
    <3> SUFFICES ASSUME op'[v] = "create", pc'[v] \in {"flush", "commit"}
                 PROVE  BelowLimit(actor[v])'
      BY DEF HasRoom
    <3>1. WriterSame(v)
      BY <1>1, WriterFrame DEF WriterAction, WriterStep
    <3>2. /\ HasUserRow(v) /\ userLock[actor[v]] = v /\ actor[v] \in Users
          /\ actor'[v] = actor[v] /\ BelowLimit(actor[v])
      BY <3>1 DEF WriterSame, HasUserRow, UserRowsOK, WritersOK, WriterOK, LimitInv, HasRoom
    <3>3. ~ (op[w] = "create" /\ actor[w] = actor[v])
      BY <1>1, <2>2, <3>2 DEF Commit, HasUserRow, UserRowsOK
    <3>4. ASSUME NEW u \in Users, u = actor[v]
          PROVE  Cardinality(OwnedBy(u)') <= Cardinality(OwnedBy(u))
      BY <1>1, <3>3, <3>4, CommitWithinLimit
    <3>5. Cardinality({s \in Slugs : links'[s] # Null /\ links'[s].user = actor[v]})
            <= Cardinality(OwnedBy(actor[v]))
      BY <3>2, <3>4 DEF OwnedBy
    <3>6. BelowLimit(actor[v])' <=>
            Cardinality({s \in Slugs : links'[s] # Null /\ links'[s].user = actor[v]})
              < LinkLimit
      BY <3>2 DEF BelowLimit, OwnedBy
    <3>7. /\ Cardinality({s \in Slugs : links'[s] # Null /\ links'[s].user = actor[v]}) \in Nat
          /\ Cardinality(OwnedBy(actor[v])) \in Nat
      <4>1. Cardinality(OwnedBy(actor[v])) \in Nat
        BY OwnedFinite
      <4>2. {s \in Slugs : links'[s] # Null /\ links'[s].user = actor[v]} \subseteq Slugs
        OBVIOUS
      <4> QED BY <4>1, <4>2, DomainAssumption, FS_Subset, FS_CardinalityType
    <3> QED BY <3>2, <3>5, <3>6, <3>7, TimeAssumption DEF BelowLimit
  <2>3. HasRoom(w)'
    <3>1. pc'[w] \in {"idle", "refresh", "invalidate"}
      BY <1>1, EndWriterOK DEF Commit, Goto, TypeOK, Requests
    <3> QED BY <3>1 DEF HasRoom
  <2> QED BY <2>1, <2>2, <2>3 DEF LimitInv
<1>2. ASSUME NEW w \in Writers, WriterAction(w), ~ Commit(w) PROVE LimitInv'
  <2>1. UNCHANGED links
    BY <1>2, WriterRows DEF WritesRows, LocksUser, KeepsRows, RowsSame, EndsTransaction
  <2>2. WithinLimit'
    BY <2>1 DEF LimitInv, WithinLimit, OwnedBy
  <2>3. ASSUME NEW v \in Writers \ {w} PROVE HasRoom(v)'
    BY <1>2, <2>1, WriterFrame DEF WriterSame, LimitInv, HasRoom, BelowLimit, OwnedBy
  <2> QED BY <1>2, <2>2, <2>3, HasRoomKept DEF LimitInv
<1>3. ASSUME RowsSame, \A w \in Writers : WriterSame(w) PROVE LimitInv'
  BY <1>3 DEF RowsSame, WriterSame, LimitInv, WithinLimit, HasRoom, BelowLimit, OwnedBy
<1> QED BY <1>1, <1>2, <1>3, StepCases, ReaderFrame, EnvironmentFrame

\* No account has a link at the start.
LEMMA LimitInit == Init => LimitInv
<1>1. Init => \A u : OwnedBy(u) = {}
  BY DEF Init, OwnedBy
<1> QED BY <1>1, FS_EmptySet, TimeAssumption
        DEF Init, LimitInv, WithinLimit, HasRoom, Requests

\* However creations, updates and deletions interleave, no account ever holds
\* more links than USER_LINK_LIMIT.
THEOREM LimitHolds == Spec => []WithinLimit
<1>1. Init => LimitInv
  BY LimitInit
<1>2. SafeInv /\ LimitInv /\ [Next]_vars => LimitInv'
  BY LimitStep
<1>3. LimitInv => WithinLimit
  BY DEF LimitInv
<1> QED BY <1>1, <1>2, <1>3, SafeAlways, PTL DEF Spec
-------------------------------------------------------------------------------
(* The cache. *)

\* A mutation that has yet to reload its row covers just that row.
LEMMA CoversItsSlug ==
  ASSUME WritersOK, NEW w \in Writers, NEW s \in Slugs, Covers(w, s), pc[w] = "refresh"
  PROVE  slug[w] = s
BY DEF Covers, WritersOK, WriterOK

\* A mutation on its way to its invalidation covers its slugs as long as it and
\* the row stay as they are.
LEMMA CoversFrame ==
  ASSUME WritersOK, NEW w \in Writers, NEW s \in Slugs, Covers(w, s), WriterSame(w),
         links'[s] = links[s]
  PROVE  Covers(w, s)'
BY CoversItsSlug DEF Covers, WriterSame, Matches

\* A commit leaves a copy outdated only where it, or a mutation before it, has
\* yet to invalidate the slug, unless the copy already was and nobody had.
LEMMA CommitCovers ==
  ASSUME SafeInv, NEW w \in Writers, Commit(w), NEW s \in Slugs, NEW e,
         links'[s] = Null \/ e # FromLink(links'[s])
  PROVE  Covered(s)' \/ (Outdated(e, s) /\ ~ Covered(s))
<1> USE DEF SafeInv
<1>0. /\ pc[w] = "commit"
      /\ \A v \in Writers \ {w} : WriterSame(v)
  BY WriterFrame DEF Commit, WriterAction, WriterStep
<1>1. CASE linkLock[s] # w
  <2>1. links'[s] = links[s]
    BY <1>1 DEF Commit
  <2>2. ASSUME NEW v \in Writers, Covers(v, s) PROVE Covers(v, s)'
    BY <1>0, <2>1, <2>2, CoversFrame DEF Covers
  <2> QED BY <2>1, <2>2 DEF Covered, Outdated
<1>2. CASE linkLock[s] = w
  <2>1. HeldFor(w, s) /\ links'[s] = draft[s]
    BY <1>2 DEF RowsOK, Commit
  <2>2. CASE op[w] = "create"
    <3>1. links[s] = Null
      BY <2>1, <2>2 DEF HeldFor
    <3>2. ASSUME NEW v \in Writers, Covers(v, s) PROVE Covers(v, s)'
      <4>1. v # w /\ pc[v] = "invalidate"
        BY <1>0, <3>1, <3>2, CoversItsSlug DEF Covers, Matches
      <4> QED BY <1>0, <3>2, <4>1 DEF Covers, WriterSame
    <3> QED BY <3>1, <3>2 DEF Covered, Outdated
  <2>3. CASE op[w] = "update"
    <3>1. /\ s = slug[w] /\ stale[w] = {s}
          /\ draft[s] # Null /\ draft[s].id = loaded[w].id
      BY <1>0, <2>1, <2>3, NullAssumption DEF HeldFor, WritersOK, WriterOK
    <3>2. Goto(w, "refresh") /\ UNCHANGED <<slug, loaded, stale>>
      BY <2>3 DEF Commit, writerVars
    <3>3. Covers(w, s)'
      BY <2>1, <3>1, <3>2 DEF Covers, Matches, Goto, TypeOK, Requests
    <3> QED BY <3>3 DEF Covered
  <2>4. CASE op[w] \in {"delete", "delete_user"}
    <3>1. s \in stale[w]
      BY <2>1, <2>4 DEF HeldFor
    <3>2. Goto(w, "invalidate") /\ UNCHANGED stale
      BY <2>4 DEF Commit, writerVars
    <3>3. Covers(w, s)'
      BY <3>1, <3>2 DEF Covers, Goto, TypeOK, Requests
    <3> QED BY <3>3 DEF Covered
  <2> QED BY <2>1, <2>2, <2>3, <2>4 DEF HeldFor
<1> QED BY <1>1, <1>2

\* No fault strikes Redis, and no reader takes longer from its read to its SET
\* than a tombstone lasts.
Undisturbed == Faults = {} /\ FillDelay < InvalidationTTL

\* A writer that neither commits nor invalidates: covered slugs stay covered.
LEMMA CoveredByOthers ==
  ASSUME SafeInv, Undisturbed, NEW w \in Writers, WriterAction(w),
         ~ Commit(w), ~ Invalidate(w), NEW s \in Slugs, Covered(s)
  PROVE  Covered(s)'
<1> USE DEF SafeInv
<1>1. PICK v \in Writers : Covers(v, s)
  BY DEF Covered
<1>2. UNCHANGED links
  BY WriterRows DEF WritesRows, LocksUser, KeepsRows, RowsSame, EndsTransaction
<1>3. CASE v # w
  BY <1>1, <1>2, <1>3, WriterFrame, CoversFrame DEF Covered
<1>4. CASE v = w
  <2>0. /\ pc[w] = "invalidate" \/ (pc[w] = "refresh" /\ Matches(w))
        /\ pc[w] = "refresh" => op[w] = "update"
    BY <1>1, <1>4 DEF Covers, WritersOK, WriterOK
  <2>1. Refresh(w) /\ Matches(w)
    <3>1. ~ WriterBegins(w)
      BY <2>0 DEF WriterBegins, BeginsWith, Begin
    <3>2. ~ AbandonWrite(w)
      BY <2>0 DEF AbandonWrite, Undisturbed
    <3>3. WriterStep(w) => Refresh(w)
      BY <2>0
      DEF WriterStep, LoadOwnLink, FlushUpdate, FlushDelete, LockUser, CountLinks,
          InsertLink, ListSlugs, FlushDeleteUser
    <3>4. Refresh(w)
      BY <3>1, <3>2, <3>3 DEF WriterAction
    <3> QED BY <2>0, <3>4 DEF Refresh
  <2>2. Goto(w, "invalidate") /\ UNCHANGED stale
    BY <2>0, <2>1 DEF Refresh, writerVars
  <2>3. Covers(w, s)'
    BY <1>1, <1>4, <2>2 DEF Covers, Goto, TypeOK, Requests
  <2> QED BY <2>3 DEF Covered
<1> QED BY <1>3, <1>4

\* A step of a writer keeps CacheInv: its commit makes it cover what it outdates,
\* and its invalidation leaves a tombstone for the readers behind it.
LEMMA CacheStepWriter ==
  ASSUME SafeInv, CacheInv, Undisturbed, NEW w \in Writers, WriterAction(w)
  PROVE  CacheInv'
<1> USE DEF SafeInv, CacheInv
<1>0. \A r \in Readers : ReaderSame(r)
  BY WriterFrame
<1>1. CASE Commit(w)
  <2>1. UNCHANGED redis
    BY <1>1 DEF Commit
  <2>2. StaleFillsBlocked'
    <3> SUFFICES ASSUME NEW s \in Slugs, cache'[s] \in Entry, Outdated(cache[s], s)'
                 PROVE  Covered(s)'
      BY DEF StaleFillsBlocked, Covered
    <3>1. cache'[s] = cache[s]
      BY <2>1 DEF redis
    <3>2. links'[s] = Null \/ cache[s] # FromLink(links'[s])
      BY <3>1 DEF Outdated
    <3> QED BY <1>1, <3>1, <3>2, CommitCovers DEF StaleFillsBlocked, Covered
  <2>3. FillsOK'
    <3> SUFFICES ASSUME NEW r \in Readers, pc'[r] = "fill", Outdated(entry[r], slug[r])'
                 PROVE  \/ Covered(slug[r])'
                        \/ /\ cache'[slug'[r]] = Tombstone
                           /\ ttl'[slug'[r]] + age'[r] > FillDelay
      BY DEF FillsOK
    <3>1. /\ pc[r] = "fill" /\ slug[r] \in Slugs /\ slug'[r] = slug[r]
          /\ entry'[r] = entry[r] /\ age'[r] = age[r] /\ UNCHANGED <<cache, ttl>>
      BY <1>0, <2>1 DEF ReaderSame, ReadersOK, redis
    <3>2. links'[slug[r]] = Null \/ entry[r] # FromLink(links'[slug[r]])
      BY <3>1 DEF Outdated
    <3>3. Covered(slug[r])' \/ (Outdated(entry[r], slug[r]) /\ ~ Covered(slug[r]))
      <4>1. ASSUME NEW s \in Slugs, s = slug[r]
            PROVE  (\E v \in Writers : Covers(v, s)') \/ (Outdated(entry[r], s) /\ ~ Covered(s))
        BY <1>1, <3>2, <4>1, CommitCovers DEF Covered
      <4> QED BY <3>1, <4>1 DEF Covered
    <3> QED BY <3>1, <3>3 DEF FillsOK
  <2> QED BY <1>0, <2>1, <2>2, <2>3 DEF NothingMalformed, ReaderSame, redis
<1>2. CASE Invalidate(w)
  <2>1. /\ SetCachedLinksInvalidated(stale[w])
        /\ UNCHANGED links
    BY <1>2 DEF Invalidate, Undisturbed, db
  <2>2. ASSUME NEW s \in Slugs \ stale[w], Covered(s) PROVE Covered(s)'
    <3>1. PICK v \in Writers : Covers(v, s) /\ v # w
      BY <2>2 DEF Covered, Covers
    <3> QED BY <2>1, <3>1, CoversFrame, WriterFrame DEF Covered
  <2>3. StaleFillsBlocked'
    BY <2>1, <2>2, NullAssumption
    DEF SetCachedLinksInvalidated, StaleFillsBlocked, Covered, Outdated
  <2>4. FillsOK'
    <3> SUFFICES ASSUME NEW r \in Readers, pc'[r] = "fill", Outdated(entry[r], slug[r])'
                 PROVE  \/ Covered(slug[r])'
                        \/ /\ cache'[slug'[r]] = Tombstone
                           /\ ttl'[slug'[r]] + age'[r] > FillDelay
      BY DEF FillsOK
    <3>1. /\ pc[r] = "fill" /\ slug[r] \in Slugs /\ slug'[r] = slug[r]
          /\ entry'[r] = entry[r] /\ age'[r] = age[r] /\ age[r] \in Nat
      BY <1>0 DEF ReaderSame, ReadersOK, TypeOK
    <3>2. Outdated(entry[r], slug[r])
      BY <2>1, <3>1 DEF Outdated
    <3>3. CASE slug[r] \in stale[w]
      BY <2>1, <3>1, <3>3, TimeAssumption DEF SetCachedLinksInvalidated, Undisturbed
    <3>4. CASE slug[r] \notin stale[w]
      <4>1. cache'[slug[r]] = cache[slug[r]] /\ ttl'[slug[r]] = ttl[slug[r]]
        BY <2>1, <3>1, <3>4 DEF SetCachedLinksInvalidated
      <4>2. ASSUME NEW s \in Slugs, s = slug[r], Covered(s)
            PROVE  \E v \in Writers : Covers(v, s)'
        BY <2>2, <3>4, <4>2 DEF Covered
      <4> QED BY <3>1, <3>2, <4>1, <4>2 DEF FillsOK, Covered
    <3> QED BY <3>3, <3>4
  <2> QED BY <1>0, <2>1, <2>3, <2>4, NullAssumption
          DEF NothingMalformed, ReaderSame, SetCachedLinksInvalidated
<1>3. CASE ~ Commit(w) /\ ~ Invalidate(w)
  <2>1. UNCHANGED <<cache, ttl>>
    BY <1>3
    DEF WriterAction, WriterBegins, BeginsWith, Begin, WriterStep, AbandonWrite, Rollback,
        LoadOwnLink, FlushUpdate, FlushDelete, LockUser, CountLinks, InsertLink, ListSlugs,
        FlushDeleteUser, Refresh, redis
  <2>2. UNCHANGED links
    BY <1>3, WriterRows DEF WritesRows, LocksUser, KeepsRows, RowsSame, EndsTransaction
  <2>3. StaleFillsBlocked'
    BY <1>3, <2>1, <2>2, CoveredByOthers DEF StaleFillsBlocked, Covered, Outdated
  <2>4. FillsOK'
    <3> SUFFICES ASSUME NEW r \in Readers, pc'[r] = "fill", Outdated(entry[r], slug[r])'
                 PROVE  \/ Covered(slug[r])'
                        \/ /\ cache'[slug'[r]] = Tombstone
                           /\ ttl'[slug'[r]] + age'[r] > FillDelay
      BY DEF FillsOK
    <3>1. /\ pc[r] = "fill" /\ slug[r] \in Slugs /\ slug'[r] = slug[r]
          /\ entry'[r] = entry[r] /\ age'[r] = age[r]
      BY <1>0 DEF ReaderSame, ReadersOK
    <3>2. ASSUME NEW s \in Slugs, s = slug[r], Covered(s)
          PROVE  \E v \in Writers : Covers(v, s)'
      BY <1>3, <3>2, CoveredByOthers DEF Covered
    <3> QED BY <2>1, <2>2, <3>1, <3>2 DEF FillsOK, Outdated, Covered
  <2> QED BY <1>0, <2>1, <2>3, <2>4 DEF NothingMalformed, ReaderSame
<1> QED BY <1>1, <1>2, <1>3

\* A writer's step leaves a key of Redis alone or puts a tombstone there.
LEMMA WriterCache ==
  ASSUME SafeInv, NEW w \in Writers, WriterAction(w), NEW s \in Slugs
  PROVE  \/ cache'[s] = cache[s] /\ ttl'[s] = ttl[s]
         \/ cache'[s] = Tombstone /\ ttl'[s] = InvalidationTTL
<1> USE DEF db, redis, readerVars, writerVars
<1>1. CASE UNCHANGED redis
  BY <1>1
<1>2. CASE \E S \in SUBSET Slugs : SetCachedLinksInvalidated(S)
  BY <1>2 DEF SetCachedLinksInvalidated
<1>3. CASE Invalidate(w)
  <2>1. stale[w] \in SUBSET Slugs
    BY DEF SafeInv, TypeOK
  <2> QED BY <1>2, <1>3, <2>1 DEF Invalidate
<1>4. CASE WriterBegins(w)
  BY <1>1, <1>4 DEF WriterBegins, BeginsWith, Begin
<1>5. CASE Rollback(w)
  BY <1>1, <1>5 DEF Rollback
<1>6. CASE LoadOwnLink(w) \/ FlushUpdate(w) \/ FlushDelete(w)
  BY <1>1, <1>5, <1>6 DEF LoadOwnLink, FlushUpdate, FlushDelete
<1>7. CASE LockUser(w) \/ CountLinks(w) \/ InsertLink(w)
  BY <1>1, <1>5, <1>7 DEF LockUser, CountLinks, InsertLink
<1>8. CASE ListSlugs(w) \/ FlushDeleteUser(w) \/ Commit(w) \/ Refresh(w)
  BY <1>1, <1>8 DEF ListSlugs, FlushDeleteUser, Commit, Refresh
<1> QED BY <1>3, <1>4, <1>5, <1>6, <1>7, <1>8 DEF WriterAction, WriterStep, AbandonWrite

\* With rows and writers as they are, coverage and outdatedness are too.
LEMMA CoverageFrame ==
  ASSUME WritersOK, RowsSame, \A w \in Writers : WriterSame(w), NEW s \in Slugs
  PROVE  Covered(s) => Covered(s)'
BY CoversFrame DEF Covered, RowsSame

\* A reader's step puts nothing but its own entry into the cache, and only where
\* nothing is.
LEMMA ReaderCache ==
  ASSUME SafeInv, NothingMalformed, NEW r \in Readers, ReaderAction(r)
  PROVE  /\ \/ UNCHANGED <<cache, ttl>>
            \/ /\ pc[r] = "fill" /\ cache[slug[r]] = Null
               /\ cache' = [cache EXCEPT ![slug[r]] = entry[r]]
               /\ ttl' = [ttl EXCEPT ![slug[r]] = LinkTTL]
         /\ pc'[r] # "discard"
         /\ pc'[r] = "fill" => /\ pc[r] = "load" /\ slug'[r] = slug[r]
                               /\ links[slug[r]] # Null
                               /\ entry'[r] = FromLink(links[slug[r]])
<1> USE DEF SafeInv, TypeOK, Requests, NothingMalformed, Goto, EndReader, redis
<1> DEFINE Result ==
      /\ \/ UNCHANGED <<cache, ttl>>
         \/ /\ pc[r] = "fill" /\ cache[slug[r]] = Null
            /\ cache' = [cache EXCEPT ![slug[r]] = entry[r]]
            /\ ttl' = [ttl EXCEPT ![slug[r]] = LinkTTL]
      /\ pc'[r] # "discard"
      /\ pc'[r] = "fill" => /\ pc[r] = "load" /\ slug'[r] = slug[r]
                            /\ links[slug[r]] # Null
                            /\ entry'[r] = FromLink(links[slug[r]])
<1>1. ASSUME NEW s \in Slugs, NEW p \in Passwords \cup {Null}, StartForward(r, s, p)
      PROVE  Result
  BY <1>1 DEF StartForward
<1>2. CASE CacheGet(r)
  <2>1. slug[r] \in Slugs
    BY <1>2 DEF CacheGet, ReadersOK
  <2> QED BY <1>2, <2>1 DEF CacheGet
<1>3. CASE CacheDiscard(r)
  BY <1>3 DEF CacheDiscard
<1>4. CASE LoadLink(r)
  BY <1>4 DEF LoadLink
<1>5. CASE FillCache(r)
  BY <1>5 DEF FillCache, AddCachedLink
<1>6. CASE Decide(r)
  BY <1>6 DEF Decide
<1>7. CASE RecordClick(r)
  BY <1>7 DEF RecordClick
<1>8. CASE AbandonRead(r)
  BY <1>8 DEF AbandonRead
<1> QED BY <1>1, <1>2, <1>3, <1>4, <1>5, <1>6, <1>7, <1>8 DEF ReaderAction, ReaderStep

\* A step of a reader keeps CacheInv: it fills only an absent key, so no tombstone
\* is there and its entry is current or covered.
LEMMA CacheStepReader ==
  ASSUME SafeInv, CacheInv, NEW r \in Readers, ReaderAction(r)
  PROVE  CacheInv'
<1> USE DEF SafeInv, CacheInv
<1>1. /\ \A s \in Slugs : Covered(s) => Covered(s)'
      /\ UNCHANGED links
      /\ \A q \in Readers \ {r} : ReaderSame(q)
  BY ReaderFrame, CoverageFrame DEF RowsSame
<1>2. NothingMalformed'
  <2>1. pc[r] = "fill" => entry[r] # Malformed
    BY NullAssumption DEF ReadersOK
  <2> QED BY <1>1, <2>1, ReaderCache DEF NothingMalformed, ReaderSame, TypeOK
<1>3. StaleFillsBlocked'
  <2> SUFFICES ASSUME NEW s \in Slugs, cache'[s] \in Entry, Outdated(cache[s], s)'
               PROVE  Covered(s)
    BY <1>1 DEF StaleFillsBlocked, Covered
  <2>1. CASE cache'[s] = cache[s]
    BY <1>1, <2>1 DEF StaleFillsBlocked, Outdated, Covered
  <2>2. CASE cache'[s] # cache[s]
    <3>1. /\ pc[r] = "fill" /\ s = slug[r] /\ cache[s] = Null /\ cache'[s] = entry[r]
      BY <2>2, ReaderCache DEF TypeOK
    <3>2. Outdated(entry[r], slug[r])
      BY <1>1, <3>1 DEF Outdated
    <3> QED BY <3>1, <3>2, NullAssumption DEF FillsOK
  <2> QED BY <2>1, <2>2
<1>4. FillsOK'
  <2> SUFFICES ASSUME NEW q \in Readers, pc'[q] = "fill", Outdated(entry[q], slug[q])'
               PROVE  \/ Covered(slug[q])'
                      \/ /\ cache'[slug'[q]] = Tombstone
                         /\ ttl'[slug'[q]] + age'[q] > FillDelay
    BY DEF FillsOK
  <2>1. q # r
    BY <1>1, ReaderCache DEF Outdated
  <2>2. /\ pc[q] = "fill" /\ slug[q] \in Slugs /\ slug'[q] = slug[q]
        /\ entry'[q] = entry[q] /\ age'[q] = age[q]
    BY <1>1, <2>1 DEF ReaderSame, ReadersOK
  <2>3. Outdated(entry[q], slug[q])
    BY <1>1, <2>2 DEF Outdated
  <2>4. ASSUME NEW s \in Slugs, s = slug[q], Covered(s)
        PROVE  \E v \in Writers : Covers(v, s)'
    BY <1>1, <2>4 DEF Covered
  <2>5. CASE Covered(slug[q])
    BY <2>2, <2>4, <2>5 DEF Covered
  <2>6. CASE cache[slug[q]] = Tombstone /\ ttl[slug[q]] + age[q] > FillDelay
    <3>1. cache'[slug[q]] = cache[slug[q]] /\ ttl'[slug[q]] = ttl[slug[q]]
      BY <2>2, <2>6, ReaderCache, NullAssumption DEF TypeOK
    <3> QED BY <2>2, <2>6, <3>1
  <2> QED BY <2>2, <2>3, <2>5, <2>6 DEF FillsOK
<1> QED BY <1>2, <1>3, <1>4

\* With time and Redis an entry can go, a tombstone only when its time is over.
LEMMA TombstonesLast ==
  ASSUME SafeInv, NothingMalformed, Undisturbed, Environment \/ Tick \/ UNCHANGED vars
  PROVE  /\ \A s \in Slugs : cache'[s] \in {cache[s], Null}
         /\ \A r \in Readers : LET s == slug[r] IN
              pc[r] = "fill" /\ cache[s] = Tombstone /\ ttl[s] + age[r] > FillDelay
                => cache'[s] = Tombstone /\ ttl'[s] + age'[r] > FillDelay
<1> USE DEF SafeInv, TypeOK, ReadersOK
<1>1. ASSUME NEW d \in Deadlines, DeadlinePasses(d) PROVE UNCHANGED <<cache, ttl, age>>
  BY <1>1 DEF DeadlinePasses, redis, readerVars
<1>2. ASSUME NEW s \in Slugs, Evict(s)
      PROVE  /\ cache[s] # Tombstone
             /\ cache' = [cache EXCEPT ![s] = Null]
             /\ ttl' = [ttl EXCEPT ![s] = 0]
             /\ UNCHANGED age
  BY <1>2, NullAssumption DEF Evict, Undisturbed, readerVars
<1>3. ASSUME NEW s \in Slugs PROVE ~ ForeignFill(s)
  BY DEF ForeignFill, Undisturbed
<1>4. CASE Tick
  BY <1>4, TimeAssumption DEF Tick
<1>5. CASE UNCHANGED vars
  BY <1>5 DEF vars, redis, readerVars
<1>6. CASE \E s \in Slugs : Evict(s)
  BY <1>2, <1>6
<1>7. CASE UNCHANGED <<cache, ttl, age>>
  BY <1>7
<1> QED BY <1>1, <1>3, <1>4, <1>5, <1>6, <1>7 DEF Environment

\* Time and Redis keep CacheInv: no tombstone goes before the readers it waits
\* for.
LEMMA CacheStepEnvironment ==
  ASSUME SafeInv, CacheInv, Undisturbed, Environment \/ Tick \/ UNCHANGED vars
  PROVE  CacheInv'
<1> USE DEF SafeInv, CacheInv
<1>1. /\ \A s \in Slugs : Covered(s) => Covered(s)'
      /\ UNCHANGED <<links, pc, slug, entry>>
  BY EnvironmentFrame, CoverageFrame DEF RowsSame
<1>2. /\ \A s \in Slugs : cache'[s] \in {cache[s], Null}
      /\ \A r \in Readers : LET s == slug[r] IN
           pc[r] = "fill" /\ cache[s] = Tombstone /\ ttl[s] + age[r] > FillDelay
             => cache'[s] = Tombstone /\ ttl'[s] + age'[r] > FillDelay
  BY TombstonesLast
<1>3. NothingMalformed'
  BY <1>1, <1>2, NullAssumption DEF NothingMalformed
<1>4. StaleFillsBlocked'
  BY <1>1, <1>2, NullAssumption DEF StaleFillsBlocked, Covered, Outdated
<1>5. FillsOK'
  <2> SUFFICES ASSUME NEW r \in Readers, pc'[r] = "fill", Outdated(entry[r], slug[r])'
               PROVE  \/ Covered(slug[r])'
                      \/ /\ cache'[slug'[r]] = Tombstone
                         /\ ttl'[slug'[r]] + age'[r] > FillDelay
    BY DEF FillsOK
  <2>1. pc[r] = "fill" /\ slug[r] \in Slugs /\ Outdated(entry[r], slug[r])
    BY <1>1 DEF Outdated, ReadersOK
  <2>2. ASSUME NEW s \in Slugs, s = slug[r], Covered(s)
        PROVE  \E v \in Writers : Covers(v, s)'
    BY <1>1, <2>2 DEF Covered
  <2> QED BY <1>1, <1>2, <2>1, <2>2 DEF FillsOK, Covered
<1> QED BY <1>3, <1>4, <1>5

\* CacheInv holds initially,
LEMMA CacheInit == Init => CacheInv
BY NullAssumption
DEF Init, CacheInv, NothingMalformed, StaleFillsBlocked, FillsOK, Requests

\* and every step keeps it.
LEMMA CacheStep ==
  ASSUME SafeInv, CacheInv, Undisturbed, [Next]_vars
  PROVE  CacheInv'
BY StepCases, CacheStepWriter, CacheStepReader, CacheStepEnvironment

\* When no fault strikes Redis and every reader fills within the time a
\* tombstone lasts, a cached link differs from its row only until the mutation
\* that changed the row has sent its invalidation.
THEOREM CacheIsCoherent ==
  ASSUME Undisturbed
  PROVE  Spec => []StaleFillsBlocked
<1>1. Init => CacheInv
  BY CacheInit
<1>2. SafeInv /\ CacheInv /\ [Next]_vars => CacheInv'
  BY CacheStep
<1>3. CacheInv => StaleFillsBlocked
  BY DEF CacheInv
<1> QED BY <1>1, <1>2, <1>3, SafeAlways, PTL DEF Spec
-------------------------------------------------------------------------------
(* LinkForwarding implements LinkRegister: what is committed changes one      *)
(* whole operation at a time, under every fault.                               *)

(* What the refinement needs besides SafeInv and LimitInv. *)

\* No two slugs have rows, committed or about to be, with the same id.
UniqueIds ==
  \A s, t \in Slugs : \A x \in {links[s], draft[s]}, y \in {links[t], draft[t]} :
    x # Null /\ y # Null /\ x.id = y.id => s = t

\* The foreign key of clicks.
ClicksOK == clicks \subseteq RowIds

\* The account of a locked user row is there.
ActorsOK == \A w \in Writers : HasUserRow(w) => actor[w] \in users

\* An account's deletion that is about to commit holds all the account owns.
HoldsAll(w) ==
  pc[w] = "commit" /\ op[w] = "delete_user"
    => \A s \in OwnedBy(actor[w]) : linkLock[s] = w

HoldsOK == \A w \in Writers : HoldsAll(w)

RegisterInv == UniqueIds /\ ClicksOK /\ ActorsOK /\ HoldsOK
-------------------------------------------------------------------------------
(* Steps that leave the register alone. *)

\* No id of a row, committed or not, is fresh.
LEMMA FreshIsNew ==
  ASSUME TypeOK, NEW i \in FreshIds, NEW s \in Slugs
  PROVE  /\ links[s] # Null => links[s].id # i
         /\ draft[s] # Null => draft[s].id # i
<1>1. \A x \in Link : x \in {links[t] : t \in Slugs} \cup {draft[t] : t \in Slugs} => x.id # i
  BY DEF FreshIds, IdsIn
<1> QED BY <1>1 DEF TypeOK

\* Only a commit and a forward's click change accounts, links or clicks.
LEMMA RegisterFrame ==
  ASSUME SafeInv, [Next]_vars
  PROVE  \/ \E w \in Writers : Commit(w)
         \/ \E r \in Readers : RecordClick(r)
         \/ UNCHANGED <<users, links, clicks>>
<1> USE DEF SafeInv, db, redis, readerVars, writerVars
<1>1. ASSUME NEW w \in Writers, WriterAction(w), ~ Commit(w)
      PROVE  UNCHANGED <<users, links, clicks>>
  <2>r. CASE Rollback(w)
    BY <2>r DEF Rollback
  <2>1. CASE WriterBegins(w)
    BY <2>1 DEF WriterBegins, BeginsWith, Begin
  <2>2. CASE LoadOwnLink(w) \/ CountLinks(w) \/ ListSlugs(w) \/ Refresh(w) \/ Invalidate(w)
    BY <2>r, <2>2 DEF LoadOwnLink, CountLinks, ListSlugs, Refresh, Invalidate
  <2>3. CASE FlushUpdate(w) \/ FlushDelete(w) \/ LockUser(w)
    BY <2>r, <2>3 DEF FlushUpdate, FlushDelete, LockUser
  <2>4. CASE InsertLink(w) \/ FlushDeleteUser(w)
    BY <2>r, <2>4 DEF InsertLink, FlushDeleteUser
  <2> QED BY <1>1, <2>r, <2>1, <2>2, <2>3, <2>4 DEF WriterAction, WriterStep, AbandonWrite
<1>2. ASSUME NEW r \in Readers, ReaderAction(r), ~ RecordClick(r)
      PROVE  UNCHANGED <<users, links, clicks>>
  BY <1>2
  DEF ReaderAction, ReaderStep, StartForward, CacheGet, CacheDiscard, LoadLink, FillCache,
      Decide, AbandonRead
<1>3. CASE Environment \/ Tick \/ UNCHANGED vars
  BY <1>3 DEF Environment, DeadlinePasses, Evict, ForeignFill, Tick, vars
<1> QED BY <1>1, <1>2, <1>3, StepCases

\* A step that is no writer's touches no row and no lock.
LEMMA RowsFrame ==
  ASSUME SafeInv, [Next]_vars, ~ \E w \in Writers : WriterAction(w)
  PROVE  RowsSame /\ \A w \in Writers : WriterSame(w)
BY StepCases, ReaderFrame, EnvironmentFrame DEF SafeInv
-------------------------------------------------------------------------------
(* RegisterInv is inductive. *)

\* An insertion takes an id no row has, and an update keeps the row's.
LEMMA UniqueIdsStep ==
  ASSUME SafeInv, UniqueIds, [Next]_vars
  PROVE  UniqueIds'
<1> USE DEF SafeInv
<1>1. ASSUME \A s \in Slugs : /\ links'[s] \in {links[s], draft[s], Null}
                              /\ draft'[s] \in {links[s], draft[s], Null}
      PROVE  UniqueIds'
  BY <1>1 DEF UniqueIds
<1>2. ASSUME NEW w \in Writers, WriterAction(w) PROVE UniqueIds'
  <2>1. CASE WritesRows(w)
    <3>1. PICK S \in SUBSET Slugs, v \in Link \cup {Null} :
            /\ Write(w, S, v) /\ UNCHANGED links
            /\ \A s \in S : HeldFor(w, s)'
            /\ \/ v = Null \/ v.id \in FreshIds
               \/ \A s \in S : links[s] # Null /\ links[s].id = v.id
      BY <2>1 DEF WritesRows
    <3>2. \A s \in Slugs : draft'[s] = IF s \in S THEN v ELSE draft[s]
      BY <3>1 DEF Write
    <3>3. CASE v = Null
      BY <1>1, <3>1, <3>2, <3>3
    <3>4. CASE v # Null
      <4>1. \A s \in S : s = slug'[w]
        BY <3>1, <3>2, <3>4 DEF HeldFor
      <4>2. CASE v.id \in FreshIds
        <5>1. \A s \in Slugs : /\ links[s] # Null => links[s].id # v.id
                               /\ draft[s] # Null => draft[s].id # v.id
          BY <4>2, FreshIsNew
        <5> QED BY <3>1, <3>2, <4>1, <5>1 DEF UniqueIds
      <4>3. CASE \A s \in S : links[s] # Null /\ links[s].id = v.id
        BY <3>1, <3>2, <4>1, <4>3 DEF UniqueIds
      <4> QED BY <3>1, <3>4, <4>2, <4>3
    <3> QED BY <3>3, <3>4
  <2>2. CASE LocksUser(w) \/ KeepsRows(w)
    BY <1>1, <2>2 DEF LocksUser, KeepsRows, RowsSame
  <2>3. CASE EndsTransaction(w)
    <3>1. \A s \in Slugs : draft'[s] \in {draft[s], Null}
      BY <2>3 DEF EndsTransaction, Release
    <3>2. \A s \in Slugs : links'[s] \in {links[s], draft[s]}
      BY <2>3 DEF EndsTransaction, Commit
    <3> QED BY <1>1, <3>1, <3>2
  <2> QED BY <1>2, <2>1, <2>2, <2>3, WriterRows
<1> QED BY <1>1, <1>2, RowsFrame DEF RowsSame

\* A click refers to a row, and goes with it.
LEMMA ClicksStep ==
  ASSUME SafeInv, ClicksOK, [Next]_vars
  PROVE  ClicksOK'
<1>1. ASSUME NEW w \in Writers, Commit(w) PROVE ClicksOK'
  BY <1>1 DEF Commit, ClicksOK
<1>2. ASSUME NEW r \in Readers, RecordClick(r) PROVE ClicksOK'
  BY <1>2 DEF RecordClick, ClicksOK, RowIds
<1>3. CASE UNCHANGED <<users, links, clicks>>
  BY <1>3 DEF ClicksOK, RowIds
<1> QED BY <1>1, <1>2, <1>3, RegisterFrame

\* A user row that is locked is there.
LEMMA LockedUserIsThere ==
  ASSUME SafeInv, NEW w \in Writers, WriterAction(w), LocksUser(w)
  PROVE  actor'[w] \in users'
<1> USE DEF SafeInv, TypeOK, Requests, Goto, db, redis, readerVars, writerVars
<1>1. ~ EndWriter(w)
  BY EndWriterOK DEF LocksUser
<1>2. LockUser(w)
  <2>1. ~ WriterBegins(w)
    BY DEF WriterBegins, BeginsWith, Begin, LocksUser
  <2> QED BY <1>1, <2>1
          DEF WriterAction, WriterStep, LocksUser, LoadOwnLink, FlushUpdate, FlushDelete,
              CountLinks, InsertLink, ListSlugs, FlushDeleteUser, Commit, Refresh, Invalidate,
              AbandonWrite, Rollback
<1> QED BY <1>1, <1>2 DEF LockUser, Rollback

\* An account goes only in a transaction that holds its row.
LEMMA ActorsStep ==
  ASSUME SafeInv, ActorsOK, [Next]_vars
  PROVE  ActorsOK'
<1> USE DEF SafeInv
<1>1. ASSUME NEW w \in Writers, WriterAction(w) PROVE ActorsOK'
  <2> SUFFICES ASSUME NEW v \in Writers, HasUserRow(v)'
               PROVE  actor'[v] \in users'
    BY DEF ActorsOK
  <2>1. CASE v = w
    <3>1. CASE LocksUser(w)
      BY <1>1, <2>1, <3>1, LockedUserIsThere
    <3>2. CASE ~ LocksUser(w)
      <4>1. HasUserRow(w) /\ actor'[w] = actor[w] /\ UNCHANGED users
        BY <1>1, <2>1, <3>2, WriterRows
        DEF WritesRows, KeepsRows, RowsSame, EndsTransaction, HasUserRow
      <4> QED BY <2>1, <4>1 DEF ActorsOK
    <3> QED BY <3>1, <3>2
  <2>2. CASE v # w
    <3>1. WriterSame(v)
      BY <1>1, <2>2, WriterFrame
    <3>2. /\ HasUserRow(v) /\ userLock[actor[v]] = v
          /\ actor[v] \in users /\ actor'[v] = actor[v]
      BY <3>1 DEF HasUserRow, WriterSame, UserRowsOK, ActorsOK
    <3>3. CASE Commit(w)
      <4>1. op[w] = "delete_user" => userLock[actor[w]] = w
        BY <3>3 DEF Commit, HasUserRow, UserRowsOK
      <4> QED BY <2>2, <3>2, <3>3, <4>1 DEF Commit
    <3>4. CASE UNCHANGED users
      BY <3>2, <3>4
    <3> QED BY <1>1, <3>3, <3>4, WriterRows
            DEF WritesRows, LocksUser, KeepsRows, RowsSame, EndsTransaction
  <2> QED BY <2>1, <2>2
<1>2. ASSUME RowsSame, \A w \in Writers : WriterSame(w) PROVE ActorsOK'
  BY <1>2 DEF RowsSame, WriterSame, ActorsOK, HasUserRow
<1> QED BY <1>1, <1>2, RowsFrame

\* A deletion of an account comes to its commit from its flush.
LEMMA CommitsNext ==
  ASSUME SafeInv, NEW w \in Writers, WriterAction(w),
         pc'[w] = "commit", op'[w] = "delete_user"
  PROVE  FlushDeleteUser(w)
<1> USE DEF SafeInv, TypeOK, Requests, Goto, db, redis, readerVars, writerVars
<1>1. ~ EndWriter(w)
  BY EndWriterOK
<1>2. ~ WriterBegins(w)
  BY DEF WriterBegins, BeginsWith, Begin
<1>3. ~ (LoadOwnLink(w) \/ LockUser(w) \/ CountLinks(w) \/ ListSlugs(w))
  BY <1>1 DEF LoadOwnLink, LockUser, CountLinks, ListSlugs, Rollback
<1>4. ~ (FlushUpdate(w) \/ FlushDelete(w) \/ InsertLink(w))
  BY <1>1 DEF FlushUpdate, FlushDelete, InsertLink, Rollback
<1>5. ~ (Commit(w) \/ Refresh(w) \/ Invalidate(w) \/ AbandonWrite(w))
  BY <1>1 DEF Commit, Refresh, Invalidate, AbandonWrite, Rollback
<1> QED BY <1>2, <1>3, <1>4, <1>5 DEF WriterAction, WriterStep

\* Nobody takes a row that is held, and nobody adds to an account whose row is.
LEMMA HoldsStep ==
  ASSUME SafeInv, HoldsOK, [Next]_vars
  PROVE  HoldsOK'
<1> USE DEF SafeInv
<1>1. ASSUME NEW w \in Writers, WriterAction(w) PROVE HoldsOK'
  <2> SUFFICES ASSUME NEW v \in Writers, pc'[v] = "commit", op'[v] = "delete_user",
                      NEW s \in Slugs, links'[s] # Null, links'[s].user = actor'[v]
               PROVE  linkLock'[s] = v
    BY DEF HoldsOK, HoldsAll, OwnedBy
  <2>1. CASE v = w
    <3>1. FlushDeleteUser(w)
      BY <1>1, <2>1, CommitsNext
    <3> QED BY <2>1, <3>1
            DEF FlushDeleteUser, Write, OwnedBy, writerVars
  <2>2. CASE v # w
    <3>1. WriterSame(v)
      BY <1>1, <2>2, WriterFrame
    <3>2. /\ HasUserRow(v) /\ userLock[actor[v]] = v /\ actor[v] \in Users
          /\ actor'[v] = actor[v]
          /\ \A t \in OwnedBy(actor[v]) : linkLock[t] = v
      BY <3>1 DEF HasUserRow, WriterSame, UserRowsOK, HoldsOK, HoldsAll, WritersOK, WriterOK
    <3>3. s \in OwnedBy(actor[v])
      <4>1. CASE Commit(w)
        <5>1. op[w] = "create" => actor[w] # actor[v]
          BY <2>2, <3>2, <4>1 DEF Commit, HasUserRow, UserRowsOK
        <5> QED BY <3>2, <4>1, <5>1, OwnedShrinks
      <4>2. CASE UNCHANGED links
        BY <3>2, <4>2 DEF OwnedBy
      <4> QED BY <1>1, <4>1, <4>2, WriterRows
              DEF WritesRows, LocksUser, KeepsRows, RowsSame, EndsTransaction
    <3>4. linkLock[s] = v
      BY <3>2, <3>3
    <3>5. CASE WritesRows(w)
      BY <3>4, <3>5, NullAssumption DEF WritesRows, Write
    <3>6. CASE LocksUser(w) \/ KeepsRows(w)
      BY <3>4, <3>6 DEF LocksUser, KeepsRows, RowsSame
    <3>7. CASE EndsTransaction(w)
      BY <2>2, <3>4, <3>7 DEF EndsTransaction, Release
    <3> QED BY <1>1, <3>5, <3>6, <3>7, WriterRows
  <2> QED BY <2>1, <2>2
<1>2. ASSUME RowsSame, \A w \in Writers : WriterSame(w) PROVE HoldsOK'
  BY <1>2 DEF RowsSame, WriterSame, HoldsOK, HoldsAll, OwnedBy
<1> QED BY <1>1, <1>2, RowsFrame

\* RegisterInv holds initially,
LEMMA RegisterInit == Init => RegisterInv
BY DEF Init, RegisterInv, UniqueIds, ClicksOK, ActorsOK, HasUserRow, HoldsOK, HoldsAll,
       Requests

\* and is kept by every step.
LEMMA RegisterStep ==
  ASSUME SafeInv, RegisterInv, [Next]_vars
  PROVE  RegisterInv'
BY UniqueIdsStep, ClicksStep, ActorsStep, HoldsStep DEF RegisterInv
-------------------------------------------------------------------------------
(* Every step maps to a step of the register, or to none. *)

\* Ids tell rows apart: the clicks of the rows that stay are those that are not
\* of the rows S that go.
LEMMA RemovedClicks ==
  ASSUME RegisterInv, NEW S \in SUBSET Slugs, \A s \in S : links[s] # Null,
         links' = [s \in Slugs |-> IF s \in S THEN Null ELSE links[s]],
         clicks' = clicks \cap RowIds'
  PROVE  clicks' = clicks \ Register!IdsOf(S)
<1>1. RowIds' = {links[s].id : s \in {t \in Slugs \ S : links[t] # Null}}
  BY DEF RowIds
<1>2. \A s \in S, t \in Slugs \ S : links[t] # Null => links[t].id # links[s].id
  BY DEF RegisterInv, UniqueIds
<1>3. clicks \subseteq {links[s].id : s \in {t \in Slugs : links[t] # Null}}
  BY DEF RegisterInv, ClicksOK, RowIds
<1> QED BY <1>1, <1>2, <1>3 DEF Register!IdsOf

\* The commit of a creation, an update or a deletion, of the row it holds.
LEMMA CommitOfRow ==
  ASSUME SafeInv, LimitInv, RegisterInv, NEW w \in Writers, Commit(w),
         NEW s \in Slugs, linkLock[s] = w, op[w] # "delete_user"
  PROVE  Register!Next
<1> USE DEF SafeInv, RegisterInv
<1>1. /\ HeldFor(w, s) /\ WriterOK(w) /\ pc[w] = "commit"
      /\ op[w] \in Ops /\ s = slug[w]
  BY DEF RowsOK, Commit, WritersOK, WriterOK, HeldFor
<1>2. \A t \in Slugs : linkLock[t] = w => t = s
  BY <1>1 DEF RowsOK, HeldFor, WriterOK
<1>3. links' = [links EXCEPT ![s] = draft[s]]
  BY <1>2 DEF Commit, TypeOK
<1>4. UNCHANGED users /\ clicks' = clicks \cap RowIds'
  BY DEF Commit
<1>5. CASE op[w] = "create"
  <2>1. /\ links[s] = Null /\ draft[s] \in Link
        /\ draft[s] = Register!Created(actor[w], patch[w], draft[s].id)
        /\ patch[w] \in Creations /\ actor[w] \in users
    BY <1>1, <1>5
    DEF HeldFor, WriterOK, FromLinkCreate, Register!Created, ActorsOK, HasUserRow
  <2>2. Cardinality(Register!LinksOf(actor[w])) < LinkLimit
    BY <1>1, <1>5 DEF LimitInv, HasRoom, BelowLimit, OwnedBy, Register!LinksOf,
                      Register!Existing
  <2>3. draft[s].id \notin RowIds
    BY <2>1, NullAssumption DEF UniqueIds, RowIds
  <2>4. RowIds \subseteq RowIds'
    BY <1>3, <2>1 DEF RowIds, TypeOK
  <2>5. UNCHANGED clicks
    BY <1>4, <2>4 DEF ClicksOK
  <2>6. draft[s].id \in Ids \ (Register!IdsOf(Register!Existing) \cup clicks)
    BY <2>1, <2>3 DEF Link, RowIds, ClicksOK, Register!IdsOf, Register!Existing
  <2>7. Register!Create(actor[w], s, patch[w])
    <3>1. Register!Cardinality(Register!LinksOf(actor[w]))
            = Cardinality(Register!LinksOf(actor[w]))
      BY DEF Register!Cardinality, Cardinality
    <3> QED BY <1>3, <1>4, <2>1, <2>2, <2>5, <2>6, <3>1 DEF Register!Create
  <2> QED BY <2>1, <2>7 DEF TypeOK, Register!Next
<1>6. CASE op[w] = "update"
  <2>1. /\ links[s] # Null /\ draft[s] # Null /\ draft[s].id = links[s].id
        /\ draft[s] \in Register!Updates(links[s], patch[w])
        /\ patch[w] \in Patches
    BY <1>1, <1>6, NullAssumption DEF HeldFor, WriterOK
  <2>2. RowIds \subseteq RowIds'
    BY <1>3, <2>1 DEF RowIds, TypeOK
  <2>3. UNCHANGED clicks
    BY <1>4, <2>2 DEF ClicksOK
  <2>4. Register!Update(s, patch[w])
    BY <1>3, <1>4, <2>1, <2>3 DEF Register!Update
  <2> QED BY <2>1, <2>4 DEF Register!Next
<1>7. CASE op[w] = "delete"
  <2>1. links[s] # Null /\ draft[s] = Null
    BY <1>1, <1>7 DEF HeldFor
  <2>2. links' = [t \in Slugs |-> IF t \in {s} THEN Null ELSE links[t]]
    BY <1>3, <2>1 DEF TypeOK
  <2>3. clicks' = clicks \ Register!IdsOf({s})
    <3>1. {s} \in SUBSET Slugs /\ \A t \in {s} : links[t] # Null
      BY <2>1
    <3> QED BY <1>4, <2>2, <3>1, RemovedClicks
  <2>4. Register!Delete(s)
    BY <1>4, <2>1, <2>2, <2>3 DEF Register!Delete, Register!Remove
  <2> QED BY <2>4 DEF Register!Next
<1> QED BY <1>1, <1>5, <1>6, <1>7 DEF Ops

\* The commit of an account's deletion takes exactly what the account owns.
LEMMA CommitOfAccount ==
  ASSUME SafeInv, RegisterInv, NEW w \in Writers, Commit(w), op[w] = "delete_user"
  PROVE  Register!Next
<1> USE DEF SafeInv, RegisterInv
<1>1. pc[w] = "commit" /\ actor[w] \in Users /\ actor[w] \in users
  BY DEF Commit, WritersOK, WriterOK, ActorsOK, HasUserRow
<1>2. \A s \in Slugs : linkLock[s] = w <=> s \in OwnedBy(actor[w])
  BY <1>1 DEF HoldsOK, HoldsAll, RowsOK, HeldFor, OwnedBy
<1>3. \A s \in Slugs : linkLock[s] = w => draft[s] = Null
  BY DEF RowsOK, HeldFor
<1>4. OwnedBy(actor[w]) = Register!LinksOf(actor[w])
  BY DEF OwnedBy, Register!LinksOf, Register!Existing
<1>5. links' = [s \in Slugs |-> IF s \in OwnedBy(actor[w]) THEN Null ELSE links[s]]
  BY <1>2, <1>3 DEF Commit
<1>6. clicks' = clicks \ Register!IdsOf(OwnedBy(actor[w]))
  <2>1. /\ OwnedBy(actor[w]) \subseteq Slugs
        /\ \A s \in OwnedBy(actor[w]) : links[s] # Null
        /\ clicks' = clicks \cap RowIds'
    BY DEF OwnedBy, Commit
  <2> QED BY <1>5, <2>1, RemovedClicks
<1>7. users' = users \ {actor[w]}
  BY DEF Commit
<1>8. Register!DeleteUser(actor[w])
  BY <1>1, <1>4, <1>5, <1>6, <1>7 DEF Register!DeleteUser, Register!Remove
<1> QED BY <1>1, <1>8 DEF Register!Next

\* Every step is a step of the register or leaves it alone.
LEMMA RegisterImplemented ==
  ASSUME SafeInv, LimitInv, RegisterInv, [Next]_vars
  PROVE  [Register!Next]_<<users, links, clicks>>
<1>1. ASSUME NEW w \in Writers, Commit(w)
      PROVE  [Register!Next]_<<users, links, clicks>>
  <2>1. CASE op[w] = "delete_user"
    BY <1>1, <2>1, CommitOfAccount
  <2>2. CASE op[w] # "delete_user" /\ \E s \in Slugs : linkLock[s] = w
    BY <1>1, <2>2, CommitOfRow
  <2>3. CASE op[w] # "delete_user" /\ \A s \in Slugs : linkLock[s] # w
    <3>1. UNCHANGED <<users, links>>
      BY <1>1, <2>3 DEF Commit, SafeInv, TypeOK
    <3>2. UNCHANGED clicks
      BY <1>1, <3>1 DEF Commit, RegisterInv, ClicksOK, RowIds
    <3> QED BY <3>1, <3>2
  <2> QED BY <2>1, <2>2, <2>3
<1>2. ASSUME NEW r \in Readers, RecordClick(r)
      PROVE  [Register!Next]_<<users, links, clicks>>
  <2>1. UNCHANGED <<users, links>> /\ clicks' = clicks \cup ({entry[r].id} \cap RowIds)
    BY <1>2 DEF RecordClick
  <2>2. CASE entry[r].id \notin RowIds
    BY <2>1, <2>2
  <2>3. CASE entry[r].id \in RowIds
    <3>1. PICK s \in Slugs : links[s] # Null /\ links[s].id = entry[r].id
      BY <2>3 DEF RowIds
    <3>2. Register!Click(s)
      BY <2>1, <2>3, <3>1 DEF Register!Click
    <3> QED BY <3>2 DEF Register!Next
  <2> QED BY <2>2, <2>3
<1> QED BY <1>1, <1>2, RegisterFrame

\* However requests interleave, crash and fail, accounts, links and clicks change
\* one whole operation at a time: no lost row, no row of somebody else's, no link
\* without its account, no click of a link that is gone.
THEOREM ImplementsTheRegister == Spec => ImplementsRegister
<1>1. Init => LimitInv
  BY LimitInit
<1>2. Init => Register!Init
  BY DEF Init, Register!Init
<1>3. SafeInv /\ LimitInv /\ [Next]_vars => LimitInv'
  BY LimitStep
<1>4. SafeInv /\ RegisterInv /\ [Next]_vars => RegisterInv'
  BY RegisterStep
<1>5. SafeInv /\ LimitInv /\ RegisterInv /\ [Next]_vars
        => [Register!Next]_<<users, links, clicks>>
  BY RegisterImplemented
<1> QED BY <1>1, <1>2, <1>3, <1>4, <1>5, RegisterInit, SafeAlways, PTL
        DEF Spec, ImplementsRegister, Register!Spec, Register!register
-------------------------------------------------------------------------------
(* Overlapping updates. *)

\* An update about to commit holds its row with the changes made to the row as it
\* is committed, or has nothing to change and holds none.
Flushed(w) ==
  pc[w] = "commit" /\ op[w] = "update" =>
    LET change == Changes(patch[w], loaded[w])
    IN  /\ change = NoChange => linkLock[slug[w]] # w
        /\ change # NoChange =>
             /\ linkLock[slug[w]] = w
             /\ draft[slug[w]] = UpdateFromLinkUpdate(links[slug[w]], change)

FlushedOK == \A w \in Writers : Flushed(w)

\* A field of the patch, the link a request loaded and the one it updates: the
\* field gets the patch's value, unless the patch leaves it out or restates it.
LEMMA FieldsKept ==
  ASSUME NEW p \in LinkUpdate, NEW old \in Link, NEW l \in Link, NEW new,
         \/ Changes(p, old) = NoChange /\ new = l
         \/ new = UpdateFromLinkUpdate(l, Changes(p, old))
  PROVE  \A f \in {"target", "status", "expires_at", "password"} :
           \/ p[f] # Keep /\ new[f] = p[f]
           \/ p[f] \in {Keep, old[f]} /\ new[f] = l[f]
<1> DEFINE c == Changes(p, old)
<1>1. /\ p.target = Keep \/ p.target = old.target <=> c.target = Keep
      /\ c.target # Keep => c.target = p.target
      /\ p.status = Keep \/ p.status = old.status <=> c.status = Keep
      /\ c.status # Keep => c.status = p.status
      /\ p.expires_at = Keep \/ p.expires_at = old.expires_at <=> c.expires_at = Keep
      /\ c.expires_at # Keep => c.expires_at = p.expires_at
      /\ c.password = Keep => p.password \in {Keep, old.password}
      /\ c.password # Keep => c.password = p.password
  BY DEF Changes
<1>2. /\ UpdateFromLinkUpdate(l, c).target = Patched(c.target, l.target)
      /\ UpdateFromLinkUpdate(l, c).status = Patched(c.status, l.status)
      /\ UpdateFromLinkUpdate(l, c).expires_at = Patched(c.expires_at, l.expires_at)
      /\ UpdateFromLinkUpdate(l, c).password = Patched(c.password, l.password)
  <2> HIDE DEF c
  <2> QED BY DEF UpdateFromLinkUpdate, Link
<1>3. CASE c = NoChange /\ new = l
  <2>1. c.target = Keep /\ c.status = Keep /\ c.expires_at = Keep /\ c.password = Keep
    BY <1>3 DEF NoChange
  <2> HIDE DEF c
  <2> QED BY <1>1, <1>3, <2>1
<1>4. CASE new = UpdateFromLinkUpdate(l, c)
  <2>1. /\ new.target = Patched(c.target, l.target)
        /\ new.status = Patched(c.status, l.status)
        /\ new.expires_at = Patched(c.expires_at, l.expires_at)
        /\ new.password = Patched(c.password, l.password)
    BY <1>2, <1>4
  <2> HIDE DEF c
  <2> QED BY <1>1, <2>1 DEF Patched
<1> QED BY <1>3, <1>4

\* An update comes to its commit from its flush.
LEMMA UpdateCommitsNext ==
  ASSUME SafeInv, NEW w \in Writers, WriterAction(w),
         pc'[w] = "commit", op'[w] = "update"
  PROVE  FlushUpdate(w) /\ ~ Rollback(w)
<1> USE DEF SafeInv, TypeOK, Requests, Goto, db, redis, readerVars, writerVars
<1>1. ~ EndWriter(w)
  BY EndWriterOK
<1>2. ~ WriterBegins(w)
  BY DEF WriterBegins, BeginsWith, Begin
<1>3. ~ (LoadOwnLink(w) \/ LockUser(w) \/ CountLinks(w) \/ ListSlugs(w))
  BY <1>1 DEF LoadOwnLink, LockUser, CountLinks, ListSlugs, Rollback
<1>4. ~ (FlushDeleteUser(w) \/ FlushDelete(w) \/ InsertLink(w))
  BY <1>1 DEF FlushDeleteUser, FlushDelete, InsertLink, Rollback
<1>5. ~ (Commit(w) \/ Refresh(w) \/ Invalidate(w) \/ AbandonWrite(w))
  BY <1>1 DEF Commit, Refresh, Invalidate, AbandonWrite, Rollback
<1> QED BY <1>1, <1>2, <1>3, <1>4, <1>5 DEF WriterAction, WriterStep, Rollback

\* The flush writes what FlushedOK says, and nobody else touches it.
LEMMA FlushedStep ==
  ASSUME SafeInv, FlushedOK, [Next]_vars
  PROVE  FlushedOK'
<1> USE DEF SafeInv
<1>1. ASSUME NEW w \in Writers, WriterAction(w) PROVE FlushedOK'
  <2> SUFFICES ASSUME NEW v \in Writers, pc'[v] = "commit", op'[v] = "update"
               PROVE  Flushed(v)'
    BY DEF FlushedOK, Flushed
  <2>1. CASE v = w
    <3>1. FlushUpdate(w) /\ ~ Rollback(w)
      BY <1>1, <2>1, UpdateCommitsNext
    <3>2. /\ pc[w] = "flush" /\ op[w] = "update" /\ slug[w] \in Slugs
          /\ UNCHANGED <<slug, op, patch, loaded, links>>
      BY <3>1 DEF FlushUpdate, WritersOK, WriterOK, Ops, db, writerVars
    <3>3. linkLock[slug[w]] # w
      BY <3>2 DEF RowsOK, HeldFor
    <3> DEFINE change == Changes(patch[w], loaded[w])
    <3>4. CASE change = NoChange
      <4>1. UNCHANGED linkLock
        BY <3>1, <3>4 DEF FlushUpdate, db
      <4> QED BY <2>1, <3>2, <3>3, <3>4, <4>1 DEF Flushed
    <3>5. CASE change # NoChange
      <4>1. Write(w, {slug[w]}, UpdateFromLinkUpdate(links[slug[w]], change))
        BY <3>1, <3>5 DEF FlushUpdate
      <4>2. /\ linkLock'[slug[w]] = w
            /\ draft'[slug[w]] = UpdateFromLinkUpdate(links[slug[w]], change)
        BY <3>2, <4>1 DEF Write
      <4> QED BY <2>1, <3>2, <3>5, <4>2 DEF Flushed
    <3> QED BY <3>4, <3>5
  <2>2. CASE v # w
    <3>1. WriterSame(v)
      BY <1>1, <2>2, WriterFrame
    <3>2. slug[v] \in Slugs /\ Flushed(v) /\ pc[v] = "commit" /\ op[v] = "update"
      BY <3>1 DEF WriterSame, WritersOK, WriterOK, FlushedOK, Ops
    <3>3. /\ linkLock'[slug[v]] = v <=> linkLock[slug[v]] = v
          /\ linkLock[slug[v]] = v => /\ draft'[slug[v]] = draft[slug[v]]
                                      /\ links'[slug[v]] = links[slug[v]]
      <4>1. CASE WritesRows(w)
        BY <2>2, <3>2, <4>1, NullAssumption DEF WritesRows, Write
      <4>2. CASE LocksUser(w) \/ KeepsRows(w)
        BY <4>2 DEF LocksUser, KeepsRows, RowsSame
      <4>3. CASE EndsTransaction(w)
        BY <2>2, <3>2, <4>3, NullAssumption DEF EndsTransaction, Release, Commit
      <4> QED BY <1>1, <4>1, <4>2, <4>3, WriterRows
    <3> QED BY <3>1, <3>2, <3>3 DEF Flushed, WriterSame
  <2> QED BY <2>1, <2>2
<1>2. ASSUME RowsSame, \A w \in Writers : WriterSame(w) PROVE FlushedOK'
  BY <1>2 DEF RowsSame, WriterSame, FlushedOK, Flushed
<1> QED BY <1>1, <1>2, RowsFrame

\* No update is under way to begin with.
LEMMA FlushedInit == Init => FlushedOK
BY DEF Init, FlushedOK, Flushed, Requests

\* The commit of an update keeps what others have committed, and writes the rest.
LEMMA CommitKeeps ==
  ASSUME SafeInv, FlushedOK, [Next]_vars, NEW w \in Writers,
         pc[w] = "commit", pc'[w] = "refresh", op[w] = "update", Matches(w)
  PROVE  \A f \in {"target", "status", "expires_at", "password"} :
           LET new == links'[slug[w]][f]
           IN  \/ patch[w][f] # Keep /\ new = patch[w][f]
               \/ /\ patch[w][f] \in {Keep, loaded[w][f]}
                  /\ new = links[slug[w]][f]
<1> USE DEF SafeInv
<1>1. WriterAction(w)
  <2>1. ~ WriterSame(w)
    BY DEF WriterSame
  <2> QED BY <2>1, WriterFrame, RowsFrame
<1>2. EndsTransaction(w)
  BY <1>1, WriterRows DEF WritesRows, LocksUser, KeepsRows
<1>3. /\ slug[w] \in Slugs /\ patch[w] \in LinkUpdate /\ loaded[w] \in Link
      /\ links[slug[w]] \in Link
  BY DomainAssumption DEF WritersOK, WriterOK, Ops, Matches, TypeOK
<1>4. Commit(w)
  <2>1. ~ EndWriter(w)
    BY EndWriterOK
  <2> QED BY <1>1, <2>1
          DEF WriterAction, WriterBegins, BeginsWith, Begin, WriterStep, AbandonWrite, Rollback,
              LoadOwnLink, FlushUpdate, FlushDelete, LockUser, CountLinks, InsertLink, ListSlugs,
              FlushDeleteUser, Refresh, Invalidate
<1>5. links'[slug[w]] = IF linkLock[slug[w]] = w THEN draft[slug[w]] ELSE links[slug[w]]
  BY <1>3, <1>4 DEF Commit
<1>6. \/ /\ Changes(patch[w], loaded[w]) = NoChange
         /\ links'[slug[w]] = links[slug[w]]
      \/ links'[slug[w]] = UpdateFromLinkUpdate(links[slug[w]], Changes(patch[w], loaded[w]))
  BY <1>5 DEF FlushedOK, Flushed
<1> QED BY <1>3, <1>6, FieldsKept

\* However updates of a link overlap, none undoes what another has committed, and
\* none leaves out a field but one that its patch restates.
THEOREM UpdatesStayKept == Spec => UpdatesAreKept
<1>1. SafeInv /\ FlushedOK /\ [Next]_vars => FlushedOK'
  BY FlushedStep
<1>2. SafeInv /\ FlushedOK /\ [Next]_vars =>
        [\A w \in Writers :
           pc[w] = "commit" /\ pc'[w] = "refresh" /\ op[w] = "update" /\ Matches(w) =>
             \A f \in {"target", "status", "expires_at", "password"} :
               LET new == links'[slug[w]][f]
               IN  \/ patch[w][f] # Keep /\ new = patch[w][f]
                   \/ /\ patch[w][f] \in {Keep, loaded[w][f]}
                      /\ new = links[slug[w]][f]]_vars
  BY CommitKeeps
<1> QED BY <1>1, <1>2, FlushedInit, SafeAlways, PTL DEF Spec, UpdatesAreKept
-------------------------------------------------------------------------------
(* Waiting. *)

\* A user row is held only on the way of a creation or an account's deletion from
\* its lock to its commit, and it is the row of the account that asks.
UserLocksOK ==
  \A w \in Writers, u \in Users : userLock[u] = w => HasUserRow(w) /\ u = actor[w]

\* Every way out of a transaction gives its user row back.
LEMMA UserLocksStep ==
  ASSUME SafeInv, UserLocksOK, [Next]_vars
  PROVE  UserLocksOK'
<1> USE DEF SafeInv
<1>1. ASSUME NEW w \in Writers, WriterAction(w) PROVE UserLocksOK'
  <2> SUFFICES ASSUME NEW v \in Writers, NEW u \in Users, userLock'[u] = v
               PROVE  HasUserRow(v)' /\ u = actor'[v]
    BY DEF UserLocksOK
  <2>1. CASE LocksUser(w)
    <3>1. v = w => u = actor[w]
      BY <2>1 DEF LocksUser, TypeOK, UserLocksOK, HasUserRow
    <3>2. HasUserRow(w)'
      BY <2>1, WritersStep DEF LocksUser, WritersOK, WriterOK, HasUserRow
    <3>3. v # w => HasUserRow(v) /\ u = actor[v]
      BY <2>1 DEF LocksUser, TypeOK, UserLocksOK
    <3>4. v # w => WriterSame(v)
      BY <1>1, WriterFrame
    <3> QED BY <2>1, <3>1, <3>2, <3>3, <3>4 DEF LocksUser, WriterSame, HasUserRow
  <2>2. CASE EndsTransaction(w)
    <3>1. v # w /\ HasUserRow(v) /\ u = actor[v]
      BY <2>2, NullAssumption DEF EndsTransaction, Release, UserLocksOK
    <3>2. WriterSame(v)
      BY <1>1, <3>1, WriterFrame
    <3> QED BY <3>1, <3>2 DEF WriterSame, HasUserRow
  <2>3. CASE WritesRows(w) \/ KeepsRows(w)
    <3>1. HasUserRow(v) /\ u = actor[v]
      BY <2>3 DEF WritesRows, KeepsRows, RowsSame, UserLocksOK
    <3>2. CASE v = w
      BY <2>3, <3>1, <3>2 DEF WritesRows, KeepsRows, HasUserRow
    <3>3. CASE v # w
      <4>1. WriterSame(v)
        BY <1>1, <3>3, WriterFrame
      <4> QED BY <3>1, <4>1 DEF WriterSame, HasUserRow
    <3> QED BY <3>2, <3>3
  <2> QED BY <1>1, <2>1, <2>2, <2>3, WriterRows
<1>2. ASSUME RowsSame, \A w \in Writers : WriterSame(w) PROVE UserLocksOK'
  BY <1>2 DEF RowsSame, WriterSame, UserLocksOK, HasUserRow
<1> QED BY <1>1, <1>2, RowsFrame

\* No user row is held initially.
LEMMA UserLocksInit == Init => UserLocksOK
BY NullAssumption DEF Init, UserLocksOK

\* The model's statements wait for the rows that Wants and WantsUser name: none is
\* taken while another transaction holds one of them.
LEMMA StatementsWait ==
  ASSUME TypeOK, NEW q \in Requests,
         (q \in Readers /\ ReaderStep(q)) \/ (q \in Writers /\ WriterStep(q))
  PROVE  /\ \A s \in Wants(q) : linkLock[s] = Null
         /\ \A u \in Users : WantsUser(q, u) => userLock[u] = Null
<1>1. CASE q \in Readers /\ RecordClick(q)
  BY <1>1 DEF RecordClick, BeingDeleted, Wants, WantsUser
<1>2. CASE q \in Readers /\ (CacheGet(q) \/ CacheDiscard(q) \/ LoadLink(q)
                               \/ FillCache(q) \/ Decide(q))
  BY <1>2 DEF CacheGet, CacheDiscard, LoadLink, FillCache, Decide, Wants, WantsUser
<1>3. CASE FlushUpdate(q) \/ FlushDelete(q) \/ InsertLink(q)
  BY <1>3 DEF FlushUpdate, FlushDelete, InsertLink, Wants, WantsUser
<1>4. CASE FlushDeleteUser(q) \/ LockUser(q)
  BY <1>4 DEF FlushDeleteUser, LockUser, Wants, WantsUser
<1>5. CASE LoadOwnLink(q) \/ CountLinks(q) \/ ListSlugs(q)
  BY <1>5 DEF LoadOwnLink, CountLinks, ListSlugs, Wants, WantsUser
<1>6. CASE Commit(q) \/ Refresh(q) \/ Invalidate(q)
  BY <1>6 DEF Commit, Refresh, Invalidate, Wants, WantsUser
<1> QED BY <1>1, <1>2, <1>3, <1>4, <1>5, <1>6 DEF ReaderStep, WriterStep

\* A request has a higher rank than the requests it waits for.
Rank(q) ==
  CASE pc[q] = "lock" -> 3
    [] pc[q] = "click" -> 2
    [] pc[q] = "flush" -> IF op[q] = "delete_user" THEN 1 ELSE 2
    [] OTHER -> 0

\* A request wants slugs, by its click or its flush.
LEMMA WantedRows ==
  ASSUME SafeInv, NEW q \in Requests
  PROVE  /\ Wants(q) \subseteq Slugs
         /\ Wants(q) # {} => pc[q] \in {"click", "flush"}
         /\ pc[q] = "flush" => q \in Writers
<1>1. pc[q] = "flush" => q \in Writers
  BY DEF Requests, SafeInv, TypeOK, ReaderSteps
<1>2. ASSUME pc[q] = "flush" PROVE op[q] = "delete_user" \/ slug[q] \in Slugs
  BY <1>1, <1>2 DEF SafeInv, WritersOK, WriterOK
<1>3. Wants(q) # {} => pc[q] \in {"click", "flush"}
  BY DEF Wants
<1>4. CASE pc[q] = "click"
  BY <1>4 DEF Wants
<1>5. ASSUME pc[q] = "flush", op[q] = "delete_user" PROVE Wants(q) \subseteq Slugs
  BY <1>5 DEF Wants, OwnedBy
<1>6. ASSUME pc[q] = "flush", op[q] # "delete_user" PROVE Wants(q) \subseteq Slugs
  <2>1. slug[q] \in Slugs
    BY <1>2, <1>6
  <2>2. op[q] \in {"create", "update", "delete"}
    BY <1>1, <1>6 DEF SafeInv, WritersOK, WriterOK, Ops
  <2>3. Wants(q) \subseteq {slug[q]}
    BY <1>6, <2>2 DEF Wants
  <2> QED BY <2>1, <2>3
<1> QED BY <1>1, <1>3, <1>4, <1>5, <1>6

\* What a request waits for is within its transaction and has a lower rank: the
\* user row is taken first, a link row is held at the commit only, and two
\* cascades that want the same row would hold the same user row.
LEMMA HoldersRankLower ==
  ASSUME SafeInv, UserLocksOK, NEW q \in Requests, NEW p \in WaitsFor(q)
  PROVE  /\ p \in Writers /\ Rank(p) < Rank(q)
         /\ pc[p] \notin {"idle", "refresh", "invalidate"}
<1>1. p \in Writers /\ p # q
  BY DEF WaitsFor
<1>2. ASSUME NEW u \in Users, WantsUser(q, u), userLock[u] = p
      PROVE  pc[p] \in {"count", "list", "flush", "commit"} /\ Rank(p) < Rank(q)
  <2>1. pc[p] \in {"count", "list", "flush", "commit"}
    BY <1>1, <1>2 DEF UserLocksOK, HasUserRow
  <2> QED BY <1>2, <2>1 DEF WantsUser, Rank
<1>3. ASSUME NEW s \in Wants(q), linkLock[s] = p
      PROVE  pc[p] = "commit" /\ Rank(p) < Rank(q)
  <2>1. s \in Slugs
    BY <1>3, WantedRows
  <2>2. pc[p] = "commit"
    BY <1>1, <1>3, <2>1 DEF SafeInv, RowsOK, HeldFor
  <2>3. pc[q] \in {"click", "flush"}
    BY <1>3, WantedRows
  <2> QED BY <2>2, <2>3 DEF Rank
<1>4. ASSUME NEW s \in Wants(q), pc[p] = "flush", op[p] = "delete_user", s \in Wants(p)
      PROVE  Rank(p) < Rank(q)
  <2>1. links[s] # Null /\ links[s].user = actor[p]
    BY <1>4 DEF Wants, OwnedBy
  <2>2. ~ (pc[q] = "flush" /\ op[q] = "delete_user")
    <3> SUFFICES ASSUME pc[q] = "flush", op[q] = "delete_user" PROVE FALSE
      OBVIOUS
    <3>1. q \in Writers
      BY WantedRows
    <3>2. links[s].user = actor[q]
      BY DEF Wants, OwnedBy
    <3>3. userLock[actor[p]] = p /\ userLock[actor[q]] = q
      BY <1>1, <1>4, <3>1 DEF SafeInv, UserRowsOK, HasUserRow
    <3> QED BY <1>1, <2>1, <3>2, <3>3
  <2>3. pc[q] \in {"click", "flush"}
    BY <1>4, WantedRows
  <2> QED BY <1>4, <2>2, <2>3 DEF Rank
<1> QED BY <1>1, <1>2, <1>3, <1>4 DEF WaitsFor, MayHave

\* Ranks are four, so some request has the lowest.
LEMMA LowestRank ==
  ASSUME NEW S \in SUBSET Requests, S # {}
  PROVE  \E q \in S : \A p \in S : Rank(q) <= Rank(p)
<1>1. \A q \in S : Rank(q) \in {0, 1, 2, 3}
  BY DEF Rank
<1> HIDE DEF Rank
<1>2. CASE \E q \in S : Rank(q) = 0
  BY <1>1, <1>2
<1>3. CASE (\A q \in S : Rank(q) # 0) /\ \E q \in S : Rank(q) = 1
  BY <1>1, <1>3
<1>4. CASE (\A q \in S : Rank(q) \notin {0, 1}) /\ \E q \in S : Rank(q) = 2
  BY <1>1, <1>4
<1>5. CASE \A q \in S : Rank(q) = 3
  BY <1>5
<1> QED BY <1>1, <1>2, <1>3, <1>4, <1>5

\* Whatever requests wait, one of them waits for none of the others, and all of
\* them for transactions that are still to end: no number of creations, updates,
\* deletions, cascades and clicks makes a deadlock of their locks.
THEOREM NoRequestsDeadlock == Spec => []NoDeadlock
<1>1. SafeInv /\ UserLocksOK => NoDeadlock
  <2> SUFFICES ASSUME SafeInv, UserLocksOK PROVE NoDeadlock
    OBVIOUS
  <2>1. ASSUME NEW S \in SUBSET Requests, S # {}
        PROVE  \E q \in S : WaitsFor(q) \cap S = {}
    <3>1. PICK q \in S : \A p \in S : Rank(q) <= Rank(p)
      BY <2>1, LowestRank
    <3>2. ASSUME NEW p \in S, p \in WaitsFor(q)
          PROVE  FALSE
      <4>1. Rank(p) < Rank(q) /\ Rank(q) <= Rank(p)
        BY <3>1, <3>2, HoldersRankLower
      <4>2. Rank(p) \in Nat /\ Rank(q) \in Nat
        BY DEF Rank
      <4> QED BY <4>1, <4>2
    <3> QED BY <3>2
  <2>2. \A q \in Requests : \A w \in WaitsFor(q) : pc[w] \notin {"idle", "refresh", "invalidate"}
    BY HoldersRankLower
  <2> QED BY <2>1, <2>2 DEF NoDeadlock
<1>2. SafeInv /\ UserLocksOK /\ [Next]_vars => UserLocksOK'
  BY UserLocksStep
<1> QED BY <1>1, <1>2, UserLocksInit, SafeAlways, PTL DEF Spec
===============================================================================
