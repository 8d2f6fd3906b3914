------------------------- MODULE ReadYourWritesProofs -------------------------
(***************************************************************************)
(* What the owner of a link is promised, for every number of requests and  *)
(* slugs and any times to live, as long as no fault strikes Redis.         *)
(***************************************************************************)
EXTENDS ReadYourWrites, LinkForwardingProofs

(* The inductive invariant. *)

HistoryTypeOK ==
  /\ replaced \in [Writers -> [Slugs -> SUBSET Entry]]
  /\ dead \in [Slugs -> SUBSET Entry]
  /\ forbidden \in [Readers -> SUBSET Entry]

\* What a writer has replaced it is going to invalidate.
ReplacedOK ==
  \A w \in Writers, s \in Slugs :
    replaced[w][s] # {} => s \in stale[w] /\ pc[w] \in {"commit", "refresh", "invalidate"}

\* A version is gone for good: it is not the row, not in Redis, and a reader that
\* is about to put it there finds a tombstone.
Gone(e, s) ==
  /\ e \notin Current(s)
  /\ cache[s] # e
  /\ \A r \in Readers :
       pc[r] = "fill" /\ slug[r] = s /\ entry[r] = e
         => cache[s] = Tombstone /\ ttl[s] + age[r] > FillDelay

DeadOK == \A s \in Slugs : \A e \in dead[s] : Gone(e, s)

ForbiddenOK(r) ==
  /\ pc[r] = "idle" => forbidden[r] = {}
  /\ \A e \in forbidden[r] : Gone(e, slug[r])
  /\ pc[r] \in {"fill", "decide", "click"} => entry[r] \notin forbidden[r]

HistoryInv ==
  /\ HistoryTypeOK
  /\ ReplacedOK
  /\ DeadOK
  /\ \A r \in Readers : ForbiddenOK(r)
-------------------------------------------------------------------------------
(* One step. *)

\* What is committed is cached as a LinkCache.
LEMMA CurrentType ==
  ASSUME TypeOK, NEW s \in Slugs
  PROVE  Current(s) \subseteq Entry
BY FromLinkType DEF TypeOK, Current

\* What is gone and does not come back by a commit stays gone.
LEMMA GoneStays ==
  ASSUME SafeInv, NothingMalformed, Undisturbed, [Next]_vars,
         NEW s \in Slugs, NEW e \in Entry, Gone(e, s), e \notin Current(s)'
  PROVE  Gone(e, s)'
<1> USE DEF SafeInv
<1>1. ASSUME NEW w \in Writers, WriterAction(w) PROVE Gone(e, s)'
  <2>1. \/ cache'[s] = cache[s] /\ ttl'[s] = ttl[s]
        \/ cache'[s] = Tombstone /\ ttl'[s] = InvalidationTTL
    BY <1>1, WriterCache
  <2>2. cache'[s] # e
    BY <2>1, NullAssumption DEF Gone
  <2>3. ASSUME NEW r \in Readers, pc'[r] = "fill", slug'[r] = s, entry'[r] = e
        PROVE  cache'[s] = Tombstone /\ ttl'[s] + age'[r] > FillDelay
    <3>1. pc[r] = "fill" /\ slug[r] = s /\ entry[r] = e /\ age'[r] = age[r] /\ age[r] \in Nat
      BY <1>1, <2>3, WriterFrame DEF ReaderSame, TypeOK
    <3> QED BY <2>1, <3>1, TimeAssumption DEF Gone, Undisturbed
  <2> QED BY <2>2, <2>3 DEF Gone
<1>2. ASSUME NEW q \in Readers, ReaderAction(q) PROVE Gone(e, s)'
  <2>1. ASSUME NEW r \in Readers, pc'[r] = "fill", slug'[r] = s, entry'[r] = e
        PROVE  /\ r # q
               /\ pc[r] = "fill" /\ slug[r] = s /\ entry[r] = e /\ age'[r] = age[r]
    <3>1. r # q
      <4>1. UNCHANGED links
        BY <1>2, ReaderFrame DEF RowsSame
      <4> QED BY <1>2, <2>1, <4>1, ReaderCache DEF Gone, Current
    <3> QED BY <1>2, <2>1, <3>1, ReaderFrame DEF ReaderSame
  <2>2. \/ cache'[s] = cache[s] /\ ttl'[s] = ttl[s]
        \/ /\ pc[q] = "fill" /\ slug[q] = s /\ cache[s] = Null
           /\ cache'[s] = entry[q]
    BY <1>2, ReaderCache DEF TypeOK
  <2>3. cache'[s] # e
    BY <2>2, NullAssumption DEF Gone
  <2>4. ASSUME NEW r \in Readers, pc'[r] = "fill", slug'[r] = s, entry'[r] = e
        PROVE  cache'[s] = Tombstone /\ ttl'[s] + age'[r] > FillDelay
    BY <2>1, <2>2, <2>4, NullAssumption DEF Gone
  <2> QED BY <2>3, <2>4 DEF Gone
<1>3. CASE Environment \/ Tick \/ UNCHANGED vars
  <2>1. /\ cache'[s] \in {cache[s], Null}
        /\ UNCHANGED <<pc, slug, entry>>
    BY <1>3, TombstonesLast, EnvironmentFrame
  <2>2. cache'[s] # e
    BY <2>1, NullAssumption DEF Gone
  <2>3. ASSUME NEW r \in Readers, pc'[r] = "fill", slug'[r] = s, entry'[r] = e
        PROVE  cache'[s] = Tombstone /\ ttl'[s] + age'[r] > FillDelay
    <3>1. /\ pc[r] = "fill" /\ slug[r] = s /\ entry[r] = e
          /\ cache[s] = Tombstone /\ ttl[s] + age[r] > FillDelay
      BY <2>1, <2>3 DEF Gone
    <3> QED BY <1>3, <3>1, TombstonesLast
  <2> QED BY <2>2, <2>3 DEF Gone
<1> QED BY <1>1, <1>2, <1>3, StepCases

\* What a mutation has replaced is gone when the mutation is answered.
LEMMA GoneAtSuccess ==
  ASSUME SafeInv, Undisturbed, [Next]_vars, HistoryInv,
         NEW w \in Writers, Succeeds(w), NEW s \in Slugs, NEW e \in replaced[w][s],
         e \notin Current(s)'
  PROVE  Gone(e, s)'
<1> USE DEF SafeInv
<1>1. e \in Entry /\ s \in stale[w]
  BY DEF HistoryInv, HistoryTypeOK, ReplacedOK
<1>2. WriterAction(w)
  <2>1. ~ WriterSame(w)
    BY DEF Succeeds, WriterSame
  <2>2. ASSUME NEW v \in Writers, WriterAction(v) PROVE v = w
    BY <2>1, <2>2, WriterFrame
  <2>3. ASSUME NEW r \in Readers, ReaderAction(r) PROVE FALSE
    BY <2>1, <2>3, ReaderFrame
  <2>4. ~ (Environment \/ Tick \/ UNCHANGED vars)
    BY <2>1, EnvironmentFrame
  <2> QED BY <2>2, <2>3, <2>4, StepCases
<1>3. Invalidate(w)
  <2>1. pc[w] = "invalidate"
    BY DEF Succeeds
  <2>2. ~ AbandonWrite(w)
    BY <2>1 DEF AbandonWrite, Undisturbed
  <2> QED BY <1>2, <2>1, <2>2
          DEF WriterAction, WriterBegins, BeginsWith, Begin, WriterStep, LoadOwnLink,
              FlushUpdate, FlushDelete, LockUser, CountLinks, InsertLink, ListSlugs,
              FlushDeleteUser, Commit, Refresh
<1>4. cache'[s] = Tombstone /\ ttl'[s] = InvalidationTTL
  BY <1>1, <1>3 DEF Invalidate, SetCachedLinksInvalidated, Undisturbed
<1>5. \A r \in Readers : age'[r] \in Nat
  BY <1>2, WriterFrame DEF ReaderSame, TypeOK
<1> QED BY <1>1, <1>4, <1>5, NullAssumption, TimeAssumption DEF Gone, Undisturbed
-------------------------------------------------------------------------------
(* The histories. *)

\* A commit replaces what its operation is about to invalidate.
LEMMA ReplacedStep ==
  ASSUME SafeInv, [Next]_vars, HistoryInv, HistoryNext
  PROVE  ReplacedOK'
<1> USE DEF SafeInv
<1> SUFFICES ASSUME NEW w \in Writers, NEW s \in Slugs, replaced'[w][s] # {}
             PROVE  s \in stale'[w] /\ pc'[w] \in {"commit", "refresh", "invalidate"}
  BY DEF ReplacedOK
<1>1. /\ pc'[w] # "idle"
      /\ IF pc[w] = "commit" /\ linkLock[s] = w THEN Current(s) # {} ELSE replaced[w][s] # {}
  BY DEF HistoryNext
<1>2. s \in stale[w] /\ pc[w] \in {"commit", "refresh", "invalidate"}
  <2>1. CASE pc[w] = "commit" /\ linkLock[s] = w
    <3>1. HeldFor(w, s) /\ WriterOK(w) /\ links[s] # Null
      BY <1>1, <2>1 DEF RowsOK, WritersOK, Current
    <3> QED BY <2>1, <3>1 DEF HeldFor, WriterOK
  <2>2. CASE ~ (pc[w] = "commit" /\ linkLock[s] = w)
    BY <1>1, <2>2 DEF HistoryInv, ReplacedOK
  <2> QED BY <2>1, <2>2
<1>3. CASE WriterAction(w)
  <2>1. ~ EndWriter(w)
    BY <1>1 DEF EndWriter, Goto, TypeOK, Requests
  <2>2. Commit(w) \/ Refresh(w)
    BY <1>2, <1>3, <2>1
    DEF WriterAction, WriterBegins, BeginsWith, Begin, WriterStep, LoadOwnLink,
        FlushUpdate, FlushDelete, LockUser, CountLinks, InsertLink, ListSlugs,
        FlushDeleteUser, Invalidate, AbandonWrite, Rollback
  <2>3. stale' = stale /\ pc'[w] \in {"refresh", "invalidate"}
    BY <2>1, <2>2 DEF Commit, Refresh, Goto, TypeOK, Requests, writerVars
  <2> QED BY <1>2, <2>3
<1>4. ASSUME NEW v \in Writers, WriterAction(v) PROVE WriterSame(w) \/ WriterAction(w)
  BY <1>4, WriterFrame
<1>5. ASSUME NEW r \in Readers, ReaderAction(r) PROVE WriterSame(w)
  BY <1>5, ReaderFrame
<1>6. CASE WriterSame(w)
  BY <1>2, <1>6 DEF WriterSame
<1> QED BY <1>3, <1>4, <1>5, <1>6, StepCases, EnvironmentFrame

\* A version that is dead is gone.
LEMMA DeadStep ==
  ASSUME SafeInv, NothingMalformed, Undisturbed, [Next]_vars, HistoryInv, HistoryNext
  PROVE  DeadOK'
<1> SUFFICES ASSUME NEW s \in Slugs, NEW e \in dead'[s]
             PROVE  Gone(e, s)'
  BY DEF DeadOK
<1>1. /\ e \in dead[s] \cup UNION {replaced[w][s] : w \in {v \in Writers : Succeeds(v)}}
      /\ e \notin Current(s)'
  BY DEF HistoryNext, Remembered
<1>2. CASE e \in dead[s]
  BY <1>1, <1>2, GoneStays DEF HistoryInv, HistoryTypeOK, DeadOK
<1>3. ASSUME NEW w \in Writers, Succeeds(w), e \in replaced[w][s]
      PROVE  Gone(e, s)'
  BY <1>1, <1>3, GoneAtSuccess
<1> QED BY <1>1, <1>2, <1>3

\* A reader's slug stays, and what it decides on is what it held, what is cached or
\* what is committed.
LEMMA ReaderMoves ==
  ASSUME SafeInv, [Next]_vars, NEW r \in Readers, pc'[r] # "idle"
  PROVE  /\ slug'[r] \in Slugs
         /\ pc[r] # "idle" => slug'[r] = slug[r]
         /\ pc'[r] \in {"fill", "decide", "click"} =>
              \/ pc[r] \in {"fill", "decide", "click"} /\ entry'[r] = entry[r]
              \/ pc[r] = "get" /\ entry'[r] = cache[slug[r]]
              \/ /\ pc[r] = "load" /\ links[slug[r]] # Null
                 /\ entry'[r] = FromLink(links[slug[r]]) /\ UNCHANGED links
<1> USE DEF SafeInv
<1>1. CASE ReaderSame(r)
  BY <1>1 DEF ReaderSame, ReadersOK
<1>2. CASE ReaderAction(r)
  <2> USE DEF TypeOK, Requests, Goto, EndReader, ReadersOK, db, readerVars
  <2>1. ASSUME NEW s \in Slugs, NEW p \in Passwords \cup {Null}, StartForward(r, s, p)
        PROVE  slug'[r] \in Slugs /\ pc[r] = "idle" /\ pc'[r] = "get"
    BY <2>1 DEF StartForward
  <2>2. CASE CacheGet(r)
    BY <2>2 DEF CacheGet
  <2>3. CASE CacheDiscard(r)
    BY <2>3 DEF CacheDiscard
  <2>4. CASE LoadLink(r)
    BY <2>4 DEF LoadLink
  <2>5. CASE FillCache(r)
    BY <2>5 DEF FillCache
  <2>6. CASE Decide(r)
    BY <2>6 DEF Decide
  <2>7. CASE RecordClick(r) \/ AbandonRead(r)
    BY <2>7 DEF RecordClick, AbandonRead
  <2> QED BY <1>2, <2>1, <2>2, <2>3, <2>4, <2>5, <2>6, <2>7 DEF ReaderAction, ReaderStep
<1>3. ASSUME NEW w \in Writers, WriterAction(w) PROVE ReaderSame(r)
  BY <1>3, WriterFrame
<1>4. ASSUME NEW q \in Readers, ReaderAction(q) PROVE ReaderSame(r) \/ ReaderAction(r)
  BY <1>4, ReaderFrame
<1>5. CASE Environment \/ Tick \/ UNCHANGED vars
  BY <1>5, EnvironmentFrame DEF ReadersOK
<1> QED BY <1>1, <1>2, <1>3, <1>4, <1>5, StepCases

\* No reader is given what is forbidden to it.
LEMMA ForbiddenStep ==
  ASSUME SafeInv, NothingMalformed, Undisturbed, [Next]_vars, HistoryInv, HistoryNext,
         NEW r \in Readers
  PROVE  ForbiddenOK(r)'
<1>1. CASE pc'[r] = "idle"
  BY <1>1 DEF ForbiddenOK, HistoryNext
<1>2. CASE pc'[r] # "idle"
  <2>1. PICK s \in Slugs : s = slug'[r] /\ (pc[r] # "idle" => slug[r] = s)
    BY <1>2, ReaderMoves
  <2>2. forbidden'[r] = (IF pc[r] = "idle" THEN dead[s] ELSE forbidden[r]) \ Current(s)'
    BY <1>2, <2>1 DEF HistoryNext, Current
  <2>3. ASSUME NEW e \in forbidden'[r] PROVE Gone(e, s) /\ e \in Entry /\ e \notin Current(s)'
    BY <2>1, <2>2 DEF HistoryInv, HistoryTypeOK, DeadOK, ForbiddenOK
  <2>4. ASSUME NEW e \in forbidden'[r] PROVE Gone(e, s)'
    BY <2>3, GoneStays
  <2>5. ASSUME pc'[r] \in {"fill", "decide", "click"} PROVE entry'[r] \notin forbidden'[r]
    <3>1. CASE pc[r] \in {"fill", "decide", "click"} /\ entry'[r] = entry[r]
      BY <2>2, <3>1 DEF HistoryInv, ForbiddenOK
    <3>2. CASE pc[r] = "get" /\ entry'[r] = cache[slug[r]]
      BY <2>1, <2>3, <3>2 DEF Gone
    <3>3. CASE /\ pc[r] = "load" /\ links[slug[r]] # Null
               /\ entry'[r] = FromLink(links[slug[r]]) /\ UNCHANGED links
      BY <2>1, <2>2, <3>3 DEF Current
    <3> QED BY <1>2, <2>5, <3>1, <3>2, <3>3, ReaderMoves
  <2> QED BY <1>2, <2>1, <2>4, <2>5 DEF ForbiddenOK, Gone, Current
<1> QED BY <1>1, <1>2

\* Every step keeps the histories in order.
LEMMA HistoryStep ==
  ASSUME SafeInv, NothingMalformed, Undisturbed, [Next]_vars, HistoryInv, HistoryNext
  PROVE  HistoryInv'
<1>1. HistoryTypeOK'
  <2>1. \A s \in Slugs : Current(s) \subseteq Entry
    BY CurrentType DEF SafeInv
  <2>2. ASSUME NEW s \in Slugs
        PROVE  dead'[s] \subseteq dead[s] \cup UNION {replaced[w][s] : w \in Writers}
    BY DEF HistoryNext, Remembered
  <2>3. ASSUME NEW r \in Readers PROVE forbidden'[r] \subseteq Entry
    <3>1. CASE pc'[r] = "idle"
      BY <3>1 DEF HistoryNext
    <3>2. CASE pc'[r] # "idle"
      BY <3>2, ReaderMoves DEF HistoryNext, HistoryInv, HistoryTypeOK
    <3> QED BY <3>1, <3>2
  <2> QED BY <2>1, <2>2, <2>3 DEF HistoryNext, HistoryInv, HistoryTypeOK
<1> QED BY <1>1, ReplacedStep, DeadStep, ForbiddenStep DEF HistoryInv

\* If no fault strikes Redis and every reader fills within the time a tombstone
\* lasts, nobody who asks after a mutation was answered with success is decided on
\* with a version that the mutation replaced (invalidate after commit, answer
\* after invalidation).
THEOREM AnsweredWritesAreRead ==
  ASSUME Undisturbed
  PROVE  HSpec => []ReadsSeeAnsweredWrites
<1>1. Init /\ HistoryInit => SafeInv /\ CacheInv /\ HistoryInv
  <2> SUFFICES ASSUME Init, HistoryInit PROVE HistoryInv
    BY SafeInit, CacheInit
  <2> QED BY DEF Init, HistoryInit, HistoryInv, HistoryTypeOK, ReplacedOK, DeadOK, ForbiddenOK,
                 Requests
<1>2. /\ SafeInv /\ CacheInv /\ HistoryInv
      /\ [Next /\ HistoryNext]_<<vars, historyVars>>
      => SafeInv' /\ CacheInv' /\ HistoryInv'
  <2> SUFFICES ASSUME SafeInv, CacheInv, HistoryInv,
                      [Next /\ HistoryNext]_<<vars, historyVars>>
               PROVE  SafeInv' /\ CacheInv' /\ HistoryInv'
    OBVIOUS
  <2>1. SafeInv' /\ CacheInv'
    BY SafeStep, CacheStep
  <2>2. CASE UNCHANGED <<vars, historyVars>>
    <3>1. UNCHANGED <<links, cache, ttl, pc, slug, entry, age, stale, replaced, dead, forbidden>>
      BY <2>2 DEF vars, db, redis, readerVars, writerVars, historyVars
    <3> QED BY <2>1, <3>1
            DEF HistoryInv, HistoryTypeOK, ReplacedOK, DeadOK, ForbiddenOK, Gone, Current
  <2>3. CASE Next /\ HistoryNext
    BY <2>1, <2>3, HistoryStep DEF CacheInv
  <2> QED BY <2>2, <2>3
<1>3. HistoryInv => ReadsSeeAnsweredWrites
  BY DEF HistoryInv, ForbiddenOK, ReadsSeeAnsweredWrites
<1> QED BY <1>1, <1>2, <1>3, PTL DEF HSpec
===============================================================================
