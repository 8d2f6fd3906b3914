------------------------ MODULE BoundedStalenessProofs ------------------------
(***************************************************************************)
(* How old a cached link can be, for every number of requests and slugs,   *)
(* any times to live and delays, and under every fault.                    *)
(***************************************************************************)
EXTENDS BoundedStaleness, LinkForwardingProofs

(* The inductive invariant. *)

LagTypeOK ==
  /\ cacheLag \in [Slugs -> Nat]
  /\ entryLag \in [Readers -> Nat]

\* No entry outlives its time to live,
EntriesExpire == \A s \in Slugs : cache[s] \in Entry => ttl[s] \in 1..LinkTTL

\* one that is outdated has used up some of it since it was put there,
CacheLagOK(s) ==
  IF CacheCurrent(s) THEN cacheLag[s] = 0
                     ELSE cacheLag[s] + ttl[s] <= FillDelay + LinkTTL

\* and what a reader holds was current when it read it.
EntryLagOK(r) ==
  IF EntryCurrent(r) THEN entryLag[r] = 0 ELSE entryLag[r] <= age[r]

LagInv ==
  /\ LagTypeOK
  /\ EntriesExpire
  /\ \A s \in Slugs : CacheLagOK(s)
  /\ \A r \in Readers : EntryLagOK(r)
-------------------------------------------------------------------------------
(* What a step other than of time does to the copies. *)

\* An entry is there as before, or a reader has just put it there.
Filled(s) ==
  \E r \in Readers :
    /\ pc[r] = "fill" /\ slug[r] = s
    /\ cache[s] = Null /\ cache'[s] = entry[r] /\ ttl'[s] = LinkTTL
    /\ FilledBy(s) = {r}

Stays(s) == cache[s] \in Entry /\ cache'[s] = cache[s] /\ ttl'[s] = ttl[s]

\* A reader puts an entry into the cache when it fills, and nothing else.
LEMMA ReaderCopies ==
  ASSUME SafeInv, NEW r \in Readers, ReaderAction(r)
  PROVE  /\ \A s \in Slugs : cache'[s] \in Entry => Stays(s) \/ Filled(s)
         /\ pc'[r] = "fill" => pc[r] # "fill"
<1> USE DEF SafeInv, TypeOK, Requests, Goto, EndReader, redis
<1>0. /\ pc[r] # "idle" => slug[r] \in Slugs
      /\ pc'[r] # "idle" => r \in Requests
  BY DEF ReadersOK
<1>1. CASE UNCHANGED redis /\ (pc'[r] = "fill" => pc[r] # "fill")
  BY <1>1 DEF Stays
<1>2. ASSUME NEW s \in Slugs, NEW p \in Passwords \cup {Null}, StartForward(r, s, p)
      PROVE  UNCHANGED redis /\ pc'[r] # "fill"
  BY <1>2 DEF StartForward
<1>3. CASE CacheGet(r) \/ Decide(r) \/ RecordClick(r) \/ AbandonRead(r)
  BY <1>1, <1>3 DEF CacheGet, Decide, RecordClick, AbandonRead
<1>4. CASE LoadLink(r)
  BY <1>1, <1>4 DEF LoadLink
<1>5. CASE CacheDiscard(r)
  BY <1>0, <1>5, NullAssumption DEF CacheDiscard, Stays
<1>6. CASE FillCache(r)
  <2>1. /\ pc[r] = "fill" /\ pc' = [pc EXCEPT ![r] = "decide"]
        /\ slug[r] \in Slugs /\ entry[r] \in Entry
    BY <1>6 DEF FillCache, ReadersOK
  <2>2. CASE UNCHANGED redis
    BY <2>1, <2>2 DEF Stays
  <2>3. CASE AddCachedLink(slug[r], entry[r])
    <3>1. /\ cache[slug[r]] = Null /\ cache'[slug[r]] = entry[r] /\ ttl'[slug[r]] = LinkTTL
          /\ \A s \in Slugs \ {slug[r]} : cache'[s] = cache[s] /\ ttl'[s] = ttl[s]
      BY <2>1, <2>3 DEF AddCachedLink
    <3>2. FilledBy(slug[r]) = {r}
      BY <2>1, <3>1, NullAssumption DEF FilledBy
    <3> QED BY <2>1, <3>1, <3>2 DEF Stays, Filled
  <2> QED BY <1>6, <2>2, <2>3 DEF FillCache
<1> QED BY <1>1, <1>2, <1>3, <1>4, <1>5, <1>6 DEF ReaderAction, ReaderStep

\* Redis puts no entry there.
LEMMA RedisCache ==
  ASSUME SafeInv, Environment, NEW s \in Slugs, cache'[s] \in Entry
  PROVE  Stays(s)
<1> USE DEF SafeInv, TypeOK, Stays
<1>1. ASSUME NEW d \in Deadlines, DeadlinePasses(d) PROVE Stays(s)
  BY <1>1 DEF DeadlinePasses, redis
<1>2. ASSUME NEW t \in Slugs, Evict(t) PROVE Stays(s)
  BY <1>2, NullAssumption DEF Evict
<1>3. ASSUME NEW t \in Slugs, ForeignFill(t) PROVE Stays(s)
  BY <1>3, NullAssumption DEF ForeignFill, AddCachedLink
<1> QED BY <1>1, <1>2, <1>3 DEF Environment

\* Together: what is in the cache after a step was there, or comes from a reader.
LEMMA CacheMoves ==
  ASSUME SafeInv, Work, NEW s \in Slugs, cache'[s] \in Entry
  PROVE  Stays(s) \/ Filled(s)
<1>1. ASSUME NEW w \in Writers, WriterAction(w) PROVE Stays(s)
  BY <1>1, WriterCache, NullAssumption DEF Stays
<1> QED BY <1>1, WorkCases, ReaderCopies, RedisCache

\* A reader that is about to fill has just read, or its time goes on.
LEMMA EntryMoves ==
  ASSUME SafeInv, Work, NEW r \in Readers, pc'[r] = "fill", pc[r] = "fill"
  PROVE  age'[r] = age[r]
<1>1. ASSUME NEW w \in Writers, WriterAction(w) PROVE age'[r] = age[r]
  BY <1>1, WriterFrame DEF SafeInv, ReaderSame
<1>2. ASSUME NEW q \in Readers, ReaderAction(q) PROVE age'[r] = age[r]
  <2>1. q # r
    BY <1>2, ReaderCopies
  <2> QED BY <1>2, <2>1, ReaderFrame DEF SafeInv, ReaderSame
<1>3. CASE Environment
  BY <1>3 DEF Environment, DeadlinePasses, Evict, ForeignFill, readerVars
<1> QED BY <1>1, <1>2, <1>3, WorkCases
-------------------------------------------------------------------------------
(* The lags. *)

\* Work adds no time.
LEMMA LagWork ==
  ASSUME SafeInv, SafeInv', LagInv, Work, LagNext(0)
  PROVE  LagInv'
<1> USE TimeAssumption DEF LagInv
<1>0. /\ cacheLag \in [Slugs -> Nat] /\ entryLag \in [Readers -> Nat]
      /\ ttl \in [Slugs -> Nat] /\ age \in [Readers -> Nat] /\ age' \in [Readers -> Nat]
      /\ ttl' \in [Slugs -> Nat]
  BY DEF LagTypeOK, SafeInv, TypeOK
<1>1. ASSUME NEW s \in Slugs, Stays(s)
      PROVE  FilledBy(s) = {}
  BY <1>1, NullAssumption DEF Stays, FilledBy
<1>2. ASSUME NEW s \in Slugs, Filled(s)
      PROVE  \E r \in Readers :
               /\ cacheLag'[s] = Elapsed(entryLag[r], 0, CacheCurrent(s)')
               /\ entryLag[r] <= FillDelay /\ ttl'[s] = LinkTTL
  <2>1. PICK r \in Readers : /\ pc[r] = "fill" /\ ttl'[s] = LinkTTL
                             /\ FilledBy(s) = {r}
    BY <1>2 DEF Filled
  <2>2. (CHOOSE q \in FilledBy(s) : TRUE) = r
    BY <2>1
  <2>3. age[r] <= FillDelay
    BY <2>1 DEF SafeInv, ReadersOK
  <2>4. entryLag[r] <= FillDelay
    BY <1>0, <2>3 DEF EntryLagOK
  <2> QED BY <2>1, <2>2, <2>4 DEF LagNext
<1>3. ASSUME NEW s \in Slugs, FilledBy(s) = {}
      PROVE  cacheLag'[s] = Elapsed(cacheLag[s], 0, CacheCurrent(s)')
  BY <1>3 DEF LagNext
<1>4. EntriesExpire'
  BY <1>0, CacheMoves DEF EntriesExpire, Stays, Filled
<1>5. ASSUME NEW s \in Slugs PROVE CacheLagOK(s)'
  <2>1. CASE CacheCurrent(s)'
    BY <2>1 DEF CacheLagOK, LagNext, Elapsed
  <2>2. CASE ~ CacheCurrent(s)'
    <3>1. cache'[s] \in Entry
      BY <2>2 DEF CacheCurrent
    <3>2. CASE Filled(s)
      BY <1>0, <1>2, <2>2, <3>2 DEF CacheLagOK, Elapsed
    <3>3. CASE Stays(s)
      <4>1. cacheLag'[s] = cacheLag[s]
        BY <1>0, <1>1, <1>3, <2>2, <3>3 DEF Elapsed
      <4>2. ttl[s] \in 1..LinkTTL
        BY <3>3 DEF Stays, EntriesExpire
      <4> QED BY <1>0, <2>2, <3>3, <4>1, <4>2 DEF CacheLagOK, Stays
    <3> QED BY <3>1, <3>2, <3>3, CacheMoves
  <2> QED BY <2>1, <2>2
<1>6. ASSUME NEW r \in Readers PROVE EntryLagOK(r)'
  <2>1. CASE EntryCurrent(r)'
    BY <2>1 DEF EntryLagOK, LagNext, Elapsed
  <2>2. CASE ~ EntryCurrent(r)'
    <3>1. pc'[r] = "fill" /\ entryLag'[r] = entryLag[r]
      BY <1>0, <2>2 DEF EntryCurrent, LagNext, Elapsed
    <3>2. CASE pc[r] = "fill"
      BY <1>0, <2>2, <3>1, <3>2, EntryMoves DEF EntryLagOK
    <3>3. CASE pc[r] # "fill"
      BY <1>0, <2>2, <3>1, <3>3 DEF EntryLagOK, EntryCurrent
    <3> QED BY <3>2, <3>3
  <2> QED BY <2>1, <2>2
<1>7. LagTypeOK'
  <2>1. ASSUME NEW s \in Slugs PROVE cacheLag'[s] \in Nat
    <3>1. CASE FilledBy(s) = {}
      BY <1>0, <1>3, <3>1 DEF Elapsed
    <3>2. CASE FilledBy(s) # {}
      BY <1>0, <3>2 DEF LagNext, Elapsed, FilledBy
    <3> QED BY <3>1, <3>2
  <2> QED BY <1>0, <2>1 DEF LagTypeOK, LagNext, Elapsed
<1> QED BY <1>4, <1>5, <1>6, <1>7

\* A tick takes from the time to live what it adds to the lag.
LEMMA LagTick ==
  ASSUME SafeInv, LagInv, Tick, LagNext(1)
  PROVE  LagInv'
<1> USE TimeAssumption DEF LagInv
<1>0. /\ cacheLag \in [Slugs -> Nat] /\ entryLag \in [Readers -> Nat]
      /\ ttl \in [Slugs -> Nat] /\ age \in [Readers -> Nat]
  BY DEF LagTypeOK, SafeInv, TypeOK
<1>1. UNCHANGED <<links, pc, slug, entry>>
  BY DEF Tick, db
<1>2. \A s \in Slugs : FilledBy(s) = {}
  BY <1>1 DEF FilledBy
<1>3. /\ \A s \in Slugs : cacheLag'[s] = Elapsed(cacheLag[s], 1, CacheCurrent(s)')
      /\ \A r \in Readers : entryLag'[r] = Elapsed(entryLag[r], 1, EntryCurrent(r)')
  BY <1>2 DEF LagNext
<1>4. ASSUME NEW s \in Slugs, cache'[s] \in Entry
      PROVE  cache'[s] = cache[s] /\ ttl[s] > 1 /\ ttl'[s] = ttl[s] - 1
  BY <1>0, <1>4, NullAssumption DEF Tick
<1>5. EntriesExpire'
  BY <1>0, <1>4 DEF EntriesExpire
<1>6. ASSUME NEW s \in Slugs PROVE CacheLagOK(s)'
  <2>1. CASE CacheCurrent(s)'
    BY <1>3, <2>1 DEF CacheLagOK, Elapsed
  <2>2. CASE ~ CacheCurrent(s)'
    <3>1. cache'[s] \in Entry /\ ~ CacheCurrent(s)
      BY <1>1, <1>4, <2>2 DEF CacheCurrent, Outdated
    <3> QED BY <1>0, <1>3, <1>4, <2>2, <3>1 DEF CacheLagOK, Elapsed
  <2> QED BY <2>1, <2>2
<1>7. ASSUME NEW r \in Readers PROVE EntryLagOK(r)'
  <2>1. CASE EntryCurrent(r)'
    BY <1>3, <2>1 DEF EntryLagOK, Elapsed
  <2>2. CASE ~ EntryCurrent(r)'
    <3>1. pc[r] = "fill" /\ ~ EntryCurrent(r)
      BY <1>1, <2>2 DEF EntryCurrent, Outdated
    <3>2. age'[r] = age[r] + 1
      BY <3>1 DEF Tick
    <3> QED BY <1>0, <1>3, <2>2, <3>1, <3>2 DEF EntryLagOK, Elapsed
  <2> QED BY <2>1, <2>2
<1>8. LagTypeOK'
  BY <1>0, <1>2 DEF LagTypeOK, LagNext, Elapsed
<1> QED BY <1>5, <1>6, <1>7, <1>8

\* A cached link that is not what the database holds has not been that for less
\* than the time to live of an entry and of the read it came from: lost
\* invalidations, evicted tombstones and discarded entries included (EX 60 in
\* add_cached_link, and a GET that does not prolong it).
THEOREM CacheLagIsBounded == LSpec => []CacheLagBounded
<1>1. Init /\ LagInit => SafeInv /\ LagInv
  <2> SUFFICES ASSUME Init, LagInit PROVE LagInv
    BY SafeInit
  <2>1. LagTypeOK /\ EntriesExpire
    BY NullAssumption DEF Init, LagInit, LagTypeOK, EntriesExpire
  <2>2. \A s \in Slugs : CacheLagOK(s)
    BY NullAssumption DEF Init, LagInit, CacheLagOK, CacheCurrent
  <2>3. \A r \in Readers : EntryLagOK(r)
    BY DEF Init, LagInit, EntryLagOK, EntryCurrent, Requests
  <2> QED BY <2>1, <2>2, <2>3 DEF LagInv
<1>2. /\ SafeInv /\ LagInv
      /\ [\/ Work /\ LagNext(0)
          \/ Tick /\ LagNext(1)]_<<vars, lagVars>>
      => SafeInv' /\ LagInv'
  <2> SUFFICES ASSUME SafeInv, LagInv,
                      [\/ Work /\ LagNext(0)
                       \/ Tick /\ LagNext(1)]_<<vars, lagVars>>
               PROVE  SafeInv' /\ LagInv'
    OBVIOUS
  <2>1. SafeInv'
    BY SafeStep DEF Next
  <2>2. CASE UNCHANGED <<vars, lagVars>>
    <3>1. UNCHANGED <<links, cache, ttl, pc, slug, entry, age, cacheLag, entryLag>>
      BY <2>2 DEF vars, db, redis, readerVars, lagVars
    <3> QED BY <2>1, <3>1
            DEF LagInv, LagTypeOK, EntriesExpire, CacheLagOK, CacheCurrent, EntryLagOK,
                EntryCurrent, Outdated
  <2> QED BY <2>1, <2>2, LagWork, LagTick
<1>3. LagInv => CacheLagBounded
  <2> SUFFICES ASSUME LagInv, NEW s \in Slugs PROVE cacheLag[s] < FillDelay + LinkTTL
    BY DEF CacheLagBounded
  <2>1. cacheLag[s] \in Nat /\ CacheLagOK(s) /\ (cache[s] \in Entry => ttl[s] \in 1..LinkTTL)
    BY DEF LagInv, LagTypeOK, EntriesExpire
  <2> QED BY <2>1, TimeAssumption DEF CacheLagOK, CacheCurrent
<1> QED BY <1>1, <1>2, <1>3, PTL DEF LSpec
===============================================================================
