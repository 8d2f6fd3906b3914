--------------------------- MODULE BoundedStaleness ---------------------------
(***************************************************************************)
(* How old a cached link can be when invalidations get lost, tombstones    *)
(* are evicted and foreign entries are discarded: LinkForwarding with      *)
(* history variables that count for how long each copy of a link has not   *)
(* been what the database holds.                                           *)
(***************************************************************************)
EXTENDS LinkForwarding

VARIABLES
  cacheLag,   \* ticks since the cached link was last the committed one
  entryLag    \* the same for the copy a reader is about to fill

lagVars == <<cacheLag, entryLag>>

Elapsed(lag, tick, current) == IF current THEN 0 ELSE lag + tick

CacheCurrent(s) == cache[s] \notin Entry \/ ~ Outdated(cache[s], s)
EntryCurrent(r) == pc[r] # "fill" \/ ~ Outdated(entry[r], slug[r])

\* A copy that is put into the cache brings its lag with it.
FilledBy(s) == {r \in Readers : pc[r] = "fill" /\ pc'[r] = "decide" /\ slug[r] = s
                                /\ cache[s] = Null /\ cache'[s] # Null}

LagInit ==
  /\ cacheLag = [s \in Slugs |-> 0]
  /\ entryLag = [r \in Readers |-> 0]

LagNext(tick) ==
  /\ cacheLag' = [s \in Slugs |->
       Elapsed(IF FilledBy(s) = {} THEN cacheLag[s]
               ELSE entryLag[CHOOSE r \in FilledBy(s) : TRUE],
               tick, CacheCurrent(s)')]
  /\ entryLag' = [r \in Readers |-> Elapsed(entryLag[r], tick, EntryCurrent(r)')]

LSpec ==
  Init /\ LagInit /\ [][\/ Work /\ LagNext(0)
                        \/ Tick /\ LagNext(1)]_<<vars, lagVars>>

\* Whatever goes wrong with the invalidation, a cached link is no older than
\* the time to live of an entry and of the read it was filled from: no hit
\* prolongs it.
CacheLagBounded ==
  \A s \in Slugs : cacheLag[s] < FillDelay + LinkTTL
===============================================================================
