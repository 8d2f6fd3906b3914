---------------------------- MODULE ReadYourWrites ----------------------------
(***************************************************************************)
(* What the owner of a link is promised when a mutation is answered with   *)
(* success: whoever opens the link from then on does not get the version   *)
(* the mutation replaced.  LinkForwarding with history variables that      *)
(* remember which versions were replaced, and which of them each reader    *)
(* may no longer be answered with.                                         *)
(***************************************************************************)
EXTENDS LinkForwarding

VARIABLES
  replaced,   \* the version of each slug that a writer's commit replaced
  dead,       \* versions whose replacement was answered with success
  forbidden   \* the dead versions of its slug when a reader's request began

historyVars == <<replaced, dead, forbidden>>

Current(s) == IF links[s] = Null THEN {} ELSE {FromLink(links[s])}

\* w's answer is a success: it ends after its invalidation, which was not lost.
Succeeds(w) == /\ pc[w] = "invalidate" /\ pc'[w] = "idle"
               /\ \A s \in stale[w] : cache'[s] = Tombstone

\* Versions whose id nothing refers to any more need not be remembered.
Remembered(S) == {e \in S : e.id \notin FreshIds'}

HistoryInit ==
  /\ replaced = [w \in Writers |-> [s \in Slugs |-> {}]]
  /\ dead = [s \in Slugs |-> {}]
  /\ forbidden = [r \in Readers |-> {}]

HistoryNext ==
  /\ replaced' = [w \in Writers |-> [s \in Slugs |->
       IF pc'[w] = "idle" THEN {}
       ELSE IF pc[w] = "commit" /\ linkLock[s] = w THEN Current(s)
       ELSE replaced[w][s]]]
  /\ dead' = [s \in Slugs |->
       Remembered(dead[s] \cup UNION {replaced[w][s] : w \in {v \in Writers : Succeeds(v)}})
         \ Current(s)']
  /\ forbidden' = [r \in Readers |->
       IF pc'[r] = "idle" THEN {}
       ELSE (IF pc[r] = "idle" THEN dead[slug'[r]] ELSE forbidden[r]) \ Current(slug[r])']

HSpec == Init /\ HistoryInit /\ [][Next /\ HistoryNext]_<<vars, historyVars>>

\* A mutation that was answered with success is never undone by a cached copy:
\* no request that starts afterwards decides on a version it replaced.
ReadsSeeAnsweredWrites ==
  \A r \in Readers : pc[r] \in {"decide", "click"} => entry[r] \notin forbidden[r]
===============================================================================
