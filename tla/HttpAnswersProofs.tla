--------------------------- MODULE HttpAnswersProofs ---------------------------
(***************************************************************************)
(* What a client with an HTTP cache is shown, for any number of visits,    *)
(* slugs and links, whatever order the answers arrive in.                  *)
(***************************************************************************)
EXTENDS HttpAnswers, TLAPS

(* The inductive invariant. *)

Requests == Gets \cup Posts

\* The answers that may be shown out of date.
Exceptions == {SlugDoesNotExist, LinkDisabled}

\* A visit that waits for its answer may get whatever is true now,
WaitingOK(t) ==
  /\ pc[t] \in {"sent", "answered", "reused"} => request[t] \in Requests
  /\ pc[t] = "sent" => Possible(request[t], links) \subseteq possible[t]
  /\ pc[t] = "blank" => attempt[t] = 0
  /\ pc[t] = "sent" /\ request[t] = RandomSlug => attempt[t] < Attempts

\* what the API answered was true while it waited,
AnsweredOK(t) == pc[t] = "answered" => answer[t] \in possible[t]

\* and what the cache answers is none of what no_store is for.
ReusedOK(t) == pc[t] = "reused" => answer[t] \in Exceptions

StoredOK == \A v \in Gets : stored[v] \in Exceptions \cup {Null}

AnswersInv ==
  /\ TypeOK
  /\ \A t \in Tabs : WaitingOK(t) /\ AnsweredOK(t) /\ ReusedOK(t)
  /\ StoredOK
-------------------------------------------------------------------------------
(* Requests and answers. *)

\* A request is a visit of a slug or asks for one.
LEMMA RequestForms ==
  ASSUME NEW v \in Requests
  PROVE  /\ v.op = "random" => v = RandomSlug
         /\ v.op # "random" => v.op \in {"forward", "unlock"} /\ v.slug \in Slugs
BY DEF Requests, Gets, Posts, ForwardTo, Unlock, RandomSlug

\* A decision is one of the answers.
LEMMA Decisions ==
  ASSUME NEW l \in Link \cup {Null}, NEW v \in Requests
  PROVE  Decide(l, v) \in Answers
<1>1. l # Null => l.target \in Targets
  BY DEF Link
<1> QED BY <1>1 DEF Decide, Errors, Answers

\* What the API can answer is one of the answers.
LEMMA PossibleAnswers ==
  ASSUME NEW v \in Requests, NEW ls \in [Slugs -> LinkStates \cup {Null}]
  PROVE  Possible(v, ls) \subseteq Answers
<1>1. CASE v.op = "random"
  BY <1>1 DEF Possible, Answers, Errors
<1>2. CASE v.op # "random"
  <2>1. ls[v.slug] \in Link \cup {Null}
    BY <1>2, RequestForms, LinksAssumption
  <2> QED BY <1>2, <2>1, Decisions DEF Possible
<1> QED BY <1>1, <1>2

\* A cache keeps only what is raised without a header.
LEMMA Kept ==
  ASSUME NEW v, NEW a \in Answers, Storable(v, a)
  PROVE  a \in Exceptions
BY DEF Answers, Errors, Storable, Exceptions, SlugDoesNotExist, LinkDisabled, LinkExpired,
       LinkPasswordRequired, LinkPasswordInvalid, RandomSlugGeneration, LinkForward, SlugRead
-------------------------------------------------------------------------------
(* The steps. *)

\* Nothing has been asked to begin with.
LEMMA AnswersInit == Init => AnswersInv
BY LinksAssumption DEF Init, AnswersInv, TypeOK, WaitingOK, AnsweredOK, ReusedOK, StoredOK

\* Whoever waits while a link changes may get either.
LEMMA ChangeLinkStep ==
  ASSUME AnswersInv, NEW s \in Slugs, ChangeLink(s)
  PROVE  AnswersInv'
<1> USE DEF AnswersInv, TypeOK
<1>1. links' \in [Slugs -> LinkStates \cup {Null}]
  BY DEF ChangeLink
<1>2. \A t \in Tabs : pc[t] = "sent" => Possible(request[t], links') \subseteq Answers
  BY <1>1, PossibleAnswers DEF WaitingOK
<1>3. TypeOK'
  BY <1>1, <1>2 DEF ChangeLink
<1>4. \A t \in Tabs : /\ possible[t] \subseteq possible'[t]
                      /\ pc[t] = "sent" => Possible(request[t], links') \subseteq possible'[t]
  BY DEF ChangeLink
<1>5. \A t \in Tabs : WaitingOK(t)' /\ AnsweredOK(t)' /\ ReusedOK(t)'
  BY <1>4 DEF ChangeLink, WaitingOK, AnsweredOK, ReusedOK
<1> QED BY <1>3, <1>5 DEF ChangeLink, StoredOK

\* An answer that is possible ends the wait.
LEMMA RespondStep ==
  ASSUME AnswersInv, NEW t \in Tabs, pc[t] = "sent",
         NEW a \in possible[t], Respond(t, a),
         attempt' \in [Tabs -> 0 .. Attempts], \A u \in Tabs \ {t} : attempt'[u] = attempt[u],
         UNCHANGED <<links, stored, request, possible>>
  PROVE  AnswersInv'
<1> USE DEF AnswersInv, TypeOK
<1>1. TypeOK'
  BY DEF Respond
<1>2. /\ pc'[t] = "answered" /\ answer'[t] = a
      /\ \A u \in Tabs \ {t} : pc'[u] = pc[u] /\ answer'[u] = answer[u]
  BY DEF Respond
<1>3. ASSUME NEW u \in Tabs
      PROVE  WaitingOK(u)' /\ AnsweredOK(u)' /\ ReusedOK(u)'
  BY <1>2 DEF WaitingOK, AnsweredOK, ReusedOK
<1> QED BY <1>1, <1>3 DEF StoredOK

\* What the links decide is possible at that moment.
LEMMA ForwardStep ==
  ASSUME AnswersInv, NEW t \in Tabs, Forward(t)
  PROVE  AnswersInv'
<1> USE DEF AnswersInv, TypeOK
<1>1. /\ pc[t] = "sent" /\ request[t] \in Requests
      /\ request[t].op \in {"forward", "unlock"}
  BY DEF Forward, WaitingOK
<1>2. Decide(links[request[t].slug], request[t]) \in possible[t]
  BY <1>1 DEF WaitingOK, Possible
<1>3. attempt' \in [Tabs -> 0 .. Attempts] /\ \A u \in Tabs \ {t} : attempt'[u] = attempt[u]
  BY DEF Forward
<1> QED BY <1>1, <1>2, <1>3, RespondStep DEF Forward

\* A slug that is suggested is free at that moment.
LEMMA GenerateSlugStep ==
  ASSUME AnswersInv, NEW t \in Tabs, GenerateSlug(t)
  PROVE  AnswersInv'
<1> USE DEF AnswersInv, TypeOK
<1>1. /\ pc[t] = "sent" /\ request[t] = RandomSlug /\ request[t].op = "random"
      /\ attempt[t] < Attempts /\ Attempts \in Nat /\ attempt[t] \in Nat
  BY LinksAssumption DEF GenerateSlug, WaitingOK, RandomSlug
<1>2. UNCHANGED <<links, stored, request, possible>>
  BY DEF GenerateSlug
<1>3. /\ \A s \in Slugs : links[s] = Null => SlugRead(s) \in possible[t]
      /\ \A s \in Slugs : links[s] # Null => RandomSlugGeneration \in possible[t]
  <2>1. Possible(request[t], links) \subseteq possible[t]
    BY <1>1 DEF WaitingOK
  <2>2. Possible(request[t], links) =
          {SlugRead(s) : s \in {x \in Slugs : links[x] = Null}}
            \cup {RandomSlugGeneration : s \in {x \in Slugs : links[x] # Null}}
    BY <1>1 DEF Possible
  <2> QED BY <2>1, <2>2
<1>4. ASSUME NEW s \in Slugs, links[s] = Null, Respond(t, SlugRead(s)), UNCHANGED attempt
      PROVE  AnswersInv'
  BY <1>1, <1>2, <1>3, <1>4, RespondStep
<1>5. ASSUME NEW s \in Slugs, links[s] # Null, attempt' = [attempt EXCEPT ![t] = @ + 1],
             ~ (attempt[t] + 1 < Attempts), Respond(t, RandomSlugGeneration)
      PROVE  AnswersInv'
  BY <1>1, <1>2, <1>3, <1>5, RespondStep
<1>6. ASSUME attempt' = [attempt EXCEPT ![t] = @ + 1], attempt[t] + 1 < Attempts,
             UNCHANGED <<pc, answer>>
      PROVE  AnswersInv'
  BY <1>1, <1>2, <1>6 DEF WaitingOK, AnsweredOK, ReusedOK, StoredOK
<1> QED BY <1>4, <1>5, <1>6 DEF GenerateSlug

\* A visit begins with what is possible at that moment.
LEMMA SendStep ==
  ASSUME AnswersInv, NEW t \in Tabs, NEW v \in Requests, Send(t, v)
  PROVE  AnswersInv'
<1> USE DEF AnswersInv, TypeOK
<1>1. /\ pc[t] = "blank" /\ pc' = [pc EXCEPT ![t] = "sent"]
      /\ request' = [request EXCEPT ![t] = v]
      /\ possible' = [possible EXCEPT ![t] = Possible(v, links)]
      /\ UNCHANGED <<links, stored, attempt, answer>>
  BY DEF Send, Visit
<1>2. Possible(v, links) \subseteq Answers
  BY PossibleAnswers
<1>3. TypeOK'
  BY <1>1, <1>2 DEF Requests
<1>4. \A u \in Tabs : WaitingOK(u)' /\ AnsweredOK(u)' /\ ReusedOK(u)'
  BY <1>1, LinksAssumption DEF WaitingOK, AnsweredOK, ReusedOK
<1> QED BY <1>1, <1>3, <1>4 DEF StoredOK

\* What is reused is what was kept.
LEMMA ReuseStep ==
  ASSUME AnswersInv, NEW t \in Tabs, NEW v \in Gets, Reuse(t, v)
  PROVE  AnswersInv'
<1> USE DEF AnswersInv, TypeOK
<1>1. /\ pc[t] = "blank" /\ pc' = [pc EXCEPT ![t] = "reused"]
      /\ request' = [request EXCEPT ![t] = v]
      /\ possible' = [possible EXCEPT ![t] = Possible(v, links)]
      /\ stored[v] # Null /\ answer' = [answer EXCEPT ![t] = stored[v]]
      /\ UNCHANGED <<links, stored, attempt>>
  BY DEF Reuse, Visit
<1>2. v \in Requests /\ Possible(v, links) \subseteq Answers
  BY PossibleAnswers DEF Requests
<1>3. TypeOK'
  BY <1>1, <1>2
<1>4. \A u \in Tabs : WaitingOK(u)' /\ AnsweredOK(u)' /\ ReusedOK(u)'
  BY <1>1, <1>2 DEF WaitingOK, AnsweredOK, ReusedOK, StoredOK
<1> QED BY <1>1, <1>3, <1>4 DEF StoredOK

\* Nothing stays of a visit that is over.
LEMMA LeaveStep ==
  ASSUME AnswersInv, NEW t \in Tabs, Leave(t),
         stored' \in [Gets -> Answers \cup {Null}], StoredOK'
  PROVE  AnswersInv'
<1> USE DEF AnswersInv, TypeOK, Leave
<1>1. TypeOK'
  BY LinksAssumption
<1>2. \A u \in Tabs : WaitingOK(u)' /\ AnsweredOK(u)' /\ ReusedOK(u)'
  BY DEF WaitingOK, AnsweredOK, ReusedOK
<1> QED BY <1>1, <1>2

\* An answer that arrives may be kept.
LEMMA ArriveStep ==
  ASSUME AnswersInv, NEW t \in Tabs, Arrive(t)
  PROVE  AnswersInv'
<1> USE DEF AnswersInv, TypeOK, Arrive
<1>1. CASE pc[t] = "answered" /\ Storable(request[t], answer[t])
  <2>1. answer[t] \in Answers /\ request[t] \in Gets
    BY <1>1 DEF AnsweredOK, Storable
  <2>2. answer[t] \in Exceptions
    BY <1>1, <2>1, Kept
  <2>3. stored' = [stored EXCEPT ![request[t]] = answer[t]]
    BY <1>1
  <2> QED BY <2>1, <2>2, <2>3, LeaveStep DEF StoredOK
<1>2. CASE stored' = stored
  BY <1>2, LeaveStep DEF StoredOK
<1> QED BY <1>1, <1>2

\* AnswersInv is inductive.
LEMMA AnswersStep == AnswersInv /\ [Next]_vars => AnswersInv'
<1> SUFFICES ASSUME AnswersInv, [Next]_vars PROVE AnswersInv'
  OBVIOUS
<1>1. CASE UNCHANGED vars
  BY <1>1 DEF vars, visitVars, AnswersInv, TypeOK, WaitingOK, AnsweredOK, ReusedOK, StoredOK
<1>2. ASSUME NEW v \in Gets, Drop(v) PROVE AnswersInv'
  BY <1>2 DEF Drop, visitVars, AnswersInv, TypeOK, WaitingOK, AnsweredOK, ReusedOK, StoredOK
<1>3. ASSUME NEW t \in Tabs, Lose(t) PROVE AnswersInv'
  BY <1>3, LeaveStep DEF Lose, AnswersInv, TypeOK, StoredOK
<1> QED BY <1>1, <1>2, <1>3, ChangeLinkStep, ForwardStep, GenerateSlugStep, SendStep, ReuseStep,
           ArriveStep DEF Next, Requests

\* AnswersInv holds in every reachable state.
LEMMA AnswersAlways == Spec => []AnswersInv
BY AnswersInit, AnswersStep, PTL DEF Spec
-------------------------------------------------------------------------------
(* The theorems. *)

\* Every variable keeps its type: no random slug is looked for more often than
\* maximum_unused_random_slug_generation_attempts.
THEOREM AnswersTyped == Spec => []TypeOK
<1>1. AnswersInv => TypeOK
  BY DEF AnswersInv
<1> QED BY <1>1, AnswersAlways, PTL

\* Nobody is shown what was not true since he asked, but for the two errors that
\* exceptions.py raises without a Cache-Control header.
THEOREM AnswersStayCurrent == Spec => []AnswersAreCurrent
<1>1. AnswersInv => AnswersAreCurrent
  BY DEF AnswersInv, AnsweredOK, ReusedOK, Exceptions, AnswersAreCurrent, Shown, TypeOK
<1> QED BY <1>1, AnswersAlways, PTL
===============================================================================
