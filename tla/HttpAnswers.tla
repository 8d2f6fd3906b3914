----------------------------- MODULE HttpAnswers -----------------------------
(***************************************************************************)
(* What a client sees that keeps answers in an HTTP cache: forward and     *)
(* unlock of a link and the suggestion of a random slug, as answers with a *)
(* status and a Cache-Control header, and the cache that may answer in the *)
(* API's place.                                                            *)
(*                                                                         *)
(* A step is one lookup, one answer or one arrival, and links change       *)
(* between any two of them.  A link is what a request decides on;          *)
(* LinkForwarding has the statements that lead there.                      *)
(***************************************************************************)
EXTENDS Naturals

CONSTANTS
  Tabs,       \* concurrent visits of one client
  Slugs,
  Targets,    \* links.target_url
  Passwords,  \* the passwords a link can be protected with
  LinkStates, \* the links there can be
  Attempts,   \* maximum_unused_random_slug_generation_attempts
  Null        \* no link, no password, no slug, nothing stored

Link == [target: Targets, status: {"active", "disabled"}, expired: BOOLEAN,
         password: Passwords \cup {Null}]

ASSUME LinksAssumption ==
  /\ LinkStates \subseteq Link
  /\ Attempts \in Nat \ {0}
  /\ Null \notin Link \cup Slugs \cup Passwords

VARIABLES
  links,     \* the link of each slug, or Null
  stored,    \* the answer the client's cache holds for each GET request, or Null
  pc,        \* where each visit is
  request,   \* what it asks for
  attempt,   \* random slugs that were found taken
  answer,    \* what it is answered
  possible   \* history: what the API could have answered since the visit began

visitVars == <<pc, request, attempt, answer, possible>>
vars == <<links, stored, visitVars>>
-------------------------------------------------------------------------------
(* Requests and answers. *)

ForwardTo(s) == [op |-> "forward", slug |-> s, password |-> Null]
Unlock(s, p) == [op |-> "unlock", slug |-> s, password |-> p]
RandomSlug == [op |-> "random", slug |-> Null, password |-> Null]

Gets == {RandomSlug} \cup {ForwardTo(s) : s \in Slugs}
Posts == {Unlock(s, p) : s \in Slugs, p \in Passwords}

\* A header that the endpoint or its dependency sets goes out with a success
\* only: an HTTPException is a response of its own, with its own headers.
SlugDoesNotExist == [status |-> 404, body |-> "slug_does_not_exist", no_store |-> FALSE]
LinkDisabled == [status |-> 410, body |-> "link_disabled", no_store |-> FALSE]

\* Mutant: raised without headers, like LinkDisabled.
LinkExpired_NoHeader == [status |-> 410, body |-> "link_expired", no_store |-> FALSE]

LinkExpired == [status |-> 410, body |-> "link_expired", no_store |-> TRUE]

LinkPasswordRequired ==
  [status |-> 401, body |-> "link_password_required", no_store |-> TRUE]
LinkPasswordInvalid ==
  [status |-> 401, body |-> "link_password_invalid", no_store |-> TRUE]
RandomSlugGeneration ==
  [status |-> 503, body |-> "random_slug_generation_failed", no_store |-> TRUE]

LinkForward(target) == [status |-> 200, body |-> target, no_store |-> TRUE]

SlugRead(s) == [status |-> 200, body |-> s, no_store |-> TRUE]

Errors == {SlugDoesNotExist, LinkDisabled, LinkExpired, LinkPasswordRequired,
           LinkPasswordInvalid, RandomSlugGeneration}
Answers == Errors \cup {LinkForward(t) : t \in Targets} \cup {SlugRead(s) : s \in Slugs}

\* get_cached_link, then the password.
Decide(l, v) ==
  IF l = Null THEN SlugDoesNotExist
  ELSE IF l.status = "disabled" THEN LinkDisabled
  ELSE IF l.expired THEN LinkExpired
  ELSE IF l.password \in {Null, v.password} THEN LinkForward(l.target)
  ELSE IF v.op = "unlock" THEN LinkPasswordInvalid
  ELSE LinkPasswordRequired

\* What the API can answer to v when the links are ls.
Possible(v, ls) ==
  IF v.op = "random"
  THEN {SlugRead(s) : s \in {x \in Slugs : ls[x] = Null}}
         \cup {RandomSlugGeneration : s \in {x \in Slugs : ls[x] # Null}}
  ELSE {Decide(ls[v.slug], v)}

\* RFC 9111, 3 and 4.2.2, and RFC 9110, 15.1: without a header of their own,
\* answers with these statuses may be stored and reused for as long as the
\* cache sees fit.
Storable(v, a) == v \in Gets /\ a.status \in {200, 404, 410} /\ ~ a.no_store

TypeOK ==
  /\ links \in [Slugs -> LinkStates \cup {Null}]
  /\ stored \in [Gets -> Answers \cup {Null}]
  /\ pc \in [Tabs -> {"blank", "sent", "answered", "reused"}]
  /\ request \in [Tabs -> Gets \cup Posts \cup {Null}]
  /\ attempt \in [Tabs -> 0 .. Attempts]
  /\ answer \in [Tabs -> Answers \cup {Null}]
  /\ possible \in [Tabs -> SUBSET Answers]

Init ==
  /\ links = [s \in Slugs |-> Null]
  /\ stored = [v \in Gets |-> Null]
  /\ pc = [t \in Tabs |-> "blank"]
  /\ request = [t \in Tabs |-> Null]
  /\ attempt = [t \in Tabs |-> 0]
  /\ answer = [t \in Tabs |-> Null]
  /\ possible = [t \in Tabs |-> {}]
-------------------------------------------------------------------------------
(* The API. *)

\* A link is created, changed or deleted, or its deadline passes.
ChangeLink(s) ==
  /\ \E l \in (LinkStates \cup {Null}) \ {links[s]} : links' = [links EXCEPT ![s] = l]
  /\ possible' = [t \in Tabs |-> IF pc[t] = "sent"
                                 THEN possible[t] \cup Possible(request[t], links')
                                 ELSE possible[t]]
  /\ UNCHANGED <<stored, pc, request, attempt, answer>>

Respond(t, a) ==
  /\ pc' = [pc EXCEPT ![t] = "answered"]
  /\ answer' = [answer EXCEPT ![t] = a]

\* forward_to_target_url_endpoint, unlock_target_url_endpoint.  The target goes
\* out whether its click could be recorded or not: a SQLAlchemyError of
\* create_click is suppressed.  The click is RecordClick of LinkForwarding.
Forward(t) ==
  /\ pc[t] = "sent" /\ request[t].op \in {"forward", "unlock"}
  /\ Respond(t, Decide(links[request[t].slug], request[t]))
  /\ UNCHANGED <<links, stored, request, attempt, possible>>

\* Mutant: one attempt too many.
GenerateSlug_OneMore(t) ==
  /\ pc[t] = "sent" /\ request[t] = RandomSlug
  /\ \/ \E s \in Slugs : links[s] = Null /\ Respond(t, SlugRead(s))
        /\ UNCHANGED attempt
     \/ /\ \E s \in Slugs : links[s] # Null
        /\ attempt' = [attempt EXCEPT ![t] = @ + 1]
        /\ IF attempt[t] < Attempts
           THEN UNCHANGED <<pc, answer>>
           ELSE Respond(t, RandomSlugGeneration)
  /\ UNCHANGED <<links, stored, request, possible>>

\* generate_unused_random_slug: a longer slug is drawn whenever one is taken.
GenerateSlug(t) ==
  /\ pc[t] = "sent" /\ request[t] = RandomSlug
  /\ \/ \E s \in Slugs : links[s] = Null /\ Respond(t, SlugRead(s))
        /\ UNCHANGED attempt
     \/ /\ \E s \in Slugs : links[s] # Null
        /\ attempt' = [attempt EXCEPT ![t] = @ + 1]
        /\ IF attempt[t] + 1 < Attempts
           THEN UNCHANGED <<pc, answer>>
           ELSE Respond(t, RandomSlugGeneration)
  /\ UNCHANGED <<links, stored, request, possible>>
-------------------------------------------------------------------------------
(* The client and its cache. *)

Visit(t, v) ==
  /\ pc[t] = "blank"
  /\ request' = [request EXCEPT ![t] = v]
  /\ possible' = [possible EXCEPT ![t] = Possible(v, links)]
  /\ UNCHANGED <<links, stored, attempt>>

Send(t, v) ==
  /\ Visit(t, v)
  /\ pc' = [pc EXCEPT ![t] = "sent"]
  /\ UNCHANGED answer

Reuse(t, v) ==
  /\ stored[v] # Null
  /\ Visit(t, v)
  /\ pc' = [pc EXCEPT ![t] = "reused"]
  /\ answer' = [answer EXCEPT ![t] = stored[v]]

Leave(t) ==
  /\ pc' = [pc EXCEPT ![t] = "blank"]
  /\ request' = [request EXCEPT ![t] = Null]
  /\ attempt' = [attempt EXCEPT ![t] = 0]
  /\ answer' = [answer EXCEPT ![t] = Null]
  /\ possible' = [possible EXCEPT ![t] = {}]
  /\ UNCHANGED links

\* The answer arrives, after or before answers that were given earlier.
Arrive(t) ==
  /\ pc[t] \in {"answered", "reused"}
  /\ stored' = IF pc[t] = "answered" /\ Storable(request[t], answer[t])
               THEN [stored EXCEPT ![request[t]] = answer[t]]
               ELSE stored
  /\ Leave(t)

\* The request or its answer is lost, or the API fails; a status 500 is not kept.
Lose(t) == pc[t] \in {"sent", "answered"} /\ Leave(t) /\ UNCHANGED stored

Drop(v) ==
  /\ stored[v] # Null
  /\ stored' = [stored EXCEPT ![v] = Null]
  /\ UNCHANGED <<links, visitVars>>

Next ==
  \/ \E s \in Slugs : ChangeLink(s)
  \/ \E t \in Tabs : \/ \E v \in Gets \cup Posts : Send(t, v)
                     \/ \E v \in Gets : Reuse(t, v)
                     \/ Forward(t) \/ GenerateSlug(t) \/ Arrive(t) \/ Lose(t)
  \/ \E v \in Gets : Drop(v)

Spec == Init /\ [][Next]_vars
-------------------------------------------------------------------------------
(* Properties. *)

Shown(t) == pc[t] \in {"answered", "reused"}

\* Nobody sees an answer that the API could not have given since the visit
\* began: no target of a link that has been changed, protected or taken away
\* meanwhile, no expiry that was lifted, no slug that has been used.  Excepted
\* are the two errors that are raised without a header: that a link is disabled
\* or does not exist may be shown long after it is so no more.
AnswersAreCurrent ==
  \A t \in Tabs : Shown(t) => \/ answer[t] \in possible[t]
                              \/ answer[t] \in {SlugDoesNotExist, LinkDisabled}
===============================================================================
