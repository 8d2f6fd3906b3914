----------------------------- MODULE LinkRegister -----------------------------
(***************************************************************************)
(* What link management promises: accounts, links and clicks change one    *)
(* whole operation at a time, as if no two requests ever overlapped.       *)
(*                                                                         *)
(* An update takes effect on the row as it is at that moment.  Which of    *)
(* the patch's fields it sets is left open: the code leaves out those that *)
(* agree with what it loaded earlier (see UpdatesAreKept).                 *)
(***************************************************************************)
EXTENDS Naturals, FiniteSets

CONSTANTS Users, Slugs, Ids, Creations, Patches, LinkLimit, Null, Keep

VARIABLES
  users,   \* the accounts
  links,   \* the link of each slug, or Null
  clicks   \* the links that have been clicked

register == <<users, links, clicks>>

Existing == {s \in Slugs : links[s] # Null}
LinksOf(u) == {s \in Existing : links[s].user = u}
IdsOf(S) == {links[s].id : s \in S}

\* The row a user's request body makes.
Created(u, c, i) ==
  [id |-> i, user |-> u, target |-> c.target, status |-> c.status,
   expires_at |-> c.expires_at, password |-> c.password]

\* Rows that take each field from the old one or from the patch, if it sets it;
\* id and owner are never among the fields.
Choice(new, old) == IF new = Keep THEN {old} ELSE {new, old}

Updates(l, p) ==
  {[l EXCEPT !.target = t, !.status = a, !.expires_at = d, !.password = k] :
     t \in Choice(p.target, l.target), a \in Choice(p.status, l.status),
     d \in Choice(p.expires_at, l.expires_at), k \in Choice(p.password, l.password)}

Init ==
  /\ users = Users
  /\ links = [s \in Slugs |-> Null]
  /\ clicks = {}

\* The id is new: no click of an earlier link counts for this one.
Create(u, s, c) ==
  /\ u \in users
  /\ links[s] = Null
  /\ Cardinality(LinksOf(u)) < LinkLimit
  /\ \E i \in Ids \ (IdsOf(Existing) \cup clicks) :
       links' = [links EXCEPT ![s] = Created(u, c, i)]
  /\ UNCHANGED <<users, clicks>>

Update(s, p) ==
  /\ links[s] # Null
  /\ \E l \in Updates(links[s], p) : links' = [links EXCEPT ![s] = l]
  /\ UNCHANGED <<users, clicks>>

\* Links go with their clicks.
Remove(S) ==
  /\ links' = [s \in Slugs |-> IF s \in S THEN Null ELSE links[s]]
  /\ clicks' = clicks \ IdsOf(S)

Delete(s) ==
  /\ links[s] # Null
  /\ Remove({s})
  /\ UNCHANGED users

\* An account goes with all its links, and no other link.
DeleteUser(u) ==
  /\ u \in users
  /\ users' = users \ {u}
  /\ Remove(LinksOf(u))

Click(s) ==
  /\ links[s] # Null
  /\ clicks' = clicks \cup {links[s].id}
  /\ UNCHANGED <<users, links>>

Next ==
  \/ \E u \in Users, s \in Slugs, c \in Creations : Create(u, s, c)
  \/ \E s \in Slugs, p \in Patches : Update(s, p)
  \/ \E s \in Slugs : Delete(s) \/ Click(s)
  \/ \E u \in Users : DeleteUser(u)

Spec == Init /\ [][Next]_register
===============================================================================
