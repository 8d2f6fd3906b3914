---------------------------- MODULE TokenLifecycle ----------------------------
(***************************************************************************)
(* What sign-in promises: accounts, login tokens and refresh tokens change *)
(* one whole operation at a time, as if no two requests ever overlapped.   *)
(*                                                                         *)
(* A token that is exchanged or revoked was unexpired a moment before, when*)
(* its row was updated; how time passes is left to AuthTokens.             *)
(***************************************************************************)
CONSTANTS Emails, UserIds, LoginValues, RefreshValues, Null

Keys == UserIds \cup LoginValues \cup RefreshValues

VARIABLE db   \* the account, login token or refresh token of each key, or Null

LoginsTo(e) == {v \in LoginValues : db[v] # Null /\ db[v].email = e}
RefreshesFor(u) == {v \in RefreshValues : db[v] # Null /\ db[v].user = u}

Init == db = [k \in Keys |-> Null]

Issue(v, e) ==
  /\ db[v] = Null
  /\ db' = [db EXCEPT ![v] = [email |-> e, used |-> FALSE]]

Exchange(v, u, f, s) ==
  /\ ~ db[v].used
  /\ db[f] = Null
  /\ db' = [db EXCEPT
       ![v].used = TRUE,
       ![f] = [user |-> u, used |-> FALSE, revoked |-> FALSE, origin |-> v, sign_in |-> s]]

\* A login token is exchanged once, for the first refresh token of a chain ...
SignIn(v, u, f) ==
  /\ db[v] # Null /\ db[u] = db[v].email
  /\ Exchange(v, u, f, v)

\* ... and the account of its email comes into being then if there is none.
SignUp(v, u, f) ==
  /\ db[v] # Null /\ ~ db[v].used
  /\ \A x \in UserIds : db[x] # db[v].email
  /\ db[u] = Null /\ RefreshesFor(u) = {}
  /\ db[f] = Null
  /\ db' = [db EXCEPT
       ![u] = db[v].email,
       ![v].used = TRUE,
       ![f] = [user |-> u, used |-> FALSE, revoked |-> FALSE, origin |-> v, sign_in |-> v]]

\* A refresh token is exchanged once, for its successor in the chain.
Rotate(v, f) ==
  /\ db[v] # Null /\ ~ db[v].revoked
  /\ Exchange(v, db[v].user, f, db[v].sign_in)

Revoke(v) ==
  /\ db[v] # Null /\ ~ db[v].used /\ ~ db[v].revoked
  /\ db' = [db EXCEPT ![v].revoked = TRUE]

\* An account goes with all its refresh tokens and with the login tokens of its
\* email, except unused ones that were issued while it was being deleted.
DeleteAccount(u) ==
  /\ db[u] # Null
  /\ \E kept \in SUBSET {v \in LoginsTo(db[u]) : ~ db[v].used} :
       db' = [k \in Keys |->
                IF k \in {u} \cup RefreshesFor(u) \cup (LoginsTo(db[u]) \ kept)
                THEN Null ELSE db[k]]

\* What changes nothing is no operation.
Next ==
  /\ db' # db
  /\ \/ \E v \in LoginValues, e \in Emails : Issue(v, e)
     \/ \E v \in LoginValues, u \in UserIds, f \in RefreshValues :
          SignIn(v, u, f) \/ SignUp(v, u, f)
     \/ \E v, f \in RefreshValues : Rotate(v, f)
     \/ \E v \in RefreshValues : Revoke(v)
     \/ \E u \in UserIds : DeleteAccount(u)

Spec == Init /\ [][Next]_db
===============================================================================
