------------------------------ MODULE AuthTokens ------------------------------
(***************************************************************************)
(* Accounts, login tokens and refresh tokens in PostgreSQL, and the        *)
(* requests that issue, exchange, rotate, revoke and delete them.          *)
(*                                                                         *)
(* One action is one SQL statement.  The rows of the three tables are keyed*)
(* by one set of keys: db is what is committed, draft what the transaction *)
(* that holds a row (or its unique key) has made of it, lock that          *)
(* transaction.  READ COMMITTED: a statement sees db and its own drafts,   *)
(* and waits (its action is disabled) for a row another transaction holds. *)
(***************************************************************************)
EXTENDS Naturals, FiniteSets

CONSTANTS
  Requests,      \* slots for concurrent requests
  Emails,
  UserIds,       \* users.id
  LoginValues,   \* login token values; the code stores their hashes
  RefreshValues, \* refresh token values; the code stores their hashes
  Null           \* no row, no value, a free lock

Keys == UserIds \cup LoginValues \cup RefreshValues

ASSUME KeysAssumption ==
  /\ UserIds \cap LoginValues = {}
  /\ UserIds \cap RefreshValues = {}
  /\ LoginValues \cap RefreshValues = {}

\* Of a user only the email matters here.
UserRow == Emails

LoginRow == [email: Emails, used: BOOLEAN]

\* origin and sign_in are no columns: they record the token a row was issued
\* for, and the login token its chain of rotations began with.
RefreshRow == [user: UserIds, used: BOOLEAN, revoked: BOOLEAN,
               origin: LoginValues \cup RefreshValues, sign_in: LoginValues]

ASSUME NullAssumption ==
  Null \notin Requests \cup Keys \cup UserRow \cup LoginRow \cup RefreshRow

VARIABLES
  db,       \* the committed rows, Null where there is none
  draft,    \* the version a lock's holder will commit
  lock,     \* the transaction that holds the row
  expired,  \* the token values whose expires_at lies in the past
  pc,       \* the statement each request comes to next
  op,       \* its endpoint
  value,    \* the token value it was given
  email,    \* the email it was given, or the login token's
  uid       \* the user id it found, inserted or authenticated

table == <<db, draft, lock>>
locals == <<op, value, email, uid>>
vars == <<table, expired, pc, locals>>

Ops == {"request", "verify", "refresh", "revoke", "delete"}

\* The statements of each endpoint, in order.
RequestOrder ==
  [begin |-> "insert_login", insert_login |-> "commit"]

VerifyOrder ==
  [begin |-> "lookup_login", lookup_login |-> "find_user",
   find_user |-> "lock_user", insert_user |-> "lock_user", reread_user |-> "lock_user",
   lock_user |-> "consume_login", consume_login |-> "insert_refresh",
   insert_refresh |-> "commit"]

RefreshOrder ==
  [begin |-> "lookup_refresh", lookup_refresh |-> "lock_user",
   lock_user |-> "consume_refresh", consume_refresh |-> "insert_refresh",
   insert_refresh |-> "commit"]

RevokeOrder ==
  [begin |-> "revoke_refresh", revoke_refresh |-> "commit"]

\* Mutant: account deletion takes the login tokens before the user row.
DeleteOrder_TokensFirst ==
  [begin |-> "delete_logins", delete_logins |-> "lock_user",
   lock_user |-> "delete_user", delete_user |-> "commit"]

DeleteOrder ==
  [begin |-> "lock_user", lock_user |-> "delete_logins",
   delete_logins |-> "delete_user", delete_user |-> "commit"]

Then == [request |-> RequestOrder, verify |-> VerifyOrder, refresh |-> RefreshOrder,
         revoke |-> RevokeOrder, delete |-> DeleteOrder]

Steps == {"idle", "insert_login", "lookup_login", "find_user", "insert_user",
          "reread_user", "lock_user", "consume_login", "lookup_refresh",
          "consume_refresh", "insert_refresh", "revoke_refresh",
          "delete_logins", "delete_user", "commit", "unhandled"}

TypeOK ==
  /\ db \in [Keys -> UserRow \cup LoginRow \cup RefreshRow \cup {Null}]
  /\ draft \in [Keys -> UserRow \cup LoginRow \cup RefreshRow \cup {Null}]
  /\ \A u \in UserIds : {db[u], draft[u]} \subseteq UserRow \cup {Null}
  /\ \A v \in LoginValues : {db[v], draft[v]} \subseteq LoginRow \cup {Null}
  /\ \A v \in RefreshValues : {db[v], draft[v]} \subseteq RefreshRow \cup {Null}
  /\ lock \in [Keys -> Requests \cup {Null}]
  /\ expired \subseteq LoginValues \cup RefreshValues
  /\ pc \in [Requests -> Steps]
  /\ op \in [Requests -> Ops \cup {Null}]
  /\ value \in [Requests -> LoginValues \cup RefreshValues \cup {Null}]
  /\ email \in [Requests -> Emails \cup {Null}]
  /\ uid \in [Requests -> UserIds \cup {Null}]

Init ==
  /\ db = [k \in Keys |-> Null]
  /\ draft = [k \in Keys |-> Null]
  /\ lock = [k \in Keys |-> Null]
  /\ expired = {}
  /\ pc = [q \in Requests |-> "idle"]
  /\ op = [q \in Requests |-> Null]
  /\ value = [q \in Requests |-> Null]
  /\ email = [q \in Requests |-> Null]
  /\ uid = [q \in Requests |-> Null]
-------------------------------------------------------------------------------
(* Rows, locks and transactions. *)

Goto(q, step) == pc' = [pc EXCEPT ![q] = step]
Advance(q) == Goto(q, Then[op[q]][pc[q]])

\* What a statement of q sees of a row.
Sees(q, k) == IF lock[k] = q THEN draft[k] ELSE db[k]

Free(q, k) == lock[k] \in {q, Null}

Write(q, k, row) ==
  /\ lock' = [lock EXCEPT ![k] = q]
  /\ draft' = [draft EXCEPT ![k] = row]
  /\ UNCHANGED db

Delete(q, S) ==
  /\ lock' = [k \in Keys |-> IF k \in S THEN q ELSE lock[k]]
  /\ draft' = [k \in Keys |-> IF k \in S THEN Null ELSE draft[k]]
  /\ UNCHANGED db

Release(q) ==
  /\ lock' = [k \in Keys |-> IF lock[k] = q THEN Null ELSE lock[k]]
  /\ draft' = [k \in Keys |-> IF lock[k] = q THEN Null ELSE draft[k]]

End(q) ==
  /\ Goto(q, "idle")
  /\ op' = [op EXCEPT ![q] = Null]
  /\ value' = [value EXCEPT ![q] = Null]
  /\ email' = [email EXCEPT ![q] = Null]
  /\ uid' = [uid EXCEPT ![q] = Null]

\* async with session.begin(): an exception rolls the transaction back.
Rollback(q) ==
  /\ Release(q)
  /\ End(q)
  /\ UNCHANGED <<db, expired>>

\* A token value or uuid that is neither stored nor still in anyone's hands.
\* Random values do not recur; one that is stored costs the code an attempt.
Fresh(k) ==
  /\ db[k] = Null /\ lock[k] = Null
  /\ \A q \in Requests : value[q] # k /\ uid[q] # k
  /\ \A v \in RefreshValues : db[v] # Null => db[v].user # k

Stored(S) == {k \in S : db[k] # Null}
UsersWith(e) == {u \in UserIds : db[u] = e}

\* Mutant: used_at IS NULL is missing from the condition.
Valid_UsedToo(v) == db[v] # Null /\ v \notin expired

\* What the conditions of the three UPDATEs have in common.
Valid(v) == db[v] # Null /\ ~ db[v].used /\ v \notin expired
-------------------------------------------------------------------------------
(* The endpoints. *)

Begin(q, o, v, e, u) ==
  /\ pc[q] = "idle"
  /\ op' = [op EXCEPT ![q] = o]
  /\ value' = [value EXCEPT ![q] = v]
  /\ email' = [email EXCEPT ![q] = e]
  /\ uid' = [uid EXCEPT ![q] = u]
  /\ Goto(q, Then[o].begin)
  /\ UNCHANGED <<table, expired>>

RequestLoginToken(q, e) == Begin(q, "request", Null, e, Null)
VerifyLoginToken(q, v) == Begin(q, "verify", v, Null, Null)
RotateRefreshToken(q, v) == Begin(q, "refresh", v, Null, Null)
RevokeRefreshToken(q, v) == Begin(q, "revoke", v, Null, Null)

\* An access token names the user; the row is read, without a lock, to see that
\* the account still exists.
Authenticated(u) == db[u] # Null

\* The email of the row read is the one whose login tokens go.
DeleteAccount(q, u) == Authenticated(u) /\ Begin(q, "delete", Null, db[u], u)

\* INSERT INTO login_tokens, in a savepoint per attempt.  The value goes out by
\* mail after the commit.  Five collisions in a row are an error.
InsertLogin(q) ==
  /\ pc[q] = "insert_login"
  /\ \/ \E v \in LoginValues :
          /\ Fresh(v)
          /\ Write(q, v, [email |-> email[q], used |-> FALSE])
          /\ expired' = expired \ {v}
          /\ Advance(q)
          /\ UNCHANGED locals
     \/ Stored(LoginValues) # {} /\ Rollback(q)

\* Mutant: the row is taken for its email.
LookupLogin_WholeRow(q) ==
  /\ pc[q] = "lookup_login"
  /\ db[value[q]] # Null
  /\ email' = [email EXCEPT ![q] = db[value[q]]]
  /\ Advance(q)
  /\ UNCHANGED <<table, expired, op, value, uid>>

\* SELECT by hash, whatever the row's state.
LookupLogin(q) ==
  /\ pc[q] = "lookup_login"
  /\ IF db[value[q]] = Null
     THEN Rollback(q)
     ELSE /\ email' = [email EXCEPT ![q] = db[value[q]].email]
          /\ Advance(q)
          /\ UNCHANGED <<table, expired, op, value, uid>>

\* get_or_create_user_without_commit: the account of the email, if there is one.
FindUser(q) ==
  /\ pc[q] = "find_user"
  /\ \/ /\ UsersWith(email[q]) = {}
        /\ Goto(q, "insert_user")
        /\ UNCHANGED uid
     \/ \E u \in UsersWith(email[q]) :
          /\ uid' = [uid EXCEPT ![q] = u]
          /\ Advance(q)
  /\ UNCHANGED <<table, expired, op, value, email>>

\* INSERT INTO users in a savepoint.  The unique index on email waits for a
\* transaction that is inserting or deleting a user with that email.
InsertUser(q) ==
  /\ pc[q] = "insert_user"
  /\ \A u \in UserIds :
       ~ Free(q, u) => /\ db[u] = Null => draft[u] # email[q]
                       /\ db[u] = email[q] => draft[u] # Null
  /\ \/ /\ UsersWith(email[q]) = {}
        /\ \E u \in UserIds : /\ Fresh(u)
                              /\ Write(q, u, email[q])
                              /\ uid' = [uid EXCEPT ![q] = u]
        /\ Advance(q)
     \/ /\ UsersWith(email[q]) # {}
        /\ Goto(q, "reread_user")
        /\ UNCHANGED <<table, uid>>
  /\ UNCHANGED <<expired, op, value, email>>

\* The IntegrityError's user is read again: by now it may be gone, and no
\* handler of the endpoint expects that error.
RereadUser(q) ==
  /\ pc[q] = "reread_user"
  /\ \/ /\ UsersWith(email[q]) = {}
        /\ Goto(q, "unhandled")
        /\ UNCHANGED uid
     \/ \E u \in UsersWith(email[q]) :
          /\ uid' = [uid EXCEPT ![q] = u]
          /\ Advance(q)
  /\ UNCHANGED <<table, expired, op, value, email>>

Unhandled(q) == pc[q] = "unhandled" /\ Rollback(q)

\* Mutant: a plain SELECT.
LockUser_NoLock(q) ==
  /\ pc[q] = "lock_user"
  /\ IF Sees(q, uid[q]) = Null
     THEN Rollback(q)
     ELSE /\ Advance(q)
          /\ UNCHANGED <<table, expired, locals>>

\* SELECT ... FROM users WHERE id = ... FOR UPDATE.
LockUser(q) ==
  /\ pc[q] = "lock_user"
  /\ IF Sees(q, uid[q]) = Null
     THEN Rollback(q)
     ELSE /\ Free(q, uid[q])
          /\ Write(q, uid[q], Sees(q, uid[q]))
          /\ Advance(q)
          /\ UNCHANGED <<expired, locals>>

\* Mutant: an invalid token ends the transaction with a commit.
ConsumeLogin_CommitsFailure(q) ==
  /\ pc[q] = "consume_login"
  /\ Free(q, value[q])
  /\ IF Valid(value[q])
     THEN /\ Write(q, value[q], [db[value[q]] EXCEPT !.used = TRUE])
          /\ Advance(q)
          /\ UNCHANGED locals
     ELSE /\ db' = [k \in Keys |-> Sees(q, k)]
          /\ Release(q)
          /\ End(q)
  /\ UNCHANGED expired

\* UPDATE login_tokens SET used_at WHERE the value is unused and not expired.
\* The condition is evaluated once the row is free.
ConsumeLogin(q) ==
  /\ pc[q] = "consume_login"
  /\ Free(q, value[q])
  /\ IF Valid(value[q])
     THEN /\ Write(q, value[q], [db[value[q]] EXCEPT !.used = TRUE])
          /\ Advance(q)
          /\ UNCHANGED <<expired, locals>>
     ELSE Rollback(q)

LookupRefresh(q) ==
  /\ pc[q] = "lookup_refresh"
  /\ IF db[value[q]] = Null
     THEN Rollback(q)
     ELSE /\ uid' = [uid EXCEPT ![q] = db[value[q]].user]
          /\ Advance(q)
          /\ UNCHANGED <<table, expired, op, value, email>>

\* Mutant: rotation updates the token whatever became of it since the lookup.
ConsumeRefresh_Unconditional(q) ==
  /\ pc[q] = "consume_refresh"
  /\ Free(q, value[q])
  /\ IF db[value[q]] # Null
     THEN /\ Write(q, value[q], [db[value[q]] EXCEPT !.used = TRUE])
          /\ Advance(q)
          /\ UNCHANGED <<expired, locals>>
     ELSE Rollback(q)

\* UPDATE refresh_tokens SET used_at, and SET revoked_at: both require a token
\* that is neither used, nor revoked, nor expired.
ConsumeRefresh(q) ==
  /\ pc[q] = "consume_refresh"
  /\ Free(q, value[q])
  /\ IF Valid(value[q]) /\ ~ db[value[q]].revoked
     THEN /\ Write(q, value[q], [db[value[q]] EXCEPT !.used = TRUE])
          /\ Advance(q)
          /\ UNCHANGED <<expired, locals>>
     ELSE Rollback(q)

RevokeRefresh(q) ==
  /\ pc[q] = "revoke_refresh"
  /\ Free(q, value[q])
  /\ IF Valid(value[q]) /\ ~ db[value[q]].revoked
     THEN /\ Write(q, value[q], [db[value[q]] EXCEPT !.revoked = TRUE])
          /\ Advance(q)
          /\ UNCHANGED <<expired, locals>>
     ELSE Rollback(q)

\* RefreshToken.from_user_id, for the token that is being exchanged.
Successor(q) ==
  [user |-> uid[q], used |-> FALSE, revoked |-> FALSE, origin |-> value[q],
   sign_in |-> IF value[q] \in LoginValues THEN value[q] ELSE db[value[q]].sign_in]

InsertRefresh(q) ==
  /\ pc[q] = "insert_refresh"
  /\ \/ \E v \in RefreshValues :
          /\ Fresh(v)
          /\ Write(q, v, Successor(q))
          /\ expired' = expired \ {v}
          /\ Advance(q)
          /\ UNCHANGED locals
     \/ Stored(RefreshValues) # {} /\ Rollback(q)

\* DELETE FROM login_tokens WHERE email = ...: the rows committed by now.
LoginsOf(e) == {v \in Stored(LoginValues) : db[v].email = e}

DeleteLogins(q) ==
  /\ pc[q] = "delete_logins"
  /\ \A v \in LoginsOf(email[q]) : Free(q, v)
  /\ Delete(q, LoginsOf(email[q]))
  /\ Advance(q)
  /\ UNCHANGED <<expired, locals>>

\* Mutant: no cascade to refresh_tokens.
DeleteUser_NoCascade(q) ==
  /\ pc[q] = "delete_user"
  /\ Delete(q, {uid[q]})
  /\ Advance(q)
  /\ UNCHANGED <<expired, locals>>

\* DELETE FROM users; ON DELETE CASCADE takes the user's refresh tokens, once no
\* other transaction holds one of them.
RefreshesOf(u) == {v \in Stored(RefreshValues) : db[v].user = u}

DeleteUser(q) ==
  /\ pc[q] = "delete_user"
  /\ \A v \in RefreshesOf(uid[q]) : Free(q, v)
  /\ Delete(q, {uid[q]} \cup RefreshesOf(uid[q]))
  /\ Advance(q)
  /\ UNCHANGED <<expired, locals>>

Commit(q) ==
  /\ pc[q] = "commit"
  /\ db' = [k \in Keys |-> Sees(q, k)]
  /\ Release(q)
  /\ End(q)
  /\ UNCHANGED expired

\* A database error, a lost connection or the end of the process.
Abandon(q) == pc[q] # "idle" /\ Rollback(q)

\* expires_at passes.
Expire(v) ==
  /\ v \in Stored(LoginValues \cup RefreshValues) \ expired
  /\ expired' = expired \cup {v}
  /\ UNCHANGED <<table, pc, locals>>

NewRequest(q) ==
  \/ \E e \in Emails : RequestLoginToken(q, e)
  \/ \E v \in LoginValues : VerifyLoginToken(q, v)
  \/ \E v \in RefreshValues : RotateRefreshToken(q, v) \/ RevokeRefreshToken(q, v)
  \/ \E u \in UserIds : DeleteAccount(q, u)

Statement(q) ==
  \/ InsertLogin(q)
  \/ LookupLogin(q) \/ FindUser(q) \/ InsertUser(q) \/ RereadUser(q) \/ Unhandled(q)
  \/ LockUser(q) \/ ConsumeLogin(q)
  \/ LookupRefresh(q) \/ ConsumeRefresh(q) \/ InsertRefresh(q) \/ RevokeRefresh(q)
  \/ DeleteLogins(q) \/ DeleteUser(q)
  \/ Commit(q)

Next ==
  \/ \E q \in Requests : NewRequest(q) \/ Statement(q) \/ Abandon(q)
  \/ \E v \in LoginValues \cup RefreshValues : Expire(v)

Spec == Init /\ [][Next]_vars

\* A request in progress runs on; PostgreSQL serves those that wait for a row in
\* the order they came, so that each gets it if it is released again and again.
FairSpec == Spec /\ \A q \in Requests : SF_vars(Statement(q))
-------------------------------------------------------------------------------
(* Waiting. *)

\* The rows the next statement of a request waits for if another transaction has
\* changed or locked them; the unique index on email makes an INSERT wait for a
\* user that is being inserted or deleted.
Wants(q) ==
  CASE pc[q] = "insert_user" ->
         {u \in UserIds : <<db[u], draft[u]>> \in {<<Null, email[q]>>, <<email[q], Null>>}}
    [] pc[q] = "lock_user" -> Stored({uid[q]})
    [] pc[q] \in {"consume_login", "consume_refresh", "revoke_refresh"} -> {value[q]}
    [] pc[q] = "delete_logins" -> LoginsOf(email[q])
    [] pc[q] = "delete_user" -> RefreshesOf(uid[q])
    [] OTHER -> {}

\* A DELETE takes its rows one by one: while it waits for one it may have others.
MayHave(q) ==
  {k \in Keys : lock[k] = q}
    \cup IF pc[q] \in {"delete_logins", "delete_user"} THEN Wants(q) ELSE {}

WaitsFor(q) == {p \in Requests \ {q} : Wants(q) \cap MayHave(p) # {}}
-------------------------------------------------------------------------------
(* Properties. *)

Successors(v) == {f \in Stored(RefreshValues) : db[f].origin = v}

\* A token is exchanged at most once, and being used up and having a successor
\* are one event: no interleaving of verifications, rotations, revocations and
\* account deletions leaves one without the other, and a revoked token has none.
ExchangedOnce ==
  \A v \in Stored(LoginValues \cup RefreshValues) :
    /\ Cardinality(Successors(v)) = IF db[v].used THEN 1 ELSE 0
    /\ v \in RefreshValues /\ db[v].revoked => ~ db[v].used

\* However often its tokens are rotated, a sign-in has at most one refresh
\* token that still works.
OneLiveTokenPerSignIn ==
  \A f, g \in Stored(RefreshValues) :
    /\ f # g
    /\ ~ db[f].used /\ ~ db[f].revoked
    /\ ~ db[g].used /\ ~ db[g].revoked
    => db[f].sign_in # db[g].sign_in

\* A refresh token belongs to an account that exists, the one whose email the
\* login token of its sign-in was sent to, and both tokens are still stored.
ChainsStayInAccount ==
  \A f \in Stored(RefreshValues) :
    /\ db[db[f].user] # Null
    /\ db[db[f].origin] # Null
    /\ db[db[f].sign_in] # Null /\ db[db[f].sign_in].email = db[db[f].user]

\* An email has one account at most, and an account is only ever created
\* together with the first exchange of a login token: a verification that fails
\* after inserting the user leaves no account behind.
AccountsComeFromSignIns ==
  \A u \in Stored(UserIds) : UsersWith(db[u]) = {u} /\ RefreshesOf(u) # {}

\* However requests interleave, what is committed changes as if each operation
\* happened at one moment: no half of an exchange and no half of a deletion is
\* ever seen, or left behind by an error.
Lifecycle == INSTANCE TokenLifecycle WITH db <- db

ImplementsLifecycle == Lifecycle!Spec

\* No requests wait for each other in a circle, whatever part of its rows a
\* DELETE has by then: every handler locks the user row before token rows
\* (login_token_service.py, "Match account deletion's lock order: user first,
\* then token rows.").
NoDeadlock ==
  \A S \in SUBSET Requests : S # {} => \E q \in S : WaitsFor(q) \cap S = {}

\* No request waits for ever: each gets the rows it waits for in the end, and its
\* statements come to an end.
EveryRequestEnds ==
  \A q \in Requests : (pc[q] # "idle") ~> (pc[q] = "idle")

\* get_or_create_user_without_commit gets or creates a user.
GetOrCreateFindsUser == \A q \in Requests : pc[q] # "unhandled"
===============================================================================
