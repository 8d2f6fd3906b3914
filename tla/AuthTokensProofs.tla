---------------------------- MODULE AuthTokensProofs ----------------------------
(***************************************************************************)
(* What holds of AuthTokens for every number of requests, accounts, tokens *)
(* and emails: it implements TokenLifecycle, and with that its invariants. *)
(***************************************************************************)
EXTENDS AuthTokens, FiniteSetTheorems, TLAPS

(* The inductive invariant: what is committed. *)

\* What a stored refresh token stands on: its account, the token it was issued
\* for, and the login token of its sign-in.
ChainOK(f) ==
  LET r == db[f] IN
    /\ db[r.user] # Null
    /\ db[r.origin] # Null /\ db[r.origin].used
    /\ r.origin \in LoginValues => r.sign_in = r.origin
    /\ r.origin \in RefreshValues =>
         db[r.origin].user = r.user /\ db[r.origin].sign_in = r.sign_in
    /\ db[r.sign_in] # Null /\ db[r.sign_in].used
    /\ db[r.sign_in].email = db[r.user]

ChainsOK == \A f \in RefreshValues : db[f] # Null => ChainOK(f)

\* A used token has one successor; the rest of the chain is dead but for its end.
SuccessorsOK ==
  /\ \A f, g \in RefreshValues :
       db[f] # Null /\ db[g] # Null /\ db[f].origin = db[g].origin => f = g
  /\ \A v \in LoginValues \cup RefreshValues :
       db[v] # Null /\ db[v].used
         => \E f \in RefreshValues : db[f] # Null /\ db[f].origin = v
  /\ \A f \in RefreshValues : db[f] # Null => ~ (db[f].used /\ db[f].revoked)
  /\ \A f, g \in RefreshValues :
       /\ db[f] # Null /\ db[g] # Null
       /\ ~ db[f].used /\ ~ db[g].used
       /\ db[f].sign_in = db[g].sign_in
       => f = g

AccountsOK ==
  /\ \A u, w \in UserIds : db[u] # Null /\ db[u] = db[w] => u = w
  /\ \A u \in UserIds :
       db[u] # Null => \E f \in RefreshValues : db[f] # Null /\ db[f].user = u

CommittedInv == ChainsOK /\ SuccessorsOK /\ AccountsOK
-------------------------------------------------------------------------------
(* The inductive invariant: what is under way. *)

\* Which endpoint takes which step, and what it has by then.
HasEmail(q) ==
  \/ op[q] \in {"request", "delete"}
  \/ op[q] = "verify" /\ pc[q] # "lookup_login"

HasUid(q) ==
  \/ op[q] = "delete"
  \/ op[q] = "verify" /\ pc[q] \in {"lock_user", "consume_login", "insert_refresh", "commit"}
  \/ op[q] = "refresh" /\ pc[q] # "lookup_refresh"

StepsOf == [request |-> {"insert_login", "commit"},
            verify  |-> {"lookup_login", "find_user", "insert_user", "reread_user",
                         "unhandled", "lock_user", "consume_login", "insert_refresh",
                         "commit"},
            refresh |-> {"lookup_refresh", "lock_user", "consume_refresh",
                         "insert_refresh", "commit"},
            revoke  |-> {"revoke_refresh", "commit"},
            delete  |-> {"lock_user", "delete_logins", "delete_user", "commit"}]

StepOK(q) ==
  pc[q] # "idle" =>
    /\ op[q] \in Ops /\ pc[q] \in StepsOf[op[q]]
    /\ op[q] = "verify" => value[q] \in LoginValues
    /\ op[q] \in {"refresh", "revoke"} => value[q] \in RefreshValues
    /\ HasEmail(q) => email[q] \in Emails
    /\ HasUid(q) => uid[q] \in UserIds

\* A row a request has read may go, but no other row comes in its place.
HandOK(q) ==
  pc[q] # "idle" =>
    /\ op[q] = "verify" /\ HasEmail(q) =>
         IF db[value[q]] = Null THEN lock[value[q]] = Null
                                ELSE db[value[q]].email = email[q]
    /\ op[q] = "refresh" /\ HasUid(q) =>
         IF db[value[q]] = Null THEN lock[value[q]] = Null
                                ELSE db[value[q]].user = uid[q]
    /\ HasUid(q) =>
         IF db[uid[q]] = Null THEN lock[uid[q]] \in {q, Null}
                              ELSE op[q] # "refresh" => db[uid[q]] = email[q]

\* What the holder of a user row has made of it, and when,
HeldUser(q, u) ==
  /\ u = uid[q]
  /\ \/ /\ op[q] = "verify"
        /\ pc[q] \in {"lock_user", "consume_login", "insert_refresh", "commit"}
        /\ draft[u] = email[q]
     \/ /\ op[q] = "refresh"
        /\ pc[q] \in {"consume_refresh", "insert_refresh", "commit"}
        /\ db[u] # Null /\ draft[u] = db[u]
     \/ /\ op[q] = "delete"
        /\ pc[q] \in {"delete_logins", "delete_user", "commit"}
        /\ db[u] # Null
        /\ draft[u] = IF pc[q] = "commit" THEN Null ELSE db[u]

\* of a login token,
HeldLogin(q, v) ==
  \/ /\ op[q] = "request" /\ pc[q] = "commit"
     /\ db[v] = Null /\ draft[v] = [email |-> email[q], used |-> FALSE]
  \/ /\ op[q] = "verify" /\ pc[q] \in {"insert_refresh", "commit"}
     /\ v = value[q]
     /\ db[v] # Null /\ ~ db[v].used
     /\ draft[v] = [db[v] EXCEPT !.used = TRUE]
  \/ /\ op[q] = "delete" /\ pc[q] \in {"delete_user", "commit"}
     /\ db[v] # Null /\ db[v].email = email[q]
     /\ draft[v] = Null

\* and of a refresh token.
HeldRefresh(q, f) ==
  \/ /\ op[q] \in {"verify", "refresh"} /\ pc[q] = "commit"
     /\ f # value[q]
     /\ db[f] = Null /\ draft[f] = Successor(q)
  \/ /\ op[q] = "refresh" /\ pc[q] \in {"insert_refresh", "commit"}
     /\ f = value[q]
     /\ db[f] # Null /\ ~ db[f].used /\ ~ db[f].revoked
     /\ draft[f] = [db[f] EXCEPT !.used = TRUE]
  \/ /\ op[q] = "revoke" /\ pc[q] = "commit"
     /\ f = value[q]
     /\ db[f] # Null /\ ~ db[f].used /\ ~ db[f].revoked
     /\ draft[f] = [db[f] EXCEPT !.revoked = TRUE]
  \/ /\ op[q] = "delete" /\ pc[q] = "commit"
     /\ db[f] # Null /\ db[f].user = uid[q]
     /\ draft[f] = Null

Held(q, k) ==
  /\ k \in UserIds => HeldUser(q, k)
  /\ k \in LoginValues => HeldLogin(q, k)
  /\ k \in RefreshValues => HeldRefresh(q, k)

LocksOK(q) == \A k \in Keys : lock[k] = q => Held(q, k)

\* The rows a request holds by now.
HasUserRow(q) ==
  /\ op[q] \in {"verify", "refresh", "delete"}
  /\ pc[q] \in {"consume_login", "consume_refresh", "insert_refresh", "delete_logins",
                "delete_user", "commit"}

HasToken(q) ==
  \/ op[q] \in {"verify", "refresh"} /\ pc[q] \in {"insert_refresh", "commit"}
  \/ op[q] = "revoke" /\ pc[q] = "commit"

\* What it has inserted is one row.
OneNew(q, S) ==
  \E v \in S : /\ db[v] = Null /\ lock[v] = q
               /\ \A w \in S : db[w] = Null /\ lock[w] = q => w = v

\* An account's deletion has all its tokens but login tokens issued since, and
\* those are not exchanged while it holds the user row.
HasAll(q) ==
  /\ pc[q] \in {"delete_user", "commit"} =>
       \A v \in LoginValues :
         db[v] # Null /\ db[v].email = email[q] /\ lock[v] # q => ~ db[v].used
  /\ pc[q] = "commit" =>
       \A f \in RefreshValues : db[f] # Null /\ db[f].user = uid[q] => lock[f] = q

HoldsOK(q) ==
  /\ HasUserRow(q) => lock[uid[q]] = q
  /\ HasToken(q) => lock[value[q]] = q
  /\ op[q] = "request" /\ pc[q] = "commit" => OneNew(q, LoginValues)
  /\ op[q] \in {"verify", "refresh"} /\ pc[q] = "commit" => OneNew(q, RefreshValues)
  /\ op[q] = "delete" => HasAll(q)

RequestOK(q) == StepOK(q) /\ HandOK(q) /\ LocksOK(q) /\ HoldsOK(q)

RequestsOK == \A q \in Requests : RequestOK(q)

\* The unique index on users.email, with what is about to be committed.
EmailsOK ==
  \A u, w \in UserIds : \A x \in {db[u], draft[u]}, y \in {db[w], draft[w]} :
    x # Null /\ x = y => u = w

UnlockedOK == \A k \in Keys : lock[k] = Null => draft[k] = Null

TokenInv == TypeOK /\ CommittedInv /\ RequestsOK /\ EmailsOK /\ UnlockedOK
-------------------------------------------------------------------------------
(* What a step does to the rows, and whose. *)

RequestAction(q) == NewRequest(q) \/ Statement(q) \/ Abandon(q)

\* It takes a row that is there, one of its own, or one that nobody knows of,
Takes(q, k, row) ==
  /\ Write(q, k, row)
  /\ Free(q, k)
  /\ db[k] # Null \/ lock[k] = q \/ Fresh(k)

\* removes rows that are there,
Removes(q, S) ==
  /\ Delete(q, S)
  /\ \A k \in S : Free(q, k) /\ db[k] # Null

\* or ends the transaction one way or the other.
Ends(q) == Commit(q) \/ Rollback(q)

\* A step of a request is a step, or the end of the time of a token.
LEMMA StepCases ==
  ASSUME [Next]_vars
  PROVE  \/ \E q \in Requests : RequestAction(q)
         \/ UNCHANGED <<table, pc, locals>>
BY DEF Next, RequestAction, Expire, vars

\* What locks and rows can be of.
LEMMA KeysApart ==
  /\ \A u \in UserIds : u \in Keys /\ u \notin LoginValues \cup RefreshValues
  /\ \A v \in LoginValues : v \in Keys /\ v \notin UserIds \cup RefreshValues
  /\ \A f \in RefreshValues : f \in Keys /\ f \notin UserIds \cup LoginValues
  /\ Null \notin Keys \cup Requests \cup Emails \cup LoginRow \cup RefreshRow
BY KeysAssumption, NullAssumption DEF Keys, UserRow

\* The statement that comes next.
LEMMA AdvanceTo ==
  ASSUME TypeOK, NEW q \in Requests, StepOK(q), pc[q] \notin {"idle", "commit"}, Advance(q)
  PROVE  /\ \A p \in Requests \ {q} : pc'[p] = pc[p]
         /\ op[q] \in Ops
         /\ pc[q] = "insert_login" => pc'[q] = "commit"
         /\ pc[q] = "lookup_login" => pc'[q] = "find_user"
         /\ pc[q] \in {"find_user", "insert_user", "reread_user"} => pc'[q] = "lock_user"
         /\ pc[q] = "lock_user" /\ op[q] = "verify" => pc'[q] = "consume_login"
         /\ pc[q] = "lookup_refresh" => pc'[q] = "lock_user"
         /\ pc[q] = "lock_user" /\ op[q] = "refresh" => pc'[q] = "consume_refresh"
         /\ pc[q] \in {"consume_login", "consume_refresh"} => pc'[q] = "insert_refresh"
         /\ pc[q] \in {"insert_refresh", "revoke_refresh", "delete_user"} => pc'[q] = "commit"
         /\ pc[q] = "lock_user" /\ op[q] = "delete" => pc'[q] = "delete_logins"
         /\ pc[q] = "delete_logins" => pc'[q] = "delete_user"
<1>1. op[q] \in Ops /\ pc[q] \in StepsOf[op[q]]
  BY DEF StepOK
<1>2. /\ pc'[q] = Then[op[q]][pc[q]]
      /\ \A p \in Requests \ {q} : pc'[p] = pc[p]
  BY DEF Advance, Goto, TypeOK
<1>3. CASE op[q] = "request"
  BY <1>1, <1>2, <1>3 DEF StepsOf, Then, RequestOrder
<1>4. CASE op[q] = "verify"
  BY <1>1, <1>2, <1>4 DEF StepsOf, Then, VerifyOrder
<1>5. CASE op[q] = "refresh"
  BY <1>1, <1>2, <1>5 DEF StepsOf, Then, RefreshOrder
<1>6. CASE op[q] = "revoke"
  BY <1>1, <1>2, <1>6 DEF StepsOf, Then, RevokeOrder
<1>7. CASE op[q] = "delete"
  BY <1>1, <1>2, <1>7 DEF StepsOf, Then, DeleteOrder
<1> QED BY <1>1, <1>2, <1>3, <1>4, <1>5, <1>6, <1>7 DEF Ops

\* Which endpoint it is that takes a step.
LEMMA OpOfStep ==
  ASSUME NEW q \in Requests, StepOK(q)
  PROVE  /\ pc[q] = "insert_login" => op[q] = "request"
         /\ pc[q] \in {"lookup_login", "find_user", "insert_user", "reread_user",
                       "unhandled", "consume_login"} => op[q] = "verify"
         /\ pc[q] \in {"lookup_refresh", "consume_refresh"} => op[q] = "refresh"
         /\ pc[q] = "revoke_refresh" => op[q] = "revoke"
         /\ pc[q] \in {"delete_logins", "delete_user"} => op[q] = "delete"
         /\ pc[q] = "lock_user" => op[q] \in {"verify", "refresh", "delete"}
         /\ pc[q] = "insert_refresh" => op[q] \in {"verify", "refresh"}
         /\ pc[q] = "commit" => op[q] \in Ops
<1>1. pc[q] # "idle" => op[q] \in Ops /\ pc[q] \in StepsOf[op[q]]
  BY DEF StepOK
<1> QED BY <1>1 DEF StepsOf, Ops

\* A request's locals are its own.
LEMMA OthersSame ==
  ASSUME TypeOK, NEW q \in Requests, RequestAction(q), NEW p \in Requests \ {q}
  PROVE  /\ pc'[p] = pc[p] /\ op'[p] = op[p] /\ value'[p] = value[p]
         /\ email'[p] = email[p] /\ uid'[p] = uid[p]
<1> USE DEF TypeOK, Goto, Advance, locals
<1>r. CASE Rollback(q)
  BY <1>r DEF Rollback, End
<1>1. CASE NewRequest(q)
  BY <1>1 DEF NewRequest, RequestLoginToken, VerifyLoginToken, RotateRefreshToken,
              RevokeRefreshToken, DeleteAccount, Begin
<1>2. CASE InsertLogin(q) \/ LookupLogin(q) \/ FindUser(q) \/ InsertUser(q) \/ RereadUser(q)
  BY <1>r, <1>2 DEF InsertLogin, LookupLogin, FindUser, InsertUser, RereadUser
<1>3. CASE LockUser(q) \/ ConsumeLogin(q) \/ LookupRefresh(q) \/ ConsumeRefresh(q)
  BY <1>r, <1>3 DEF LockUser, ConsumeLogin, LookupRefresh, ConsumeRefresh
<1>4. CASE InsertRefresh(q) \/ RevokeRefresh(q) \/ DeleteLogins(q) \/ DeleteUser(q)
  BY <1>r, <1>4 DEF InsertRefresh, RevokeRefresh, DeleteLogins, DeleteUser
<1>5. CASE Commit(q)
  BY <1>5 DEF Commit, End
<1>6. CASE Unhandled(q) \/ Abandon(q)
  BY <1>r, <1>6 DEF Unhandled, Abandon
<1> QED BY <1>1, <1>2, <1>3, <1>4, <1>5, <1>6 DEF RequestAction, Statement

\* What each step does to the rows.
LEMMA Shapes ==
  ASSUME TokenInv, NEW q \in Requests, RequestAction(q)
  PROVE  \/ UNCHANGED table
         \/ \E k \in Keys : \E row : Takes(q, k, row)
         \/ \E S \in SUBSET Keys : Removes(q, S)
         \/ Ends(q)
<1> USE DEF table
<1>0. TypeOK /\ RequestOK(q)
  BY DEF TokenInv, RequestsOK
<1>o. StepOK(q)
  BY <1>0 DEF RequestOK
<1>r. CASE Rollback(q)
  BY <1>r DEF Ends
<1>1. CASE NewRequest(q)
  BY <1>1 DEF NewRequest, RequestLoginToken, VerifyLoginToken, RotateRefreshToken,
              RevokeRefreshToken, DeleteAccount, Begin
<1>2. CASE LookupLogin(q) \/ FindUser(q) \/ RereadUser(q) \/ LookupRefresh(q)
  BY <1>r, <1>2 DEF LookupLogin, FindUser, RereadUser, LookupRefresh
<1>3. ASSUME InsertLogin(q) \/ InsertUser(q) \/ InsertRefresh(q), ~ Rollback(q)
      PROVE  UNCHANGED table \/ \E k \in Keys : \E row : Takes(q, k, row)
  <2>1. UNCHANGED table \/ \E k \in Keys : \E row : Fresh(k) /\ Write(q, k, row)
    BY <1>3, KeysApart DEF InsertLogin, InsertUser, InsertRefresh
  <2> QED BY <2>1 DEF Takes, Fresh, Free
<1>4. ASSUME LockUser(q), ~ Rollback(q)
      PROVE  \E k \in Keys : \E row : Takes(q, k, row)
  <2>1. uid[q] \in Keys
    BY <1>4, <1>o, OpOfStep, KeysApart DEF LockUser, StepOK, HasUid
  <2>2. Takes(q, uid[q], Sees(q, uid[q]))
    BY <1>4 DEF LockUser, Takes, Sees
  <2> QED BY <2>1, <2>2
<1>5. ASSUME ConsumeLogin(q) \/ ConsumeRefresh(q) \/ RevokeRefresh(q), ~ Rollback(q)
      PROVE  \E k \in Keys : \E row : Takes(q, k, row)
  <2>1. value[q] \in Keys
    BY <1>5, <1>o, OpOfStep, KeysApart
    DEF ConsumeLogin, ConsumeRefresh, RevokeRefresh, StepOK
  <2>2. /\ Free(q, value[q]) /\ db[value[q]] # Null
        /\ \E row : Write(q, value[q], row)
    BY <1>5 DEF ConsumeLogin, ConsumeRefresh, RevokeRefresh, Valid
  <2> QED BY <2>1, <2>2 DEF Takes
<1>6. CASE DeleteLogins(q)
  <2>1. LoginsOf(email[q]) \in SUBSET Keys
    BY KeysApart DEF LoginsOf, Stored
  <2>2. Removes(q, LoginsOf(email[q]))
    BY <1>6 DEF DeleteLogins, Removes, LoginsOf, Stored
  <2> QED BY <2>1, <2>2
<1>7. CASE DeleteUser(q)
  <2>1. uid[q] \in UserIds /\ lock[uid[q]] = q
    BY <1>7, <1>0, <1>o, OpOfStep
    DEF DeleteUser, RequestOK, StepOK, HasUid, HoldsOK, HasUserRow
  <2>2. db[uid[q]] # Null
    BY <1>7, <1>0, <1>o, <2>1, OpOfStep, KeysApart
    DEF DeleteUser, RequestOK, LocksOK, Held, HeldUser
  <2>3. {uid[q]} \cup RefreshesOf(uid[q]) \in SUBSET Keys
    BY <2>1, KeysApart DEF RefreshesOf, Stored
  <2>4. Removes(q, {uid[q]} \cup RefreshesOf(uid[q]))
    BY <1>7, <2>1, <2>2 DEF DeleteUser, Removes, RefreshesOf, Stored, Free
  <2> QED BY <2>3, <2>4
<1>8. CASE Commit(q) \/ Unhandled(q) \/ Abandon(q)
  BY <1>r, <1>8 DEF Ends, Unhandled, Abandon
<1> QED BY <1>r, <1>1, <1>2, <1>3, <1>4, <1>5, <1>6, <1>7, <1>8
        DEF RequestAction, Statement
-------------------------------------------------------------------------------
(* What a step leaves to the others. *)

\* The version a transaction commits of a row that is there differs in its marks.
LEMMA VersionsAgree ==
  ASSUME TypeOK, NEW q \in Requests, RequestOK(q), NEW k \in Keys, lock[k] = q,
         db[k] # Null, draft[k] # Null
  PROVE  /\ k \in UserIds => draft[k] = db[k]
         /\ k \in LoginValues => draft[k].email = db[k].email
         /\ k \in RefreshValues => /\ draft[k].user = db[k].user
                                   /\ draft[k].origin = db[k].origin
                                   /\ draft[k].sign_in = db[k].sign_in
<1>1. Held(q, k) /\ StepOK(q) /\ HandOK(q)
  BY DEF RequestOK, LocksOK
<1>2. ASSUME k \in UserIds PROVE draft[k] = db[k]
  <2>1. HeldUser(q, k)
    BY <1>1, <1>2 DEF Held
  <2>2. CASE op[q] = "verify"
    BY <1>1, <2>1, <2>2 DEF HeldUser, HandOK, HasUid
  <2> QED BY <2>1, <2>2 DEF HeldUser
<1>3. ASSUME k \in LoginValues PROVE draft[k].email = db[k].email
  BY <1>1, <1>3 DEF Held, HeldLogin, TypeOK, LoginRow
<1>4. ASSUME k \in RefreshValues
      PROVE  /\ draft[k].user = db[k].user
             /\ draft[k].origin = db[k].origin
             /\ draft[k].sign_in = db[k].sign_in
  BY <1>1, <1>4 DEF Held, HeldRefresh, TypeOK, RefreshRow
<1> QED BY <1>2, <1>3, <1>4

\* Nobody touches a row that another request holds.
LEMMA OthersRows ==
  ASSUME TokenInv, NEW q \in Requests, RequestAction(q), NEW p \in Requests \ {q},
         NEW k \in Keys
  PROVE  /\ lock'[k] = p <=> lock[k] = p
         /\ lock[k] = p => db'[k] = db[k] /\ draft'[k] = draft[k]
<1> USE KeysApart DEF TokenInv, TypeOK
<1>1. CASE UNCHANGED table
  BY <1>1 DEF table
<1>2. CASE \E j \in Keys : \E row : Takes(q, j, row)
  BY <1>2 DEF Takes, Write, Free
<1>3. CASE \E S \in SUBSET Keys : Removes(q, S)
  BY <1>3 DEF Removes, Delete, Free
<1>4. CASE Ends(q)
  BY <1>4 DEF Ends, Commit, Rollback, Release, Sees
<1> QED BY <1>1, <1>2, <1>3, <1>4, Shapes

\* A row that is gone does not come back while a request remembers it, and one
\* that is there keeps its email or its user.
LEMMA MemoryHolds ==
  ASSUME TokenInv, NEW q \in Requests, RequestAction(q), NEW p \in Requests \ {q},
         NEW k \in Keys, k \in {value[p], uid[p]},
         db[k] = Null => lock[k] \in {p, Null}
  PROVE  /\ db[k] = Null => db'[k] = Null /\ lock'[k] = lock[k]
         /\ db[k] # Null /\ db'[k] = Null => lock'[k] = Null
         /\ db[k] # Null /\ db'[k] # Null =>
              /\ k \in UserIds => db'[k] = db[k]
              /\ k \in LoginValues => db'[k].email = db[k].email
              /\ k \in RefreshValues => db'[k].user = db[k].user
<1> USE KeysApart DEF TokenInv, TypeOK
<1>1. CASE UNCHANGED table
  BY <1>1 DEF table
<1>2. CASE \E j \in Keys : \E row : Takes(q, j, row)
  BY <1>2 DEF Takes, Write, Free, Fresh
<1>3. CASE \E S \in SUBSET Keys : Removes(q, S)
  BY <1>3 DEF Removes, Delete, Free
<1>4. CASE Rollback(q)
  BY <1>4 DEF Rollback, Release
<1>5. CASE Commit(q)
  <2>1. CASE lock[k] = q
    <3>1. db[k] # Null /\ db'[k] = draft[k] /\ lock'[k] = Null
      BY <1>5, <2>1 DEF Commit, Release, Sees
    <3> QED BY <2>1, <3>1, VersionsAgree DEF RequestsOK
  <2>2. CASE lock[k] # q
    BY <1>5, <2>2 DEF Commit, Release, Sees
  <2> QED BY <2>1, <2>2
<1> QED BY <1>1, <1>2, <1>3, <1>4, <1>5, Shapes DEF Ends

\* An account's deletion stays in possession of all its tokens.
LEMMA OthersHaveAll ==
  ASSUME TokenInv, NEW q \in Requests, RequestAction(q), NEW p \in Requests \ {q},
         op[p] = "delete"
  PROVE  HasAll(p)'
<1> USE KeysApart DEF TokenInv, RequestsOK
<1>0. /\ pc'[p] = pc[p] /\ email'[p] = email[p] /\ uid'[p] = uid[p]
      /\ HasAll(p) /\ RequestOK(p) /\ RequestOK(q)
  BY OthersSame DEF RequestOK, HoldsOK
<1>1. CASE UNCHANGED db
  BY <1>0, <1>1, OthersRows DEF HasAll
<1>2. CASE Commit(q)
  <2>1. ASSUME pc[p] \in {"delete_user", "commit"}
        PROVE  /\ uid[p] \in UserIds /\ lock[uid[p]] = p
               /\ db[uid[p]] = email[p] /\ email[p] # Null
    <3>1. uid[p] \in UserIds /\ email[p] \in Emails /\ lock[uid[p]] = p
      BY <1>0, <2>1 DEF RequestOK, StepOK, HasUid, HasEmail, HoldsOK, HasUserRow
    <3>2. db[uid[p]] # Null
      BY <1>0, <3>1 DEF RequestOK, LocksOK, Held, HeldUser
    <3> QED BY <1>0, <2>1, <3>1, <3>2 DEF RequestOK, HandOK, HasUid
  <2>2. ASSUME pc[p] \in {"delete_user", "commit"}, NEW v \in LoginValues,
               db'[v] # Null, db'[v].email = email[p], lock'[v] # p
        PROVE  ~ db'[v].used
    <3>1. CASE lock[v] # q
      <4>1. db'[v] = db[v] /\ lock[v] # p
        BY <1>2, <2>2, <3>1, OthersRows DEF Commit, Sees
      <4> QED BY <1>0, <2>2, <4>1 DEF HasAll
    <3>2. CASE lock[v] = q
      <4>1. db'[v] = draft[v] /\ HeldLogin(q, v)
        BY <1>0, <1>2, <3>2 DEF Commit, Sees, RequestOK, LocksOK, Held
      <4>2. CASE op[q] = "verify"
        <5>1. /\ uid[q] \in UserIds /\ lock[uid[q]] = q /\ draft[uid[q]] = email[q]
          BY <1>0, <1>2, <4>2
          DEF Commit, RequestOK, StepOK, HasUid, HoldsOK, HasUserRow, LocksOK, Held, HeldUser
        <5>2. db[v] # Null /\ v = value[q] /\ draft[v].email = db[v].email
          BY <2>2, <4>1, <4>2 DEF HeldLogin, TypeOK, LoginRow
        <5>3. email[q] = email[p]
          BY <1>0, <1>2, <2>2, <4>1, <4>2, <5>2 DEF RequestOK, HandOK, HasEmail, Commit
        <5> QED BY <2>1, <2>2, <5>1, <5>3 DEF EmailsOK
      <4>3. CASE op[q] # "verify"
        BY <2>2, <4>1, <4>3 DEF HeldLogin
      <4> QED BY <4>2, <4>3
    <3> QED BY <3>1, <3>2
  <2>3. ASSUME pc[p] = "commit", NEW f \in RefreshValues,
               db'[f] # Null, db'[f].user = uid[p]
        PROVE  lock'[f] = p
    <3>1. CASE lock[f] # q
      BY <1>0, <1>2, <2>3, <3>1, OthersRows DEF HasAll, Commit, Sees
    <3>2. CASE lock[f] = q
      <4>1. db'[f] = draft[f] /\ HeldRefresh(q, f)
        BY <1>0, <1>2, <3>2 DEF Commit, Sees, RequestOK, LocksOK, Held
      <4>2. CASE db[f] # Null
        <5>1. draft[f].user = db[f].user
          BY <1>0, <2>3, <3>2, <4>1, <4>2, VersionsAgree
        <5> QED BY <1>0, <2>3, <3>2, <4>1, <4>2, <5>1 DEF HasAll
      <4>3. CASE db[f] = Null
        <5>1. op[q] \in {"verify", "refresh"} /\ pc[q] = "commit" /\ draft[f].user = uid[q]
          BY <4>1, <4>3 DEF HeldRefresh, Successor
        <5>2. lock[uid[q]] = q
          BY <1>0, <5>1 DEF RequestOK, HoldsOK, HasUserRow
        <5> QED BY <2>1, <2>3, <4>1, <5>1, <5>2
      <4> QED BY <4>2, <4>3
    <3> QED BY <3>1, <3>2
  <2> QED BY <1>0, <2>2, <2>3 DEF HasAll
<1>3. UNCHANGED db \/ Commit(q)
  <2>1. CASE UNCHANGED table
    BY <2>1 DEF table
  <2>2. CASE \E k \in Keys : \E row : Takes(q, k, row)
    BY <2>2 DEF Takes, Write
  <2>3. CASE \E S \in SUBSET Keys : Removes(q, S)
    BY <2>3 DEF Removes, Delete
  <2>4. CASE Ends(q)
    BY <2>4 DEF Ends, Rollback
  <2> QED BY <2>1, <2>2, <2>3, <2>4, Shapes
<1> QED BY <1>1, <1>2, <1>3

\* Whatever one request does, what holds of the others goes on to hold.
LEMMA OthersOK ==
  ASSUME TokenInv, NEW q \in Requests, RequestAction(q), NEW p \in Requests \ {q}
  PROVE  RequestOK(p)'
<1> USE KeysApart DEF TokenInv, RequestsOK
<1>0. /\ pc'[p] = pc[p] /\ op'[p] = op[p] /\ value'[p] = value[p]
      /\ email'[p] = email[p] /\ uid'[p] = uid[p]
      /\ StepOK(p) /\ HandOK(p) /\ LocksOK(p) /\ HoldsOK(p)
  BY OthersSame DEF RequestOK
<1>1. StepOK(p)'
  BY <1>0 DEF StepOK, HasEmail, HasUid
<1>2. HandOK(p)'
  <2> SUFFICES ASSUME pc[p] # "idle" PROVE HandOK(p)'
    BY <1>0 DEF HandOK
  <2>1. ASSUME op[p] = "verify", HasEmail(p)
        PROVE  IF db'[value[p]] = Null THEN lock'[value[p]] = Null
                                       ELSE db'[value[p]].email = email[p]
    <3>1. value[p] \in LoginValues
      BY <1>0, <2>1 DEF StepOK
    <3> QED BY <1>0, <2>1, <3>1, MemoryHolds DEF HandOK
  <2>2. ASSUME op[p] = "refresh", HasUid(p)
        PROVE  IF db'[value[p]] = Null THEN lock'[value[p]] = Null
                                       ELSE db'[value[p]].user = uid[p]
    <3>1. value[p] \in RefreshValues
      BY <1>0, <2>2 DEF StepOK
    <3> QED BY <1>0, <2>2, <3>1, MemoryHolds DEF HandOK
  <2>3. ASSUME HasUid(p)
        PROVE  IF db'[uid[p]] = Null THEN lock'[uid[p]] \in {p, Null}
                                     ELSE op[p] # "refresh" => db'[uid[p]] = email[p]
    <3>1. uid[p] \in UserIds
      BY <1>0, <2>3 DEF StepOK
    <3> QED BY <1>0, <2>3, <3>1, MemoryHolds DEF HandOK
  <2> QED BY <1>0, <2>1, <2>2, <2>3 DEF HandOK, HasEmail, HasUid
<1>3. LocksOK(p)'
  <2> SUFFICES ASSUME NEW k \in Keys, lock'[k] = p PROVE Held(p, k)'
    BY DEF LocksOK
  <2>1. lock[k] = p /\ db'[k] = db[k] /\ draft'[k] = draft[k] /\ Held(p, k)
    BY <1>0, OthersRows DEF LocksOK
  <2>2. ASSUME k \in UserIds PROVE HeldUser(p, k)'
    BY <1>0, <2>1, <2>2 DEF Held, HeldUser
  <2>3. ASSUME k \in LoginValues PROVE HeldLogin(p, k)'
    BY <1>0, <2>1, <2>3 DEF Held, HeldLogin
  <2>4. ASSUME k \in RefreshValues PROVE HeldRefresh(p, k)'
    <3>1. ASSUME op[p] \in {"verify", "refresh"}, pc[p] = "commit"
          PROVE  Successor(p)' = Successor(p)
      <4>1. value[p] \in Keys /\ lock[value[p]] = p
        BY <1>0, <3>1 DEF StepOK, HoldsOK, HasToken
      <4>2. db'[value[p]] = db[value[p]]
        BY <4>1, OthersRows
      <4> QED BY <1>0, <4>2 DEF Successor
    <3> QED BY <1>0, <2>1, <2>4, <3>1 DEF Held, HeldRefresh
  <2> QED BY <2>2, <2>3, <2>4 DEF Held
<1>4. HoldsOK(p)'
  <2>1. ASSUME HasUserRow(p) PROVE lock'[uid[p]] = p
    <3>1. uid[p] \in UserIds /\ lock[uid[p]] = p
      BY <1>0, <2>1 DEF HoldsOK, HasUserRow, StepOK, StepsOf, HasUid
    <3> QED BY <3>1, OthersRows
  <2>2. ASSUME HasToken(p) PROVE lock'[value[p]] = p
    <3>1. value[p] \in Keys /\ lock[value[p]] = p
      BY <1>0, <2>2 DEF HoldsOK, HasToken, StepOK
    <3> QED BY <3>1, OthersRows
  <2>3. ASSUME NEW S \in SUBSET Keys, OneNew(p, S) PROVE OneNew(p, S)'
    BY <2>3, OthersRows DEF OneNew
  <2>4. op[p] = "delete" => HasAll(p)'
    BY OthersHaveAll
  <2>5. LoginValues \in SUBSET Keys /\ RefreshValues \in SUBSET Keys
    OBVIOUS
  <2> QED BY <1>0, <2>1, <2>2, <2>3, <2>4, <2>5 DEF HoldsOK, HasUserRow, HasToken
<1> QED BY <1>1, <1>2, <1>3, <1>4 DEF RequestOK
-------------------------------------------------------------------------------
(* Types. *)

RowsTyped ==
  /\ db \in [Keys -> UserRow \cup LoginRow \cup RefreshRow \cup {Null}]
  /\ draft \in [Keys -> UserRow \cup LoginRow \cup RefreshRow \cup {Null}]
  /\ \A u \in UserIds : {db[u], draft[u]} \subseteq UserRow \cup {Null}
  /\ \A v \in LoginValues : {db[v], draft[v]} \subseteq LoginRow \cup {Null}
  /\ \A v \in RefreshValues : {db[v], draft[v]} \subseteq RefreshRow \cup {Null}
  /\ lock \in [Keys -> Requests \cup {Null}]

LocalsTyped ==
  /\ pc \in [Requests -> Steps]
  /\ op \in [Requests -> Ops \cup {Null}]
  /\ value \in [Requests -> LoginValues \cup RefreshValues \cup {Null}]
  /\ email \in [Requests -> Emails \cup {Null}]
  /\ uid \in [Requests -> UserIds \cup {Null}]

ExpiredTyped == expired \subseteq LoginValues \cup RefreshValues

\* TypeOK in its parts.
LEMMA TypeParts == TypeOK <=> RowsTyped /\ LocalsTyped /\ ExpiredTyped
BY DEF TypeOK, RowsTyped, LocalsTyped, ExpiredTyped

\* Which rows a key can have.
RowOf(k, row) ==
  /\ k \in UserIds => row \in UserRow
  /\ k \in LoginValues => row \in LoginRow
  /\ k \in RefreshValues => row \in RefreshRow

\* Writing a row of the key's table,
LEMMA WriteType ==
  ASSUME RowsTyped, NEW q \in Requests, NEW k \in Keys, NEW row, RowOf(k, row), Write(q, k, row)
  PROVE  RowsTyped'
<1>1. row \in UserRow \cup LoginRow \cup RefreshRow
  BY DEF Keys, RowOf
<1> QED BY <1>1, KeysApart DEF RowsTyped, Write, RowOf

\* deleting rows
LEMMA DeleteType ==
  ASSUME RowsTyped, NEW q \in Requests, NEW S \in SUBSET Keys, Delete(q, S)
  PROVE  RowsTyped'
BY KeysApart DEF RowsTyped, Delete

\* and ending a transaction keep the rows typed.
LEMMA EndsType ==
  ASSUME RowsTyped, NEW q \in Requests, Ends(q)
  PROVE  RowsTyped'
<1>1. CASE Rollback(q)
  BY <1>1, KeysApart DEF RowsTyped, Rollback, Release
<1>2. CASE Commit(q)
  BY <1>2, KeysApart DEF RowsTyped, Commit, Release, Sees
<1> QED BY <1>1, <1>2 DEF Ends

\* The row of a refresh token that is being issued.
LEMMA SuccessorType ==
  ASSUME TypeOK, NEW q \in Requests, RequestOK(q), pc[q] = "insert_refresh"
  PROVE  /\ Successor(q) \in RefreshRow
         /\ uid[q] \in UserIds /\ value[q] \in LoginValues \cup RefreshValues
         /\ op[q] = "verify" => value[q] \in LoginValues
         /\ op[q] = "refresh" => value[q] \in RefreshValues /\ db[value[q]] # Null
<1>1. /\ op[q] \in {"verify", "refresh"} /\ uid[q] \in UserIds
      /\ op[q] = "verify" => value[q] \in LoginValues
      /\ op[q] = "refresh" => value[q] \in RefreshValues
      /\ lock[value[q]] = q
  BY OpOfStep DEF RequestOK, StepOK, HasUid, HoldsOK, HasToken
<1>2. ASSUME op[q] = "refresh" PROVE db[value[q]] \in RefreshRow
  <2>1. HeldRefresh(q, value[q])
    BY <1>1, <1>2, KeysApart DEF RequestOK, LocksOK, Held
  <2> QED BY <1>1, <1>2, <2>1 DEF HeldRefresh, TypeOK
<1> QED BY <1>1, <1>2, KeysApart DEF Successor, RefreshRow

\* What a step of a request writes is a row of the key's table.
LEMMA TypeStep ==
  ASSUME TypeOK, NEW q \in Requests, RequestOK(q), RequestAction(q)
  PROVE  RowsTyped'
<1>0. StepOK(q) /\ RowsTyped
  BY TypeParts DEF RequestOK
<1>u. CASE UNCHANGED table
  BY <1>0, <1>u DEF table, RowsTyped
<1>r. CASE Ends(q)
  BY <1>0, <1>r, EndsType
<1>1. CASE NewRequest(q)
  BY <1>u, <1>1 DEF NewRequest, RequestLoginToken, VerifyLoginToken, RotateRefreshToken,
              RevokeRefreshToken, DeleteAccount, Begin
<1>2. CASE LookupLogin(q) \/ FindUser(q) \/ RereadUser(q) \/ LookupRefresh(q)
  BY <1>u, <1>r, <1>2 DEF LookupLogin, FindUser, RereadUser, LookupRefresh, Ends
<1>3. CASE InsertLogin(q)
  <2>1. ASSUME NEW v \in LoginValues, Write(q, v, [email |-> email[q], used |-> FALSE])
        PROVE  RowsTyped'
    <3>1. RowOf(v, [email |-> email[q], used |-> FALSE])
      BY <1>0, <1>3, OpOfStep, KeysApart
      DEF InsertLogin, StepOK, HasEmail, RowOf, LoginRow
    <3> QED BY <1>0, <2>1, <3>1, WriteType, KeysApart
  <2> QED BY <1>r, <1>3, <2>1 DEF InsertLogin, Ends
<1>4. CASE InsertUser(q)
  <2>1. ASSUME NEW u \in UserIds, Write(q, u, email[q])
        PROVE  RowsTyped'
    <3>1. RowOf(u, email[q])
      BY <1>0, <1>4, OpOfStep, KeysApart
      DEF InsertUser, StepOK, HasEmail, RowOf, UserRow
    <3> QED BY <1>0, <2>1, <3>1, WriteType, KeysApart
  <2> QED BY <1>u, <1>4, <2>1 DEF InsertUser
<1>5. CASE LockUser(q)
  <2>1. uid[q] \in UserIds
    BY <1>0, <1>5, OpOfStep DEF LockUser, StepOK, HasUid
  <2>2. ASSUME Sees(q, uid[q]) # Null, Write(q, uid[q], Sees(q, uid[q]))
        PROVE  RowsTyped'
    <3>1. RowOf(uid[q], Sees(q, uid[q]))
      BY <1>0, <2>1, <2>2, KeysApart DEF Sees, RowOf, RowsTyped
    <3> QED BY <1>0, <2>1, <2>2, <3>1, WriteType, KeysApart
  <2> QED BY <1>r, <1>5, <2>2 DEF LockUser, Ends
<1>6. CASE ConsumeLogin(q)
  <2>1. value[q] \in LoginValues
    BY <1>0, <1>6, OpOfStep DEF ConsumeLogin, StepOK
  <2>2. ASSUME Valid(value[q]), Write(q, value[q], [db[value[q]] EXCEPT !.used = TRUE])
        PROVE  RowsTyped'
    <3>1. RowOf(value[q], [db[value[q]] EXCEPT !.used = TRUE])
      BY <1>0, <2>1, <2>2, KeysApart DEF RowOf, RowsTyped, Valid, LoginRow
    <3> QED BY <1>0, <2>1, <2>2, <3>1, WriteType, KeysApart
  <2> QED BY <1>r, <1>6, <2>2 DEF ConsumeLogin, Ends
<1>7. CASE ConsumeRefresh(q) \/ RevokeRefresh(q)
  <2>1. value[q] \in RefreshValues
    BY <1>0, <1>7, OpOfStep DEF ConsumeRefresh, RevokeRefresh, StepOK
  <2>2. ASSUME Valid(value[q]),
               \/ Write(q, value[q], [db[value[q]] EXCEPT !.used = TRUE])
               \/ Write(q, value[q], [db[value[q]] EXCEPT !.revoked = TRUE])
        PROVE  RowsTyped'
    <3>1. /\ RowOf(value[q], [db[value[q]] EXCEPT !.used = TRUE])
          /\ RowOf(value[q], [db[value[q]] EXCEPT !.revoked = TRUE])
      <4>1. PICK r \in RefreshRow : r = db[value[q]]
        BY <1>0, <2>1, <2>2 DEF RowsTyped, Valid
      <4>2. [r EXCEPT !.used = TRUE] \in RefreshRow /\ [r EXCEPT !.revoked = TRUE] \in RefreshRow
        BY ONLY <4>1 DEF RefreshRow
      <4> QED BY ONLY <2>1, <4>1, <4>2, KeysApart DEF RowOf
    <3> QED BY <1>0, <2>1, <2>2, <3>1, WriteType, KeysApart
  <2> QED BY <1>r, <1>7, <2>2 DEF ConsumeRefresh, RevokeRefresh, Ends
<1>8. CASE InsertRefresh(q)
  <2>1. ASSUME NEW v \in RefreshValues, Write(q, v, Successor(q))
        PROVE  RowsTyped'
    <3>1. RowOf(v, Successor(q))
      BY <1>8, SuccessorType, KeysApart DEF InsertRefresh, RowOf
    <3> QED BY <1>0, <2>1, <3>1, WriteType, KeysApart
  <2> QED BY <1>r, <1>8, <2>1 DEF InsertRefresh, Ends
<1>9. CASE DeleteLogins(q)
  BY <1>0, <1>9, DeleteType, KeysApart DEF DeleteLogins, LoginsOf, Stored
<1>10. CASE DeleteUser(q)
  <2>1. {uid[q]} \cup RefreshesOf(uid[q]) \in SUBSET Keys
    BY <1>0, <1>10, OpOfStep, KeysApart DEF DeleteUser, StepOK, HasUid, RefreshesOf, Stored
  <2> QED BY <1>0, <1>10, <2>1, DeleteType DEF DeleteUser
<1>11. CASE Commit(q) \/ Unhandled(q) \/ Abandon(q)
  BY <1>r, <1>11 DEF Ends, Unhandled, Abandon
<1> QED BY <1>1, <1>2, <1>3, <1>4, <1>5, <1>6, <1>7, <1>8, <1>9, <1>10, <1>11
        DEF RequestAction, Statement

\* The step a request comes to next is one of the steps.
LEMMA AdvanceType ==
  ASSUME TypeOK, NEW q \in Requests, StepOK(q), pc[q] \notin {"idle", "commit", "unhandled"},
         Advance(q)
  PROVE  pc' \in [Requests -> Steps]
<1>1. op[q] \in Ops /\ pc[q] \in StepsOf[op[q]]
  BY DEF StepOK
<1>2. pc'[q] \in Steps
  BY <1>1, AdvanceTo DEF StepsOf, Ops, Steps
<1> QED BY <1>2 DEF Advance, Goto, TypeOK

\* So are its locals of their types.
LEMMA LocalsStep ==
  ASSUME TypeOK, NEW q \in Requests, RequestOK(q), RequestAction(q)
  PROVE  LocalsTyped' /\ ExpiredTyped'
<1> USE DEF LocalsTyped, ExpiredTyped, locals
<1>0. StepOK(q) /\ LocalsTyped /\ ExpiredTyped
  BY TypeParts DEF RequestOK
<1>r. CASE Ends(q)
  BY <1>0, <1>r DEF Ends, Commit, Rollback, End, Goto, Steps
<1>1. CASE NewRequest(q)
  <2>1. ASSUME NEW o \in Ops, NEW v \in LoginValues \cup RefreshValues \cup {Null},
               NEW e \in Emails \cup {Null}, NEW u \in UserIds \cup {Null}, Begin(q, o, v, e, u)
        PROVE  LocalsTyped' /\ ExpiredTyped'
    <3>1. Then[o].begin \in Steps
      BY DEF Ops, Then, RequestOrder, VerifyOrder, RefreshOrder, RevokeOrder, DeleteOrder, Steps
    <3> QED BY <1>0, <2>1, <3>1 DEF Begin, Goto
  <2>2. \A u \in UserIds : Authenticated(u) => db[u] \in Emails
    BY DEF TypeOK, Authenticated, UserRow
  <2> QED BY <1>1, <2>1, <2>2
          DEF NewRequest, RequestLoginToken, VerifyLoginToken, RotateRefreshToken,
              RevokeRefreshToken, DeleteAccount, Ops
<1>2. CASE LookupLogin(q)
  <2>1. ASSUME db[value[q]] # Null PROVE db[value[q]].email \in Emails
    BY <1>0, <1>2, <2>1, OpOfStep DEF LookupLogin, StepOK, TypeOK, LoginRow
  <2> QED BY <1>0, <1>2, <1>r, <2>1, AdvanceType DEF LookupLogin, Ends
<1>3. CASE LookupRefresh(q)
  <2>1. ASSUME db[value[q]] # Null PROVE db[value[q]].user \in UserIds
    BY <1>0, <1>3, <2>1, OpOfStep DEF LookupRefresh, StepOK, TypeOK, RefreshRow
  <2> QED BY <1>0, <1>3, <1>r, <2>1, AdvanceType DEF LookupRefresh, Ends
<1>4. CASE FindUser(q) \/ RereadUser(q) \/ InsertUser(q)
  <2>1. pc' \in [Requests -> Steps]
    BY <1>0, <1>4, AdvanceType DEF FindUser, RereadUser, InsertUser, Goto, Steps
  <2> QED BY <1>0, <1>4, <2>1 DEF FindUser, RereadUser, InsertUser, UsersWith
<1>5. CASE InsertLogin(q) \/ InsertRefresh(q) \/ LockUser(q)
  BY <1>0, <1>5, <1>r, AdvanceType DEF InsertLogin, InsertRefresh, LockUser, Ends
<1>6. CASE ConsumeLogin(q) \/ ConsumeRefresh(q) \/ RevokeRefresh(q)
  BY <1>0, <1>6, <1>r, AdvanceType DEF ConsumeLogin, ConsumeRefresh, RevokeRefresh, Ends
<1>7. CASE DeleteLogins(q) \/ DeleteUser(q)
  BY <1>0, <1>7, AdvanceType DEF DeleteLogins, DeleteUser
<1>8. CASE Commit(q) \/ Unhandled(q) \/ Abandon(q)
  BY <1>r, <1>8 DEF Ends, Unhandled, Abandon
<1> QED BY <1>1, <1>2, <1>3, <1>4, <1>5, <1>6, <1>7, <1>8 DEF RequestAction, Statement
-------------------------------------------------------------------------------
(* What a step leaves to the one who takes it. *)

\* Before its first statement that takes a row a request holds none.
LEMMA HoldsNothing ==
  ASSUME NEW q \in Requests, RequestOK(q),
         \/ pc[q] \in {"idle", "insert_login", "lookup_login", "find_user", "insert_user",
                       "reread_user", "unhandled", "lookup_refresh", "revoke_refresh"}
         \/ pc[q] = "lock_user" /\ op[q] # "verify"
  PROVE  \A k \in Keys : lock[k] # q
BY DEF RequestOK, LocksOK, Held, HeldUser, HeldLogin, HeldRefresh, Keys

\* Afterwards it holds nothing.
LEMMA EndedOK ==
  ASSUME TypeOK, NEW q \in Requests, Ends(q)
  PROVE  RequestOK(q)'
<1>1. pc'[q] = "idle"
  BY DEF Ends, Commit, Rollback, End, Goto, TypeOK
<1>2. \A k \in Keys : lock'[k] # q
  BY KeysApart DEF Ends, Commit, Rollback, Release
<1> QED BY <1>1, <1>2 DEF RequestOK, StepOK, HandOK, LocksOK, HoldsOK, HasUserRow, HasToken,
                          HasAll

\* A request begins.
LEMMA BegunOK ==
  ASSUME TokenInv, NEW q \in Requests, NewRequest(q)
  PROVE  RequestOK(q)'
<1> USE DEF TokenInv, TypeOK, RequestsOK
<1>1. ASSUME NEW o \in Ops, NEW v, NEW e, NEW u, Begin(q, o, v, e, u),
             o = "request" => e \in Emails,
             o = "verify" => v \in LoginValues,
             o \in {"refresh", "revoke"} => v \in RefreshValues,
             o = "delete" => u \in UserIds /\ e \in Emails /\ db[u] = e /\ db[u] # Null
      PROVE  RequestOK(q)'
  <2>1. /\ op'[q] = o /\ value'[q] = v /\ email'[q] = e /\ uid'[q] = u
        /\ pc'[q] = Then[o].begin /\ UNCHANGED table
        /\ \A k \in Keys : lock[k] # q
    BY <1>1, HoldsNothing DEF Begin, Goto
  <2>2. /\ o = "request" => pc'[q] = "insert_login"
        /\ o = "verify" => pc'[q] = "lookup_login"
        /\ o = "refresh" => pc'[q] = "lookup_refresh"
        /\ o = "revoke" => pc'[q] = "revoke_refresh"
        /\ o = "delete" => pc'[q] = "lock_user"
    BY <2>1 DEF Then, RequestOrder, VerifyOrder, RefreshOrder, RevokeOrder, DeleteOrder
  <2>3. StepOK(q)'
    BY <1>1, <2>1, <2>2 DEF StepOK, StepsOf, HasEmail, HasUid, Ops
  <2>4. HandOK(q)' /\ LocksOK(q)'
    BY <1>1, <2>1, <2>2 DEF HandOK, HasEmail, HasUid, LocksOK, table
  <2>5. HoldsOK(q)'
    BY <1>1, <2>1, <2>2 DEF HoldsOK, HasUserRow, HasToken, HasAll, Ops
  <2> QED BY <2>3, <2>4, <2>5 DEF RequestOK
<1>2. \A u \in UserIds : Authenticated(u) => db[u] \in Emails /\ db[u] # Null
  BY DEF Authenticated, UserRow
<1> QED BY <1>1, <1>2
        DEF NewRequest, RequestLoginToken, VerifyLoginToken, RotateRefreshToken,
            RevokeRefreshToken, DeleteAccount, Ops

\* It reads, and takes no row.
LEMMA ReadsOK ==
  ASSUME TokenInv, NEW q \in Requests,
         LookupLogin(q) \/ LookupRefresh(q) \/ FindUser(q) \/ RereadUser(q)
  PROVE  RequestOK(q)'
<1> USE KeysApart DEF TokenInv, TypeOK, RequestsOK
<1>0. /\ RequestOK(q) /\ StepOK(q)
      /\ pc[q] \in {"lookup_login", "lookup_refresh", "find_user", "reread_user"}
  BY DEF RequestOK, LookupLogin, LookupRefresh, FindUser, RereadUser
<1>n. \A k \in Keys : lock[k] # q
  BY <1>0, HoldsNothing
<1>r. CASE Rollback(q)
  BY <1>r, EndedOK DEF Ends
<1>1. CASE LookupLogin(q) /\ ~ Rollback(q)
  <2>1. /\ op[q] = "verify" /\ pc'[q] = "find_user" /\ value[q] \in LoginValues
        /\ db[value[q]] # Null /\ email'[q] = db[value[q]].email
        /\ UNCHANGED <<table, op, value, uid>>
    BY <1>0, <1>1, OpOfStep, AdvanceTo DEF LookupLogin, StepOK
  <2>2. email'[q] \in Emails
    BY <2>1 DEF LoginRow
  <2> QED BY <1>n, <2>1, <2>2
          DEF RequestOK, StepOK, StepsOf, HandOK, LocksOK, HoldsOK, HasEmail, HasUid,
              HasUserRow, HasToken, table, Ops
<1>2. CASE LookupRefresh(q) /\ ~ Rollback(q)
  <2>1. /\ op[q] = "refresh" /\ pc'[q] = "lock_user" /\ value[q] \in RefreshValues
        /\ db[value[q]] # Null /\ uid'[q] = db[value[q]].user
        /\ UNCHANGED <<table, op, value, email>>
    BY <1>0, <1>2, OpOfStep, AdvanceTo DEF LookupRefresh, StepOK
  <2>2. uid'[q] \in UserIds /\ db[uid'[q]] # Null
    BY <2>1 DEF RefreshRow, CommittedInv, ChainsOK, ChainOK
  <2> QED BY <1>n, <2>1, <2>2
          DEF RequestOK, StepOK, StepsOf, HandOK, LocksOK, HoldsOK, HasEmail, HasUid,
              HasUserRow, HasToken, table, Ops
<1>3. CASE FindUser(q) \/ RereadUser(q)
  <2>1. /\ op[q] = "verify" /\ value[q] \in LoginValues /\ email[q] \in Emails
        /\ UNCHANGED <<table, op, value, email>>
        /\ \/ pc'[q] \in {"insert_user", "unhandled"}
           \/ pc'[q] = "lock_user" /\ uid'[q] \in UserIds /\ db[uid'[q]] = email[q]
    BY <1>0, <1>3, OpOfStep, AdvanceTo
    DEF FindUser, RereadUser, StepOK, HasEmail, UsersWith, Goto
  <2>2. HandOK(q) /\ HasEmail(q)
    BY <1>0, <1>3, <2>1 DEF RequestOK, HasEmail, FindUser, RereadUser
  <2>3. StepOK(q)'
    BY <2>1 DEF StepOK, StepsOf, HasEmail, HasUid, Ops
  <2>4. HandOK(q)'
    BY <1>0, <2>1, <2>2 DEF HandOK, HasEmail, HasUid, table
  <2>5. LocksOK(q)' /\ HoldsOK(q)'
    BY <1>n, <2>1 DEF LocksOK, HoldsOK, HasUserRow, HasToken, table
  <2> QED BY <2>3, <2>4, <2>5 DEF RequestOK
<1> QED BY <1>r, <1>1, <1>2, <1>3

\* It inserts a login token,
LEMMA InsertLoginOK ==
  ASSUME TokenInv, NEW q \in Requests, InsertLogin(q)
  PROVE  RequestOK(q)'
<1> USE KeysApart DEF TokenInv, TypeOK, RequestsOK
<1>r. CASE Rollback(q)
  BY <1>r, EndedOK DEF Ends
<1>1. CASE ~ Rollback(q)
  <2>1. PICK v \in LoginValues :
          /\ Fresh(v) /\ Write(q, v, [email |-> email[q], used |-> FALSE])
          /\ Advance(q) /\ UNCHANGED locals
    BY <1>1 DEF InsertLogin
  <2>2. /\ op[q] = "request" /\ email[q] \in Emails /\ pc'[q] = "commit"
        /\ \A k \in Keys : lock[k] # q
    BY <2>1, OpOfStep, AdvanceTo, HoldsNothing DEF InsertLogin, RequestOK, StepOK, HasEmail
  <2>3. StepOK(q)' /\ HandOK(q)'
    BY <2>1, <2>2 DEF StepOK, StepsOf, HandOK, HasEmail, HasUid, locals, Ops
  <2>4. LocksOK(q)'
    BY <2>1, <2>2 DEF LocksOK, Held, HeldLogin, Write, Fresh, locals
  <2>5. HoldsOK(q)'
    BY <2>1, <2>2 DEF HoldsOK, HasUserRow, HasToken, OneNew, Write, Fresh, locals
  <2> QED BY <2>3, <2>4, <2>5 DEF RequestOK
<1> QED BY <1>r, <1>1

\* or a user,
LEMMA InsertUserOK ==
  ASSUME TokenInv, NEW q \in Requests, InsertUser(q)
  PROVE  RequestOK(q)'
<1> USE KeysApart DEF TokenInv, TypeOK, RequestsOK
<1>0. /\ op[q] = "verify" /\ email[q] \in Emails /\ value[q] \in LoginValues
      /\ \A k \in Keys : lock[k] # q
      /\ HandOK(q) /\ HasEmail(q) /\ UNCHANGED <<op, value, email>>
  BY OpOfStep, HoldsNothing DEF InsertUser, RequestOK, StepOK, HasEmail
<1>1. CASE Goto(q, "reread_user") /\ UNCHANGED <<table, uid>>
  BY <1>0, <1>1
  DEF InsertUser, Goto, RequestOK, StepOK, StepsOf, HandOK, LocksOK, HoldsOK, HasEmail, HasUid,
      HasUserRow, HasToken, table, Ops
<1>2. ASSUME NEW u \in UserIds, Fresh(u), Write(q, u, email[q]), uid' = [uid EXCEPT ![q] = u],
             Advance(q)
      PROVE  RequestOK(q)'
  <2>1. pc'[q] = "lock_user" /\ uid'[q] = u
    BY <1>2, AdvanceTo DEF InsertUser, RequestOK
  <2>2. StepOK(q)'
    BY <1>0, <2>1 DEF StepOK, StepsOf, HasEmail, HasUid, Ops
  <2>3. HandOK(q)'
    BY <1>0, <1>2, <2>1 DEF InsertUser, HandOK, HasEmail, HasUid, Write, Fresh
  <2>4. LocksOK(q)'
    BY <1>0, <1>2, <2>1 DEF LocksOK, Held, HeldUser, Write
  <2>5. HoldsOK(q)'
    BY <1>0, <2>1 DEF HoldsOK, HasUserRow, HasToken
  <2> QED BY <2>2, <2>3, <2>4, <2>5 DEF RequestOK
<1> QED BY <1>1, <1>2 DEF InsertUser

\* or a refresh token.
LEMMA InsertRefreshOK ==
  ASSUME TokenInv, NEW q \in Requests, InsertRefresh(q)
  PROVE  RequestOK(q)'
<1> USE KeysApart DEF TokenInv, TypeOK, RequestsOK
<1>r. CASE Rollback(q)
  BY <1>r, EndedOK DEF Ends
<1>1. CASE ~ Rollback(q)
  <2>1. PICK v \in RefreshValues :
          Fresh(v) /\ Write(q, v, Successor(q)) /\ Advance(q) /\ UNCHANGED locals
    BY <1>1 DEF InsertRefresh
  <2>2. /\ pc[q] = "insert_refresh" /\ op[q] \in {"verify", "refresh"} /\ pc'[q] = "commit"
        /\ StepOK(q) /\ HandOK(q) /\ LocksOK(q) /\ HoldsOK(q)
    BY <2>1, OpOfStep, AdvanceTo DEF InsertRefresh, RequestOK
  <2>3. value[q] \in Keys /\ value[q] # v /\ uid[q] \in UserIds
    BY <2>1, <2>2 DEF Fresh, StepOK, HasUid
  <2>4. StepOK(q)'
    BY <2>1, <2>2 DEF StepOK, StepsOf, HasEmail, HasUid, locals, Ops
  <2>5. HandOK(q)'
    BY <2>1, <2>2, <2>3 DEF HandOK, HasEmail, HasUid, Write, locals
  <2>6. LocksOK(q)'
    <3> SUFFICES ASSUME NEW k \in Keys, lock'[k] = q PROVE Held(q, k)'
      BY DEF LocksOK
    <3>1. Successor(q)' = Successor(q)
      BY <2>1 DEF Successor, Write, locals
    <3>2. CASE k = v
      BY <2>1, <2>2, <3>1, <3>2 DEF Held, HeldRefresh, Write, Fresh, locals
    <3>3. CASE k # v
      <4>1. lock[k] = q /\ draft'[k] = draft[k] /\ db' = db /\ Held(q, k)
        BY <2>1, <2>2, <3>3 DEF LocksOK, Write
      <4> QED BY <2>1, <2>2, <4>1 DEF Held, HeldUser, HeldLogin, HeldRefresh, locals
    <3> QED BY <3>2, <3>3
  <2>7. HoldsOK(q)'
    <3>1. OneNew(q, RefreshValues)'
      <4>1. \A w \in RefreshValues : lock[w] = q => db[w] # Null
        BY <2>2 DEF LocksOK, Held, HeldRefresh
      <4> QED BY <2>1, <4>1 DEF OneNew, Write, Fresh
    <3> QED BY <2>1, <2>2, <2>3, <3>1
            DEF HoldsOK, HasUserRow, HasToken, Write, locals
  <2> QED BY <2>4, <2>5, <2>6, <2>7 DEF RequestOK
<1> QED BY <1>r, <1>1

\* It locks the user row.
LEMMA LockUserOK ==
  ASSUME TokenInv, NEW q \in Requests, LockUser(q)
  PROVE  RequestOK(q)'
<1> USE KeysApart DEF TokenInv, TypeOK, RequestsOK
<1>r. CASE Rollback(q)
  BY <1>r, EndedOK DEF Ends
<1>1. CASE ~ Rollback(q)
  <2>1. /\ pc[q] = "lock_user" /\ Sees(q, uid[q]) # Null
        /\ Write(q, uid[q], Sees(q, uid[q])) /\ Advance(q) /\ UNCHANGED locals
    BY <1>1 DEF LockUser
  <2>2. /\ StepOK(q) /\ HandOK(q) /\ LocksOK(q) /\ uid[q] \in UserIds
        /\ op[q] \in {"verify", "refresh", "delete"}
        /\ op[q] = "verify" => pc'[q] = "consume_login" /\ value[q] \in LoginValues
        /\ op[q] = "refresh" => pc'[q] = "consume_refresh" /\ value[q] \in RefreshValues
        /\ op[q] = "delete" => pc'[q] = "delete_logins"
    BY <2>1, OpOfStep, AdvanceTo DEF RequestOK, StepOK, HasUid
  <2>3. StepOK(q)'
    BY <2>1, <2>2 DEF StepOK, StepsOf, HasEmail, HasUid, locals, Ops
  <2>4. HandOK(q)'
    BY <2>1, <2>2 DEF HandOK, HasEmail, HasUid, Write, locals
  <2>5. /\ lock'[uid[q]] = q /\ draft'[uid[q]] = Sees(q, uid[q]) /\ db' = db
        /\ \A k \in Keys : lock'[k] = q => k = uid[q]
    <3>1. \A k \in Keys : lock[k] = q => k = uid[q]
      BY <2>1, <2>2 DEF LocksOK, Held, HeldUser, HeldLogin, HeldRefresh, Keys
    <3> QED BY <2>1, <2>2, <3>1 DEF Write
  <2>6. LocksOK(q)'
    <3>1. CASE op[q] = "verify"
      <4>1. Sees(q, uid[q]) = email[q]
        BY <2>1, <2>2, <3>1 DEF Sees, HandOK, HasUid, LocksOK, Held, HeldUser
      <4> QED BY <2>1, <2>2, <2>5, <3>1, <4>1 DEF LocksOK, Held, HeldUser, locals
    <3>2. CASE op[q] # "verify"
      <4>1. Sees(q, uid[q]) = db[uid[q]]
        BY <2>1, <2>2, <3>2, HoldsNothing DEF Sees
      <4> QED BY <2>1, <2>2, <2>5, <3>2, <4>1 DEF LocksOK, Held, HeldUser, locals
    <3> QED BY <3>1, <3>2
  <2>7. HoldsOK(q)'
    BY <2>1, <2>2, <2>5 DEF HoldsOK, HasUserRow, HasToken, HasAll, locals
  <2> QED BY <2>3, <2>4, <2>6, <2>7 DEF RequestOK
<1> QED BY <1>r, <1>1

\* It uses a token up or revokes it.
LEMMA ConsumeOK ==
  ASSUME TokenInv, NEW q \in Requests,
         ConsumeLogin(q) \/ ConsumeRefresh(q) \/ RevokeRefresh(q)
  PROVE  RequestOK(q)'
<1> USE KeysApart DEF TokenInv, TypeOK, RequestsOK
<1>r. CASE Rollback(q)
  BY <1>r, EndedOK DEF Ends
<1>1. CASE ~ Rollback(q)
  <2>v. PICK v : v = value[q]
    OBVIOUS
  <2> DEFINE row == IF pc[q] = "revoke_refresh" THEN [db[v] EXCEPT !.revoked = TRUE]
                                                ELSE [db[v] EXCEPT !.used = TRUE]
  <2>1. /\ pc[q] \in {"consume_login", "consume_refresh", "revoke_refresh"}
        /\ db[v] # Null /\ ~ db[v].used /\ Advance(q) /\ UNCHANGED locals
        /\ pc[q] # "consume_login" => ~ db[v].revoked
        /\ Write(q, v, row)
    BY <1>1, <2>v DEF ConsumeLogin, ConsumeRefresh, RevokeRefresh, Valid
  <2>2. /\ StepOK(q) /\ HandOK(q) /\ LocksOK(q) /\ HoldsOK(q)
        /\ pc[q] = "consume_login" =>
             op[q] = "verify" /\ pc'[q] = "insert_refresh" /\ v \in LoginValues
        /\ pc[q] = "consume_refresh" =>
             op[q] = "refresh" /\ pc'[q] = "insert_refresh" /\ v \in RefreshValues
        /\ pc[q] = "revoke_refresh" =>
             op[q] = "revoke" /\ pc'[q] = "commit" /\ v \in RefreshValues
    BY <2>1, <2>v, OpOfStep, AdvanceTo DEF RequestOK, StepOK
  <2>3. /\ v \in Keys /\ lock'[v] = q /\ db' = db
        /\ \A k \in Keys \ {v} : lock'[k] = lock[k] /\ draft'[k] = draft[k]
        /\ draft'[v] = row
    <3> HIDE DEF row
    <3> QED BY <2>1, <2>2 DEF Write
  <2>4. pc[q] # "revoke_refresh" =>
          uid[q] \in UserIds /\ uid[q] # v /\ lock[uid[q]] = q
    BY <2>1, <2>2 DEF StepOK, HasUid, HoldsOK, HasUserRow
  <2>5. StepOK(q)'
    BY <2>v, <2>1, <2>2 DEF StepOK, StepsOf, HasEmail, HasUid, locals, Ops
  <2>6. HandOK(q)'
    BY <2>v, <2>1, <2>2, <2>3, <2>4 DEF HandOK, HasEmail, HasUid, locals
  <2>7. LocksOK(q)'
    <3> SUFFICES ASSUME NEW k \in Keys, lock'[k] = q PROVE Held(q, k)'
      BY DEF LocksOK
    <3>1. CASE k = v
      <4>1. CASE pc[q] = "consume_login"
        <5>1. draft'[v] = [db'[v] EXCEPT !.used = TRUE]
          BY <2>3, <4>1
        <5>2. op'[q] = "verify" /\ pc'[q] = "insert_refresh" /\ v = value'[q]
          BY <2>v, <2>1, <2>2, <4>1 DEF locals
        <5>3. db'[v] # Null /\ ~ db'[v].used
          BY <2>1, <2>3
        <5>4. HeldLogin(q, v)'
          BY <5>1, <5>2, <5>3 DEF HeldLogin
        <5> QED BY <2>2, <3>1, <4>1, <5>4 DEF Held
      <4>2. CASE pc[q] # "consume_login"
        <5>1. /\ pc[q] = "consume_refresh" => draft'[v] = [db'[v] EXCEPT !.used = TRUE]
              /\ pc[q] = "revoke_refresh" => draft'[v] = [db'[v] EXCEPT !.revoked = TRUE]
          BY <2>3
        <5>2. /\ pc[q] = "consume_refresh" => op'[q] = "refresh" /\ pc'[q] = "insert_refresh"
              /\ pc[q] = "revoke_refresh" => op'[q] = "revoke" /\ pc'[q] = "commit"
              /\ pc[q] \in {"consume_refresh", "revoke_refresh"} /\ v = value'[q]
          BY <2>v, <2>1, <2>2, <4>2 DEF locals
        <5>3. db'[v] # Null /\ ~ db'[v].used /\ ~ db'[v].revoked
          BY <2>1, <2>3, <4>2
        <5>4. HeldRefresh(q, v)'
          BY <5>1, <5>2, <5>3 DEF HeldRefresh
        <5> QED BY <2>2, <3>1, <5>2, <5>4 DEF Held
      <4> QED BY <4>1, <4>2
    <3>2. CASE k # v
      <4>1. lock[k] = q /\ draft'[k] = draft[k] /\ Held(q, k)
        BY <2>2, <2>3, <3>2 DEF LocksOK
      <4>2. k \in UserIds /\ HeldUser(q, k) /\ pc[q] # "revoke_refresh"
        BY <2>1, <2>2, <4>1 DEF Held, HeldUser, HeldLogin, HeldRefresh, Keys
      <4> QED BY <2>1, <2>2, <2>3, <4>1, <4>2 DEF Held, HeldUser, locals
    <3> QED BY <3>1, <3>2
  <2>8. HoldsOK(q)'
    BY <2>v, <2>1, <2>2, <2>3, <2>4 DEF HoldsOK, HasUserRow, HasToken, locals
  <2> QED BY <2>5, <2>6, <2>7, <2>8 DEF RequestOK
<1> QED BY <1>r, <1>1

\* It deletes the login tokens of the account,
LEMMA DeleteLoginsOK ==
  ASSUME TokenInv, NEW q \in Requests, DeleteLogins(q)
  PROVE  RequestOK(q)'
<1> USE KeysApart DEF TokenInv, TypeOK, RequestsOK
<1>1. /\ pc[q] = "delete_logins" /\ op[q] = "delete" /\ pc'[q] = "delete_user"
      /\ StepOK(q) /\ HandOK(q) /\ LocksOK(q) /\ HoldsOK(q)
      /\ uid[q] \in UserIds /\ UNCHANGED locals
  BY OpOfStep, AdvanceTo DEF DeleteLogins, RequestOK, StepOK, HasUid
<1>2. /\ db' = db
      /\ \A v \in LoginValues : db[v] # Null /\ db[v].email = email[q]
           => lock'[v] = q /\ draft'[v] = Null
      /\ \A k \in Keys : \/ lock'[k] = lock[k] /\ draft'[k] = draft[k]
                         \/ /\ k \in LoginValues /\ db[k] # Null /\ db[k].email = email[q]
                            /\ draft'[k] = Null
  BY DEF DeleteLogins, Delete, LoginsOf, Stored
<1>3. lock[uid[q]] = q /\ lock'[uid[q]] = q
  BY <1>1, <1>2 DEF HoldsOK, HasUserRow
<1>4. StepOK(q)' /\ HandOK(q)'
  BY <1>1, <1>2, <1>3 DEF StepOK, StepsOf, HandOK, HasEmail, HasUid, locals, Ops
<1>5. LocksOK(q)'
  <2> SUFFICES ASSUME NEW k \in Keys, lock'[k] = q PROVE Held(q, k)'
    BY DEF LocksOK
  <2>1. CASE lock[k] = q /\ draft'[k] = draft[k]
    <3>1. k \in UserIds /\ HeldUser(q, k)
      BY <1>1, <2>1 DEF LocksOK, Held, HeldUser, HeldLogin, HeldRefresh, Keys
    <3> QED BY <1>1, <1>2, <2>1, <3>1 DEF Held, HeldUser, locals
  <2>2. CASE /\ k \in LoginValues /\ db[k] # Null /\ db[k].email = email[q]
             /\ draft'[k] = Null
    BY <1>1, <1>2, <2>2 DEF Held, HeldLogin, locals
  <2> QED BY <1>2, <2>1, <2>2
<1>6. HoldsOK(q)'
  BY <1>1, <1>2, <1>3 DEF HoldsOK, HasUserRow, HasToken, HasAll, locals
<1> QED BY <1>4, <1>5, <1>6 DEF RequestOK

\* and the account itself, with its refresh tokens.
LEMMA DeleteUserOK ==
  ASSUME TokenInv, NEW q \in Requests, DeleteUser(q)
  PROVE  RequestOK(q)'
<1> USE KeysApart DEF TokenInv, TypeOK, RequestsOK
<1>1. /\ pc[q] = "delete_user" /\ op[q] = "delete" /\ pc'[q] = "commit"
      /\ StepOK(q) /\ HandOK(q) /\ LocksOK(q) /\ HoldsOK(q)
      /\ uid[q] \in UserIds /\ UNCHANGED locals
  BY OpOfStep, AdvanceTo DEF DeleteUser, RequestOK, StepOK, HasUid
<1>2. lock[uid[q]] = q /\ db[uid[q]] # Null
  BY <1>1 DEF HoldsOK, HasUserRow, LocksOK, Held, HeldUser
<1>3. /\ db' = db
      /\ lock'[uid[q]] = q /\ draft'[uid[q]] = Null
      /\ \A f \in RefreshValues : db[f] # Null /\ db[f].user = uid[q]
           => lock'[f] = q /\ draft'[f] = Null
      /\ \A k \in Keys \ {uid[q]} :
           \/ lock'[k] = lock[k] /\ draft'[k] = draft[k]
           \/ /\ k \in RefreshValues /\ db[k] # Null /\ db[k].user = uid[q]
              /\ draft'[k] = Null
  BY <1>1 DEF DeleteUser, Delete, RefreshesOf, Stored
<1>4. StepOK(q)' /\ HandOK(q)'
  BY <1>1, <1>2, <1>3 DEF StepOK, StepsOf, HandOK, HasEmail, HasUid, locals, Ops
<1>5. LocksOK(q)'
  <2> SUFFICES ASSUME NEW k \in Keys, lock'[k] = q PROVE Held(q, k)'
    BY DEF LocksOK
  <2>1. CASE k = uid[q]
    BY <1>1, <1>2, <1>3, <2>1 DEF Held, HeldUser, locals
  <2>2. CASE k # uid[q] /\ lock[k] = q /\ draft'[k] = draft[k]
    <3>1. k \in LoginValues /\ HeldLogin(q, k)
      BY <1>1, <2>2 DEF LocksOK, Held, HeldUser, HeldRefresh, Keys
    <3> QED BY <1>1, <1>3, <2>2, <3>1 DEF Held, HeldLogin, locals
  <2>3. CASE /\ k \in RefreshValues /\ db[k] # Null /\ db[k].user = uid[q]
             /\ draft'[k] = Null
    BY <1>1, <1>3, <2>3 DEF Held, HeldRefresh, locals
  <2> QED BY <1>3, <2>1, <2>2, <2>3
<1>6. HoldsOK(q)'
  <2>1. \A v \in LoginValues : lock'[v] = lock[v]
    BY <1>1, <1>3
  <2> QED BY <1>1, <1>3, <2>1 DEF HoldsOK, HasUserRow, HasToken, HasAll, locals
<1> QED BY <1>4, <1>5, <1>6 DEF RequestOK

\* So what holds of requests goes on to hold.
LEMMA RequestsStep ==
  ASSUME TokenInv, NEW q \in Requests, RequestAction(q)
  PROVE  RequestsOK'
<1>1. RequestOK(q)'
  <2>1. CASE Commit(q) \/ Unhandled(q) \/ Abandon(q)
    BY <2>1, EndedOK DEF Ends, Unhandled, Abandon, TokenInv
  <2> QED BY <2>1, BegunOK, ReadsOK, InsertLoginOK, InsertUserOK, InsertRefreshOK, LockUserOK,
             ConsumeOK, DeleteLoginsOK, DeleteUserOK
          DEF RequestAction, Statement
<1>2. \A p \in Requests \ {q} : RequestOK(p)'
  BY OthersOK
<1> QED BY <1>1, <1>2 DEF RequestsOK
-------------------------------------------------------------------------------
(* No two rows, committed or about to be, have one email. *)

\* A row that nobody holds has no draft.
LEMMA UnlockedStep ==
  ASSUME TokenInv, NEW q \in Requests, RequestAction(q)
  PROVE  UnlockedOK'
<1> USE KeysApart DEF TokenInv, TypeOK, UnlockedOK
<1>1. CASE UNCHANGED table
  BY <1>1 DEF table
<1>2. CASE \E k \in Keys : \E row : Takes(q, k, row)
  BY <1>2 DEF Takes, Write
<1>3. CASE \E S \in SUBSET Keys : Removes(q, S)
  BY <1>3 DEF Removes, Delete
<1>4. CASE Ends(q)
  BY <1>4 DEF Ends, Commit, Rollback, Release
<1> QED BY <1>1, <1>2, <1>3, <1>4, Shapes

\* Only an insertion makes a version of a user that was not there before.
LEMMA OldEmails ==
  ASSUME TokenInv, NEW q \in Requests, RequestAction(q), ~ InsertUser(q), NEW u \in UserIds
  PROVE  /\ db'[u] \in {db[u], draft[u]}
         /\ draft'[u] \in {db[u], draft[u], Null}
<1> USE KeysApart DEF TokenInv, TypeOK, RequestsOK
<1>0. RequestOK(q) /\ StepOK(q)
  BY DEF RequestOK
<1>u. CASE UNCHANGED table
  BY <1>u DEF table
<1>r. CASE Ends(q)
  BY <1>r DEF Ends, Commit, Rollback, Release, Sees
<1>1. CASE NewRequest(q)
  BY <1>u, <1>1 DEF NewRequest, RequestLoginToken, VerifyLoginToken, RotateRefreshToken,
              RevokeRefreshToken, DeleteAccount, Begin
<1>2. CASE LookupLogin(q) \/ FindUser(q) \/ RereadUser(q) \/ LookupRefresh(q)
  BY <1>u, <1>r, <1>2 DEF LookupLogin, FindUser, RereadUser, LookupRefresh, Ends
<1>3. CASE InsertLogin(q) \/ InsertRefresh(q)
  BY <1>r, <1>3 DEF InsertLogin, InsertRefresh, Write, Ends
<1>4. CASE LockUser(q)
  BY <1>r, <1>4 DEF LockUser, Write, Sees, Ends
<1>5. CASE ConsumeLogin(q) \/ ConsumeRefresh(q) \/ RevokeRefresh(q)
  <2>1. value[q] \notin UserIds
    BY <1>0, <1>5, OpOfStep DEF ConsumeLogin, ConsumeRefresh, RevokeRefresh, StepOK
  <2> QED BY <1>r, <1>5, <2>1 DEF ConsumeLogin, ConsumeRefresh, RevokeRefresh, Write, Ends
<1>6. CASE DeleteLogins(q) \/ DeleteUser(q)
  BY <1>6 DEF DeleteLogins, DeleteUser, Delete
<1>7. CASE Commit(q) \/ Unhandled(q) \/ Abandon(q)
  BY <1>r, <1>7 DEF Ends, Unhandled, Abandon
<1> QED BY <1>1, <1>2, <1>3, <1>4, <1>5, <1>6, <1>7 DEF RequestAction, Statement

\* The unique index lets no insertion through while the email is in use, or may
\* turn out to be.
LEMMA EmailsStep ==
  ASSUME TokenInv, NEW q \in Requests, RequestAction(q)
  PROVE  EmailsOK'
<1> USE KeysApart DEF TokenInv, TypeOK, RequestsOK
<1>1. ASSUME \A u \in UserIds : /\ db'[u] \in {db[u], draft[u]}
                                /\ draft'[u] \in {db[u], draft[u], Null}
      PROVE  EmailsOK'
  BY <1>1 DEF EmailsOK
<1>2. CASE ~ InsertUser(q)
  BY <1>1, <1>2, OldEmails
<1>3. CASE InsertUser(q)
  <2>1. CASE UNCHANGED table
    BY <1>1, <2>1 DEF table
  <2>2. ASSUME UsersWith(email[q]) = {}, NEW u \in UserIds, Write(q, u, email[q])
        PROVE  EmailsOK'
    <3>1. \A w \in UserIds : db[w] # email[q]
      BY <2>2 DEF UsersWith
    <3>2. ASSUME NEW w \in UserIds, draft[w] = email[q], email[q] # Null PROVE FALSE
      <4>1. PICK p \in Requests : lock[w] = p
        BY <3>2 DEF UnlockedOK
      <4>2. p # q
        BY <1>3, <4>1, HoldsNothing DEF InsertUser
      <4>3. db[w] = Null => draft[w] # email[q]
        BY <1>3, <4>1, <4>2 DEF InsertUser, Free
      <4>4. db[w] # Null => draft[w] = db[w]
        BY <3>2, <4>1, VersionsAgree
      <4> QED BY <3>1, <3>2, <4>3, <4>4
    <3>3. \A w \in UserIds : /\ db'[w] = db[w]
                             /\ draft'[w] = IF w = u THEN email[q] ELSE draft[w]
      BY <2>2 DEF Write
    <3> QED BY <3>1, <3>2, <3>3 DEF EmailsOK
  <2> QED BY <1>3, <2>1, <2>2 DEF InsertUser
<1> QED BY <1>2, <1>3
-------------------------------------------------------------------------------
(* What a commit amounts to. *)

\* A commit puts the drafts of its transaction in place of the rows.
LEMMA CommitRows ==
  ASSUME TypeOK, NEW q \in Requests, Commit(q)
  PROVE  db' = [k \in Keys |-> IF lock[k] = q THEN draft[k] ELSE db[k]]
BY DEF Commit, Sees

\* The commit of a login token that was requested.
LEMMA CommitIssue ==
  ASSUME TokenInv, NEW q \in Requests, Commit(q), op[q] = "request"
  PROVE  \E v \in LoginValues, e \in Emails : Lifecycle!Issue(v, e)
<1> USE KeysApart DEF TokenInv, TypeOK, RequestsOK
<1>1. pc[q] = "commit" /\ StepOK(q) /\ LocksOK(q) /\ HoldsOK(q)
  BY DEF Commit, RequestOK
<1>2. PICK v \in LoginValues :
        /\ db[v] = Null /\ lock[v] = q
        /\ \A w \in LoginValues : db[w] = Null /\ lock[w] = q => w = v
  BY <1>1 DEF HoldsOK, OneNew
<1>3. \A k \in Keys : lock[k] = q => k = v
  BY <1>1, <1>2 DEF LocksOK, Held, HeldUser, HeldLogin, HeldRefresh, Keys
<1>4. draft[v] = [email |-> email[q], used |-> FALSE] /\ email[q] \in Emails
  BY <1>1, <1>2 DEF LocksOK, Held, HeldLogin, StepOK, HasEmail
<1>5. db' = [db EXCEPT ![v] = draft[v]]
  BY <1>2, <1>3, CommitRows
<1> QED BY <1>2, <1>4, <1>5 DEF Lifecycle!Issue

\* Of a login token that was exchanged.
LEMMA CommitVerify ==
  ASSUME TokenInv, NEW q \in Requests, Commit(q), op[q] = "verify"
  PROVE  \E v \in LoginValues, u \in UserIds, f \in RefreshValues :
           Lifecycle!SignIn(v, u, f) \/ Lifecycle!SignUp(v, u, f)
<1> USE KeysApart DEF TokenInv, TypeOK, RequestsOK
<1>1. /\ pc[q] = "commit" /\ StepOK(q) /\ HandOK(q) /\ LocksOK(q) /\ HoldsOK(q)
      /\ HasUid(q) /\ HasEmail(q) /\ HasUserRow(q) /\ HasToken(q)
  BY DEF Commit, RequestOK, HasUid, HasEmail, HasUserRow, HasToken
<1>v. PICK v \in LoginValues : v = value[q] /\ lock[v] = q
  BY <1>1 DEF StepOK, HoldsOK
<1>u. PICK u \in UserIds : u = uid[q] /\ lock[u] = q
  BY <1>1 DEF StepOK, HoldsOK
<1>f. PICK f \in RefreshValues :
        /\ db[f] = Null /\ lock[f] = q
        /\ \A g \in RefreshValues : db[g] = Null /\ lock[g] = q => g = f
  BY <1>1 DEF HoldsOK, OneNew
<1>2. \A k \in Keys : lock[k] = q => k \in {u, v, f}
  BY <1>1, <1>v, <1>u, <1>f DEF LocksOK, Held, HeldUser, HeldLogin, HeldRefresh, Keys
<1>3. db[v] # Null /\ ~ db[v].used /\ draft[v] = [db[v] EXCEPT !.used = TRUE]
  BY <1>1, <1>v DEF LocksOK, Held, HeldLogin
<1>4. draft[u] = email[q] /\ db[v].email = email[q] /\ email[q] \in Emails
  BY <1>1, <1>v, <1>u, <1>3 DEF LocksOK, Held, HeldUser, HandOK, StepOK
<1>5. draft[f] = [user |-> u, used |-> FALSE, revoked |-> FALSE, origin |-> v, sign_in |-> v]
  BY <1>1, <1>v, <1>u, <1>f DEF LocksOK, Held, HeldRefresh, Successor
<1>6. db' = [db EXCEPT ![u] = draft[u], ![v] = draft[v], ![f] = draft[f]]
  BY <1>v, <1>u, <1>f, <1>2, CommitRows
<1>7. CASE db[u] # Null
  <2>1. db[u] = email[q]
    BY <1>1, <1>u, <1>7 DEF HandOK
  <2>2. db' = [db EXCEPT ![v].used = TRUE, ![f] = draft[f]]
    BY <1>3, <1>4, <1>6, <2>1
  <2>3. Lifecycle!SignIn(v, u, f)
    BY <1>3, <1>4, <1>5, <1>f, <2>1, <2>2 DEF Lifecycle!SignIn, Lifecycle!Exchange
  <2> QED BY <2>3
<1>8. CASE db[u] = Null
  <2>1. \A x \in UserIds : db[x] # db[v].email
    BY <1>4, <1>8 DEF EmailsOK
  <2>2. Lifecycle!RefreshesFor(u) = {}
    BY <1>8 DEF Lifecycle!RefreshesFor, CommittedInv, ChainsOK, ChainOK
  <2>3. db' = [db EXCEPT ![u] = db[v].email, ![v].used = TRUE, ![f] = draft[f]]
    <3>1. u # v
      OBVIOUS
    <3>2. draft[u] = db[v].email
      BY ONLY <1>4
    <3> QED BY ONLY <1>3, <1>6, <3>1, <3>2
  <2>4. Lifecycle!SignUp(v, u, f)
    BY <1>3, <1>5, <1>8, <1>f, <2>1, <2>2, <2>3 DEF Lifecycle!SignUp
  <2> QED BY <2>4
<1> QED BY <1>7, <1>8

\* Of a refresh token that was rotated.
LEMMA CommitRotate ==
  ASSUME TokenInv, NEW q \in Requests, Commit(q), op[q] = "refresh"
  PROVE  \E v, f \in RefreshValues : Lifecycle!Rotate(v, f)
<1> USE KeysApart DEF TokenInv, TypeOK, RequestsOK
<1>1. /\ pc[q] = "commit" /\ StepOK(q) /\ HandOK(q) /\ LocksOK(q) /\ HoldsOK(q)
      /\ HasUid(q) /\ HasUserRow(q) /\ HasToken(q)
  BY DEF Commit, RequestOK, HasUid, HasUserRow, HasToken
<1>v. PICK v \in RefreshValues : v = value[q] /\ lock[v] = q
  BY <1>1 DEF StepOK, HoldsOK
<1>u. PICK u \in UserIds : u = uid[q] /\ lock[u] = q
  BY <1>1 DEF StepOK, HoldsOK
<1>f. PICK f \in RefreshValues :
        /\ db[f] = Null /\ lock[f] = q
        /\ \A g \in RefreshValues : db[g] = Null /\ lock[g] = q => g = f
  BY <1>1 DEF HoldsOK, OneNew
<1>2. \A k \in Keys : lock[k] = q => k \in {u, v, f}
  BY <1>1, <1>v, <1>u, <1>f DEF LocksOK, Held, HeldUser, HeldLogin, HeldRefresh, Keys
<1>3. draft[u] = db[u]
  BY <1>1, <1>u DEF LocksOK, Held, HeldUser
<1>4. /\ db[v] # Null /\ ~ db[v].used /\ ~ db[v].revoked
      /\ draft[v] = [db[v] EXCEPT !.used = TRUE]
      /\ db[v].user = u
  BY <1>1, <1>v, <1>u DEF LocksOK, Held, HeldRefresh, HandOK
<1>5. draft[f] = [user |-> db[v].user, used |-> FALSE, revoked |-> FALSE, origin |-> v,
                  sign_in |-> db[v].sign_in]
  <2>1. HeldRefresh(q, f)
    BY <1>1, <1>f DEF LocksOK, Held
  <2>2. draft[f] = Successor(q)
    BY <1>f, <2>1 DEF HeldRefresh
  <2> QED BY <1>v, <1>u, <1>4, <2>2 DEF Successor
<1>6. db' = [db EXCEPT ![v].used = TRUE, ![f] = draft[f]]
  <2>1. \A k \in Keys : lock[k] = q <=> k \in {u, v, f}
    BY <1>2, <1>v, <1>u, <1>f
  <2> QED BY <1>3, <1>4, <2>1, CommitRows
<1> QED BY <1>4, <1>5, <1>6, <1>f DEF Lifecycle!Rotate, Lifecycle!Exchange

\* Of a refresh token that was revoked.
LEMMA CommitRevoke ==
  ASSUME TokenInv, NEW q \in Requests, Commit(q), op[q] = "revoke"
  PROVE  \E v \in RefreshValues : Lifecycle!Revoke(v)
<1> USE KeysApart DEF TokenInv, TypeOK, RequestsOK
<1>1. /\ pc[q] = "commit" /\ StepOK(q) /\ LocksOK(q) /\ HoldsOK(q) /\ HasToken(q)
  BY DEF Commit, RequestOK, HasToken
<1>v. PICK v \in RefreshValues : v = value[q] /\ lock[v] = q
  BY <1>1 DEF StepOK, HoldsOK
<1>2. \A k \in Keys : lock[k] = q => k = v
  BY <1>1, <1>v DEF LocksOK, Held, HeldUser, HeldLogin, HeldRefresh, Keys
<1>3. /\ db[v] # Null /\ ~ db[v].used /\ ~ db[v].revoked
      /\ draft[v] = [db[v] EXCEPT !.revoked = TRUE]
  BY <1>1, <1>v DEF LocksOK, Held, HeldRefresh
<1>4. db' = [db EXCEPT ![v].revoked = TRUE]
  <2>1. \A k \in Keys : lock[k] = q <=> k = v
    BY <1>2, <1>v
  <2> QED BY <1>3, <2>1, CommitRows
<1> QED BY <1>3, <1>4 DEF Lifecycle!Revoke

\* Of an account that was deleted.
LEMMA CommitDelete ==
  ASSUME TokenInv, NEW q \in Requests, Commit(q), op[q] = "delete"
  PROVE  \E u \in UserIds : Lifecycle!DeleteAccount(u)
<1> USE KeysApart DEF TokenInv, TypeOK, RequestsOK
<1>1. /\ pc[q] = "commit" /\ StepOK(q) /\ HandOK(q) /\ LocksOK(q) /\ HoldsOK(q)
      /\ HasUid(q) /\ HasEmail(q) /\ HasUserRow(q) /\ HasAll(q)
  BY DEF Commit, RequestOK, HasUid, HasEmail, HasUserRow, HoldsOK
<1>u. PICK u \in UserIds : u = uid[q] /\ lock[u] = q
  BY <1>1 DEF StepOK, HoldsOK
<1>2. db[u] # Null /\ db[u] = email[q]
  BY <1>1, <1>u DEF LocksOK, Held, HeldUser, HandOK
<1>3. \A k \in Keys : lock[k] = q => draft[k] = Null
  BY <1>1 DEF LocksOK, Held, HeldUser, HeldLogin, HeldRefresh, Keys
<1> DEFINE kept == {v \in Lifecycle!LoginsTo(db[u]) : lock[v] # q}
<1>4. kept \in SUBSET {v \in Lifecycle!LoginsTo(db[u]) : ~ db[v].used}
  BY <1>1, <1>2 DEF HasAll, Lifecycle!LoginsTo
<1>5. \A k \in Keys :
        lock[k] = q <=> k \in {u} \cup Lifecycle!RefreshesFor(u)
                                  \cup (Lifecycle!LoginsTo(db[u]) \ kept)
  <2>1. \A w \in UserIds : lock[w] = q <=> w = u
    BY <1>1, <1>u DEF LocksOK, Held, HeldUser
  <2>2. \A v \in LoginValues : lock[v] = q <=> v \in Lifecycle!LoginsTo(db[u]) \ kept
    BY <1>1, <1>2 DEF LocksOK, Held, HeldLogin, Lifecycle!LoginsTo
  <2>3. \A f \in RefreshValues : lock[f] = q <=> f \in Lifecycle!RefreshesFor(u)
    BY <1>1, <1>u DEF LocksOK, Held, HeldRefresh, HasAll, Lifecycle!RefreshesFor
  <2> QED BY <2>1, <2>2, <2>3 DEF Keys, Lifecycle!RefreshesFor, Lifecycle!LoginsTo
<1>6. db' = [k \in Keys |-> IF k \in {u} \cup Lifecycle!RefreshesFor(u)
                                         \cup (Lifecycle!LoginsTo(db[u]) \ kept)
                            THEN Null ELSE db[k]]
  BY <1>3, <1>5, CommitRows
<1> HIDE DEF kept
<1>7. Keys = Lifecycle!Keys
  BY DEF Keys, Lifecycle!Keys
<1> QED BY ONLY <1>2, <1>4, <1>6, <1>7, u \in UserIds DEF Lifecycle!DeleteAccount

\* Every step is an operation on the whole, or leaves the committed rows alone.
LEMMA LifecycleImplemented ==
  ASSUME TokenInv, [Next]_vars
  PROVE  [Lifecycle!Next]_db
<1>1. ASSUME NEW q \in Requests, Commit(q)
      PROVE  [Lifecycle!Next]_db
  <2>1. op[q] \in Ops
    BY <1>1, OpOfStep DEF TokenInv, RequestsOK, RequestOK, Commit
  <2> QED BY <1>1, <2>1, CommitIssue, CommitVerify, CommitRotate, CommitRevoke, CommitDelete
          DEF Ops, Lifecycle!Next
<1>2. ASSUME NEW q \in Requests, RequestAction(q), ~ Commit(q)
      PROVE  UNCHANGED db
  <2>1. CASE UNCHANGED table
    BY <2>1 DEF table
  <2>2. CASE \E k \in Keys : \E row : Takes(q, k, row)
    BY <2>2 DEF Takes, Write
  <2>3. CASE \E S \in SUBSET Keys : Removes(q, S)
    BY <2>3 DEF Removes, Delete
  <2>4. CASE Ends(q)
    BY <1>2, <2>4 DEF Ends, Rollback
  <2> QED BY <1>2, <2>1, <2>2, <2>3, <2>4, Shapes
<1>3. CASE UNCHANGED <<table, pc, locals>>
  BY <1>3 DEF table
<1> QED BY <1>1, <1>2, <1>3, StepCases
-------------------------------------------------------------------------------
(* What is committed stays in order. *)

\* Whether a row is there, and what of it does not change while it is.
Lasting(k) ==
  /\ db[k] # Null => db'[k] # Null
  /\ k \in LoginValues /\ db[k] # Null =>
       db'[k].email = db[k].email /\ (db[k].used => db'[k].used)
  /\ k \in RefreshValues /\ db[k] # Null =>
       /\ db'[k].user = db[k].user /\ db'[k].origin = db[k].origin
       /\ db'[k].sign_in = db[k].sign_in /\ (db[k].used => db'[k].used)

\* What is left of a row that is used up or revoked.
LEMMA MarkedRow ==
  /\ \A r \in LoginRow :
       LET m == [r EXCEPT !.used = TRUE] IN
         m \in LoginRow /\ m # Null /\ m.used /\ m.email = r.email
  /\ \A r \in RefreshRow :
       /\ LET m == [r EXCEPT !.used = TRUE] IN
            /\ m \in RefreshRow /\ m # Null /\ m.used /\ m.revoked = r.revoked
            /\ m.user = r.user /\ m.origin = r.origin /\ m.sign_in = r.sign_in
       /\ LET m == [r EXCEPT !.revoked = TRUE] IN
            /\ m \in RefreshRow /\ m # Null /\ m.used = r.used
            /\ m.user = r.user /\ m.origin = r.origin /\ m.sign_in = r.sign_in
BY KeysApart DEF LoginRow, RefreshRow

\* A row that is there is a row of its table.
LEMMA RowThere ==
  ASSUME TypeOK
  PROVE  /\ \A k \in LoginValues : db[k] # Null => db[k] \in LoginRow
         /\ \A k \in RefreshValues : db[k] # Null => db[k] \in RefreshRow
BY DEF TypeOK

\* Every key has its place in the rows.
LEMMA DomainOf ==
  ASSUME TypeOK
  PROVE  DOMAIN db = Keys /\ db = [k \in Keys |-> db[k]]
BY DEF TypeOK

\* An exchange of v for f, with or without a new account.
LEMMA ExchangeKeeps ==
  ASSUME TypeOK, TypeOK', CommittedInv,
         NEW v \in LoginValues \cup RefreshValues, NEW u \in UserIds,
         NEW f \in RefreshValues, NEW s \in LoginValues,
         db[v] # Null, ~ db[v].used, db[f] = Null,
         v \in LoginValues => s = v /\ db'[u] = db[v].email,
         v \in RefreshValues => ~ db[v].revoked /\ u = db[v].user /\ s = db[v].sign_in,
         \A w \in UserIds : \/ db'[w] = db[w]
                            \/ /\ w = u /\ db[u] = Null /\ v \in LoginValues
                               /\ \A x \in UserIds : db[x] # db[v].email,
         \A k \in (LoginValues \cup RefreshValues) \ {v, f} : db'[k] = db[k],
         db'[v] = [db[v] EXCEPT !.used = TRUE],
         db'[f] = [user |-> u, used |-> FALSE, revoked |-> FALSE, origin |-> v,
                   sign_in |-> s]
  PROVE  CommittedInv'
<1> USE KeysApart, RowThere DEF CommittedInv
<1>v. /\ v # f /\ db'[v] # Null /\ db'[v].used
      /\ v \in LoginValues => db'[v].email = db[v].email
      /\ v \in RefreshValues =>
           /\ db'[v].user = db[v].user /\ db'[v].origin = db[v].origin
           /\ db'[v].sign_in = db[v].sign_in /\ db'[v].revoked = db[v].revoked
  <2>1. CASE v \in LoginValues
    <3>1. db[v] \in LoginRow
      BY <2>1, RowThere
    <3> QED BY <2>1, <3>1, MarkedRow
  <2>2. CASE v \in RefreshValues
    <3>1. db[v] \in RefreshRow
      BY <2>2, RowThere
    <3>2. db'[v] = [db[v] EXCEPT !.used = TRUE]
      OBVIOUS
    <3>3. /\ db'[v] # Null /\ db'[v].used /\ db'[v].revoked = db[v].revoked
          /\ db'[v].user = db[v].user /\ db'[v].origin = db[v].origin
          /\ db'[v].sign_in = db[v].sign_in
      <4>1. db'[v] \in RefreshRow
        BY ONLY <3>1, <3>2 DEF RefreshRow
      <4>2. /\ db'[v].used /\ db'[v].revoked = db[v].revoked
            /\ db'[v].user = db[v].user /\ db'[v].origin = db[v].origin
            /\ db'[v].sign_in = db[v].sign_in
        BY ONLY <3>1, <3>2 DEF RefreshRow
      <4> QED BY <4>1, <4>2
    <3> QED BY <2>2, <3>3
  <2> QED BY <2>1, <2>2
<1>f. /\ db'[f] # Null /\ db'[f].user = u /\ db'[f].origin = v /\ db'[f].sign_in = s
      /\ ~ db'[f].used /\ ~ db'[f].revoked
  <2>1. db'[f] = [user |-> u, used |-> FALSE, revoked |-> FALSE, origin |-> v,
                  sign_in |-> s]
    OBVIOUS
  <2>2. /\ db'[f].user = u /\ db'[f].origin = v /\ db'[f].sign_in = s
        /\ ~ db'[f].used /\ ~ db'[f].revoked
    BY ONLY <2>1
  <2>3. db'[f] \in RefreshRow
    BY ONLY <2>1, u \in UserIds, v \in LoginValues \cup RefreshValues, s \in LoginValues
    DEF RefreshRow
  <2> QED BY <2>2, <2>3
<1>l. \A k \in Keys : Lasting(k)
  <2> SUFFICES ASSUME NEW k \in Keys PROVE Lasting(k)
    OBVIOUS
  <2>1. CASE k \in UserIds
    BY <2>1 DEF Lasting, UserRow
  <2>2. CASE k = v
    BY <1>v, <2>2 DEF Lasting
  <2>3. CASE k \in (LoginValues \cup RefreshValues) \ {v}
    BY <1>v, <2>3 DEF Lasting
  <2> QED BY <2>1, <2>2, <2>3 DEF Keys
<1>n. \A g \in RefreshValues : db[g] # Null => db[g].origin # v /\ db[g].origin # f
  BY DEF ChainsOK, ChainOK
<1>o. \A g \in RefreshValues :
        /\ db[g] # Null => /\ db[g].user \in UserIds
                           /\ db[g].origin \in LoginValues \cup RefreshValues
                           /\ db[g].sign_in \in LoginValues
        /\ db'[g] # Null /\ g # f => db[g] # Null
  BY <1>v DEF RefreshRow
<1>w. \A w \in UserIds : db[w] # Null => db'[w] = db[w]
  OBVIOUS
<1>1. ChainsOK'
  <2> SUFFICES ASSUME NEW g \in RefreshValues, db'[g] # Null PROVE ChainOK(g)'
    BY DEF ChainsOK
  <2>1. CASE g # f
    <3>1. /\ db[g] # Null /\ ChainOK(g)
          /\ db'[g].user = db[g].user /\ db'[g].origin = db[g].origin
          /\ db'[g].sign_in = db[g].sign_in
      BY <1>l, <1>o, <2>1 DEF Lasting, ChainsOK
    <3>2. Lasting(db[g].user) /\ Lasting(db[g].origin) /\ Lasting(db[g].sign_in)
      BY <1>l, <1>o, <3>1
    <3>3. /\ db[g].user \in UserIds /\ db[g].origin \in LoginValues \cup RefreshValues
          /\ db[g].sign_in \in LoginValues
      BY <1>o, <3>1
    <3>4. db'[db[g].user] = db[db[g].user]
      BY <1>w, <3>1, <3>3 DEF ChainOK
    <3>5. db'[db[g].origin].used
      <4>1. db[g].origin # v /\ db[g].origin # f
        BY <1>n, <3>1
      <4> QED BY <3>1, <3>3, <4>1 DEF ChainOK
    <3> QED BY <3>1, <3>2, <3>3, <3>4, <3>5 DEF ChainOK, Lasting
  <2>2. CASE g = f
    <3>1. CASE v \in LoginValues
      BY <1>v, <1>f, <2>2, <3>1 DEF ChainOK, LoginRow
    <3>2. CASE v \in RefreshValues
      <4>1. ChainOK(v) /\ db[v].sign_in \in LoginValues /\ db[v].user \in UserIds
        BY <1>o, <3>2 DEF ChainsOK
      <4>2. db'[u] = db[u] /\ db[u] # Null
        BY <1>w, <3>2, <4>1 DEF ChainOK
      <4>3. /\ db'[s] # Null /\ db'[s].used /\ db'[s].email = db[s].email
            /\ db[s].email = db[u]
        BY <1>l, <3>2, <4>1 DEF ChainOK, Lasting
      <4> QED BY <1>v, <1>f, <2>2, <3>2, <4>1, <4>2, <4>3 DEF ChainOK
    <3> QED BY <3>1, <3>2
  <2> QED BY <2>1, <2>2
<1>2. SuccessorsOK'
  <2>1. ASSUME NEW g \in RefreshValues, NEW h \in RefreshValues, db'[g] # Null, db'[h] # Null,
               db'[g].origin = db'[h].origin
        PROVE  g = h
    BY <1>f, <1>l, <1>n, <1>o, <2>1 DEF Lasting, SuccessorsOK
  <2>2. ASSUME NEW k \in LoginValues \cup RefreshValues, db'[k] # Null, db'[k].used
        PROVE  \E g \in RefreshValues : db'[g] # Null /\ db'[g].origin = k
    <3>1. CASE k = v
      BY <1>f, <3>1
    <3>2. CASE k # v
      <4>1. k # f /\ db[k] # Null /\ db[k].used
        BY <1>f, <2>2, <3>2
      <4>2. PICK g \in RefreshValues : db[g] # Null /\ db[g].origin = k
        BY <4>1 DEF SuccessorsOK
      <4> QED BY <1>l, <4>2 DEF Lasting
    <3> QED BY <3>1, <3>2
  <2>3. ASSUME NEW g \in RefreshValues, db'[g] # Null
        PROVE  ~ (db'[g].used /\ db'[g].revoked)
    <3>1. CASE g = f
      BY <1>f, <3>1
    <3>2. CASE g = v
      BY <1>v, <3>2
    <3>3. CASE g \notin {v, f}
      BY <2>3, <3>3 DEF SuccessorsOK
    <3> QED BY <3>1, <3>2, <3>3
  <2>4. ASSUME NEW g \in RefreshValues, NEW h \in RefreshValues, db'[g] # Null, db'[h] # Null,
               ~ db'[g].used, ~ db'[h].used, db'[g].sign_in = db'[h].sign_in
        PROVE  g = h
    <3>1. \A x \in RefreshValues :
            db'[x] # Null /\ ~ db'[x].used /\ x # f =>
              x # v /\ db[x] # Null /\ ~ db[x].used /\ db[x].sign_in = db'[x].sign_in
      BY <1>v, <1>o
    <3>2. ASSUME NEW x \in RefreshValues, db[x] # Null, ~ db[x].used, x # v
          PROVE  db[x].sign_in # s
      <4>1. CASE v \in LoginValues
        <5>1. db[db[x].sign_in].used
          BY <3>2 DEF ChainsOK, ChainOK
        <5> QED BY <4>1, <5>1
      <4>2. CASE v \in RefreshValues
        BY <3>2, <4>2 DEF SuccessorsOK
      <4> QED BY <4>1, <4>2
    <3> QED BY <1>f, <2>4, <3>1, <3>2 DEF SuccessorsOK
  <2> QED BY <2>1, <2>2, <2>3, <2>4 DEF SuccessorsOK
<1>3. AccountsOK'
  <2>1. ASSUME NEW x \in UserIds, NEW y \in UserIds, db'[x] # Null, db'[x] = db'[y]
        PROVE  x = y
    BY <2>1 DEF AccountsOK
  <2>2. ASSUME NEW x \in UserIds, db'[x] # Null
        PROVE  \E g \in RefreshValues : db'[g] # Null /\ db'[g].user = x
    <3>1. CASE x = u
      BY <1>f, <3>1
    <3>2. CASE x # u
      <4>1. PICK g \in RefreshValues : db[g] # Null /\ db[g].user = x
        BY <2>2, <3>2 DEF AccountsOK
      <4> QED BY <1>l, <4>1 DEF Lasting
    <3> QED BY <3>1, <3>2
  <2> QED BY <2>1, <2>2 DEF AccountsOK
<1> QED BY <1>1, <1>2, <1>3

\* An issue or a revocation.
LEMMA MarkKeeps ==
  ASSUME TypeOK, TypeOK', CommittedInv,
         \/ \E v \in LoginValues, e \in Emails : Lifecycle!Issue(v, e)
         \/ \E v \in RefreshValues : Lifecycle!Revoke(v)
  PROVE  CommittedInv'
<1> USE KeysApart, RowThere DEF CommittedInv
<1>1. PICK v \in LoginValues \cup RefreshValues :
        /\ \A k \in Keys \ {v} : db'[k] = db[k]
        /\ db'[v] # Null /\ ~ db'[v].used
        /\ v \in LoginValues => db[v] = Null
        /\ v \in RefreshValues =>
             /\ db[v] # Null /\ ~ db[v].used /\ db'[v].user = db[v].user
             /\ db'[v].origin = db[v].origin /\ db'[v].sign_in = db[v].sign_in
  <2>1. ASSUME NEW v \in LoginValues, NEW e \in Emails, Lifecycle!Issue(v, e)
        PROVE  /\ db'[v] = [email |-> e, used |-> FALSE] /\ db[v] = Null
               /\ \A k \in Keys \ {v} : db'[k] = db[k]
    BY <2>1, DomainOf DEF Lifecycle!Issue
  <2>2. ASSUME NEW v \in RefreshValues, Lifecycle!Revoke(v)
        PROVE  /\ db[v] # Null /\ ~ db[v].used
               /\ db'[v] = [db[v] EXCEPT !.revoked = TRUE]
               /\ \A k \in Keys \ {v} : db'[k] = db[k]
    BY <2>2, DomainOf DEF Lifecycle!Revoke
  <2>3. ASSUME NEW v \in LoginValues, NEW e \in Emails, Lifecycle!Issue(v, e)
        PROVE  db'[v] # Null /\ ~ db'[v].used
    <3>1. db'[v] = [email |-> e, used |-> FALSE]
      BY <2>1, <2>3
    <3>2. db'[v] \in LoginRow /\ ~ db'[v].used
      BY ONLY <3>1, e \in Emails DEF LoginRow
    <3> QED BY <3>2
  <2>4. ASSUME NEW v \in RefreshValues, Lifecycle!Revoke(v)
        PROVE  /\ db'[v] # Null /\ ~ db'[v].used /\ db'[v].user = db[v].user
               /\ db'[v].origin = db[v].origin /\ db'[v].sign_in = db[v].sign_in
    <3>1. db[v] \in RefreshRow
      BY <2>2, <2>4
    <3>2. db[v] # Null /\ ~ db[v].used /\ db'[v] = [db[v] EXCEPT !.revoked = TRUE]
      BY <2>2, <2>4
    <3>3. PICK r \in RefreshRow : r = db[v]
      BY ONLY <3>1
    <3>4. db'[v] = [r EXCEPT !.revoked = TRUE]
      BY ONLY <3>2, <3>3
    <3>5. /\ db'[v] \in RefreshRow /\ db'[v].used = r.used /\ db'[v].user = r.user
          /\ db'[v].origin = r.origin /\ db'[v].sign_in = r.sign_in
      BY ONLY <3>3, <3>4 DEF RefreshRow
    <3> QED BY ONLY <3>2, <3>3, <3>5, KeysApart
  <2>5. CASE \E v \in LoginValues, e \in Emails : Lifecycle!Issue(v, e)
    <3>1. PICK v \in LoginValues, e \in Emails : Lifecycle!Issue(v, e)
      BY <2>5
    <3> WITNESS v \in LoginValues \cup RefreshValues
    <3> QED BY <2>1, <2>3, <3>1
  <2>6. CASE \E v \in RefreshValues : Lifecycle!Revoke(v)
    <3>1. PICK v \in RefreshValues : Lifecycle!Revoke(v)
      BY <2>6
    <3> WITNESS v \in LoginValues \cup RefreshValues
    <3> QED BY <2>2, <2>4, <3>1
  <2> QED BY <2>5, <2>6
<1>2. \A g \in RefreshValues :
        /\ db'[g] # Null <=> db[g] # Null
        /\ db[g] # Null => /\ db'[g].user = db[g].user /\ db'[g].origin = db[g].origin
                           /\ db'[g].sign_in = db[g].sign_in /\ (db'[g].used <=> db[g].used)
                           /\ db[g].user \in UserIds
                           /\ db[g].origin \in LoginValues \cup RefreshValues
                           /\ db[g].sign_in \in LoginValues
  <2>1. \A g \in RefreshValues :
          db[g] # Null => /\ db[g].user \in UserIds
                          /\ db[g].origin \in LoginValues \cup RefreshValues
                          /\ db[g].sign_in \in LoginValues
    BY DEF RefreshRow
  <2> QED BY <1>1, <2>1
<1>3. /\ \A w \in UserIds : db'[w] = db[w]
      /\ \A k \in LoginValues : db[k] # Null => db'[k] = db[k]
  BY <1>1
<1>4. ChainsOK'
  <2> SUFFICES ASSUME NEW g \in RefreshValues, db'[g] # Null PROVE ChainOK(g)'
    BY DEF ChainsOK
  <2>1. ChainOK(g)
    BY <1>2 DEF ChainsOK
  <2> QED BY <1>2, <1>3, <2>1 DEF ChainOK
<1>5. SuccessorsOK'
  <2>1. ASSUME NEW k \in LoginValues \cup RefreshValues, db'[k] # Null, db'[k].used
        PROVE  \E g \in RefreshValues : db'[g] # Null /\ db'[g].origin = k
    <3>1. db[k] # Null /\ db[k].used
      BY <1>1, <2>1
    <3> QED BY <1>2, <3>1 DEF SuccessorsOK
  <2>2. \A g \in RefreshValues : db'[g] # Null => ~ (db'[g].used /\ db'[g].revoked)
    BY <1>1 DEF SuccessorsOK
  <2> QED BY <1>2, <2>1, <2>2 DEF SuccessorsOK
<1>6. AccountsOK'
  BY <1>2, <1>3 DEF AccountsOK
<1> QED BY <1>4, <1>5, <1>6

\* The deletion of an account.
LEMMA DeletionKeeps ==
  ASSUME TypeOK, CommittedInv, NEW u \in UserIds, Lifecycle!DeleteAccount(u)
  PROVE  CommittedInv'
<1> USE KeysApart DEF TypeOK, CommittedInv
<1>k. Keys = Lifecycle!Keys
  BY DEF Keys, Lifecycle!Keys
<1>1. /\ db[u] # Null
      /\ \A w \in UserIds : db'[w] = IF w = u THEN Null ELSE db[w]
      /\ \A f \in RefreshValues :
           db'[f] = IF db[f] # Null /\ db[f].user = u THEN Null ELSE db[f]
      /\ \A v \in LoginValues :
           \/ db'[v] = db[v] /\ ~ (db[v] # Null /\ db[v].used /\ db[v].email = db[u])
           \/ db'[v] = Null /\ db[v] # Null /\ db[v].email = db[u]
  BY <1>k DEF Lifecycle!DeleteAccount, Lifecycle!RefreshesFor, Lifecycle!LoginsTo
<1>2. ASSUME NEW f \in RefreshValues, db'[f] # Null
      PROVE  /\ db[f] # Null /\ db'[f] = db[f] /\ ChainOK(f)
             /\ db[f].user \in UserIds /\ db[f].user # u
             /\ db[f].origin \in LoginValues \cup RefreshValues
             /\ db[f].sign_in \in LoginValues
             /\ db'[db[f].user] = db[db[f].user]
             /\ db'[db[f].sign_in] = db[db[f].sign_in]
             /\ db'[db[f].origin] = db[db[f].origin]
  <2>1. /\ db[f] # Null /\ db'[f] = db[f] /\ ChainOK(f)
        /\ db[f].user \in UserIds /\ db[f].user # u
        /\ db[f].origin \in LoginValues \cup RefreshValues
        /\ db[f].sign_in \in LoginValues
    BY <1>1, <1>2 DEF ChainsOK, RefreshRow
  <2>2. db[db[f].user] # db[u]
    BY <1>1, <2>1 DEF AccountsOK
  <2>3. db'[db[f].sign_in] = db[db[f].sign_in]
    BY <1>1, <2>1, <2>2 DEF ChainOK
  <2>4. db'[db[f].origin] = db[db[f].origin]
    <3>1. CASE db[f].origin \in LoginValues
      BY <2>1, <2>3, <3>1 DEF ChainOK
    <3>2. CASE db[f].origin \in RefreshValues
      BY <1>1, <2>1, <3>2 DEF ChainOK
    <3> QED BY <2>1, <3>1, <3>2
  <2> QED BY <1>1, <2>1, <2>3, <2>4
<1>3. ChainsOK'
  BY <1>2 DEF ChainsOK, ChainOK
<1>4. SuccessorsOK'
  <2>1. ASSUME NEW v \in LoginValues \cup RefreshValues, db'[v] # Null, db'[v].used
        PROVE  \E f \in RefreshValues : db'[f] # Null /\ db'[f].origin = v
    <3>1. db[v] # Null /\ db'[v] = db[v]
      BY <1>1, <2>1
    <3>2. PICK f \in RefreshValues : db[f] # Null /\ db[f].origin = v
      BY <2>1, <3>1 DEF SuccessorsOK
    <3>3. ChainOK(f) /\ db[f].user \in UserIds
      BY <3>2 DEF ChainsOK, RefreshRow
    <3>4. db[f].user # u
      <4>1. CASE v \in LoginValues
        BY <1>1, <2>1, <3>1, <3>2, <3>3, <4>1 DEF ChainOK
      <4>2. CASE v \in RefreshValues
        BY <1>1, <2>1, <3>1, <3>2, <3>3, <4>2 DEF ChainOK
      <4> QED BY <4>1, <4>2
    <3> QED BY <1>1, <3>2, <3>4
  <2> QED BY <1>2, <2>1 DEF SuccessorsOK
<1>5. AccountsOK'
  BY <1>1 DEF AccountsOK
<1> QED BY <1>3, <1>4, <1>5

\* So every operation keeps what is committed in order.
LEMMA CommittedStep ==
  ASSUME TypeOK, TypeOK', CommittedInv, [Lifecycle!Next]_db
  PROVE  CommittedInv'
<1> USE KeysApart, RowThere
<1>1. ASSUME NEW v \in LoginValues, NEW u \in UserIds, NEW f \in RefreshValues,
             Lifecycle!SignIn(v, u, f)
      PROVE  CommittedInv'
  <2>1. /\ db[v] # Null /\ db[u] = db[v].email /\ ~ db[v].used /\ db[f] = Null /\ v # f
        /\ db' = [db EXCEPT ![v].used = TRUE,
                            ![f] = [user |-> u, used |-> FALSE, revoked |-> FALSE,
                                    origin |-> v, sign_in |-> v]]
    BY <1>1 DEF Lifecycle!SignIn, Lifecycle!Exchange
  <2>2. /\ \A w \in UserIds : db'[w] = db[w]
        /\ \A k \in (LoginValues \cup RefreshValues) \ {v, f} : db'[k] = db[k]
        /\ db'[v] = [db[v] EXCEPT !.used = TRUE]
        /\ db'[f] = [user |-> u, used |-> FALSE, revoked |-> FALSE, origin |-> v,
                     sign_in |-> v]
    <3>1. PICK row : row = [user |-> u, used |-> FALSE, revoked |-> FALSE, origin |-> v,
                            sign_in |-> v]
      OBVIOUS
    <3>0. DOMAIN db = Keys /\ db = [k \in Keys |-> db[k]]
      BY DomainOf
    <3>2. v \in Keys /\ f \in Keys /\ v # f
      BY <2>1
    <3>3. db' = [db EXCEPT ![v].used = TRUE, ![f] = row]
      BY <2>1, <3>1
    <3>4. /\ \A k \in Keys \ {v, f} : db'[k] = db[k]
          /\ db'[v] = [db[v] EXCEPT !.used = TRUE]
          /\ db'[f] = row
      BY ONLY <3>0, <3>2, <3>3
    <3> QED BY <3>1, <3>4
  <2>3. db'[u] = db[v].email
    BY <2>1, <2>2
  <2>4. /\ v \in LoginValues \cup RefreshValues /\ ~ (v \in RefreshValues)
        /\ db[v] # Null /\ ~ db[v].used /\ db[f] = Null
    BY <2>1
  <2> QED BY ONLY TypeOK, TypeOK', CommittedInv, <2>2, <2>3, <2>4, ExchangeKeeps
<1>2. ASSUME NEW v \in LoginValues, NEW u \in UserIds, NEW f \in RefreshValues,
             Lifecycle!SignUp(v, u, f)
      PROVE  CommittedInv'
  <2>1. /\ db[v] # Null /\ ~ db[v].used /\ db[u] = Null /\ db[f] = Null /\ v # f
        /\ \A x \in UserIds : db[x] # db[v].email
        /\ db' = [db EXCEPT ![u] = db[v].email, ![v].used = TRUE,
                            ![f] = [user |-> u, used |-> FALSE, revoked |-> FALSE,
                                    origin |-> v, sign_in |-> v]]
    BY <1>2 DEF Lifecycle!SignUp
  <2>2. /\ \A w \in UserIds : IF w = u THEN db'[w] = db[v].email ELSE db'[w] = db[w]
        /\ \A k \in (LoginValues \cup RefreshValues) \ {v, f} : db'[k] = db[k]
        /\ db'[v] = [db[v] EXCEPT !.used = TRUE]
        /\ db'[f] = [user |-> u, used |-> FALSE, revoked |-> FALSE, origin |-> v,
                     sign_in |-> v]
    <3>1. PICK row : row = [user |-> u, used |-> FALSE, revoked |-> FALSE, origin |-> v,
                            sign_in |-> v]
      OBVIOUS
    <3>0. /\ DOMAIN db = Keys /\ db = [k \in Keys |-> db[k]]
          /\ u \in Keys /\ v \in Keys /\ f \in Keys /\ u # v /\ u # f /\ v # f
      BY <2>1, DomainOf
    <3>2. db' = [db EXCEPT ![u] = db[v].email, ![v].used = TRUE, ![f] = row]
      BY <2>1, <3>1
    <3>3. /\ \A k \in Keys \ {u, v, f} : db'[k] = db[k]
          /\ db'[u] = db[v].email
          /\ db'[v] = [db[v] EXCEPT !.used = TRUE]
          /\ db'[f] = row
      BY ONLY <3>0, <3>2
    <3>4. /\ v \in Keys \ {u, f} /\ \A w \in UserIds \ {u} : w \in Keys \ {u, v, f}
          /\ \A k \in (LoginValues \cup RefreshValues) \ {v, f} : k \in Keys \ {u, v, f}
      BY <2>1
    <3> QED BY ONLY <3>1, <3>3, <3>4
  <2>3. /\ db'[u] = db[v].email
        /\ \A w \in UserIds : \/ db'[w] = db[w]
                             \/ /\ w = u /\ db[u] = Null /\ v \in LoginValues
                                /\ \A x \in UserIds : db[x] # db[v].email
    BY <2>1, <2>2
  <2>4. /\ v \in LoginValues \cup RefreshValues /\ ~ (v \in RefreshValues)
        /\ db[v] # Null /\ ~ db[v].used /\ db[f] = Null
    BY <2>1
  <2> QED BY ONLY TypeOK, TypeOK', CommittedInv, <2>2, <2>3, <2>4, ExchangeKeeps
<1>3. ASSUME NEW v \in RefreshValues, NEW f \in RefreshValues, Lifecycle!Rotate(v, f)
      PROVE  CommittedInv'
  <2>1. /\ db[v] # Null /\ ~ db[v].revoked /\ ~ db[v].used /\ db[f] = Null
        /\ db' = [db EXCEPT ![v].used = TRUE,
                            ![f] = [user |-> db[v].user, used |-> FALSE, revoked |-> FALSE,
                                    origin |-> v, sign_in |-> db[v].sign_in]]
    BY <1>3 DEF Lifecycle!Rotate, Lifecycle!Exchange
  <2>2. v # f /\ db[v].user \in UserIds /\ db[v].sign_in \in LoginValues
    BY <2>1 DEF RefreshRow
  <2>3. PICK u \in UserIds, s \in LoginValues : u = db[v].user /\ s = db[v].sign_in
    BY <2>2
  <2>4. /\ \A w \in UserIds : db'[w] = db[w]
        /\ \A k \in (LoginValues \cup RefreshValues) \ {v, f} : db'[k] = db[k]
        /\ db'[v] = [db[v] EXCEPT !.used = TRUE]
        /\ db'[f] = [user |-> u, used |-> FALSE, revoked |-> FALSE, origin |-> v,
                     sign_in |-> s]
    <3>1. PICK row : row = [user |-> u, used |-> FALSE, revoked |-> FALSE, origin |-> v,
                            sign_in |-> s]
      OBVIOUS
    <3>0. DOMAIN db = Keys /\ db = [k \in Keys |-> db[k]]
      BY DomainOf
    <3>2. v \in Keys /\ f \in Keys /\ v # f
      BY <2>2
    <3>3. db' = [db EXCEPT ![v].used = TRUE, ![f] = row]
      BY <2>1, <2>3, <3>1
    <3>4. /\ \A k \in Keys \ {v, f} : db'[k] = db[k]
          /\ db'[v] = [db[v] EXCEPT !.used = TRUE]
          /\ db'[f] = row
      BY ONLY <3>0, <3>2, <3>3
    <3> QED BY <3>1, <3>4
  <2>5. /\ db[v] # Null /\ db[f] = Null /\ ~ db[v].used
        /\ v \in LoginValues \cup RefreshValues
        /\ v \in LoginValues => s = v /\ db'[u] = db[v].email
        /\ v \in RefreshValues => ~ db[v].revoked /\ u = db[v].user /\ s = db[v].sign_in
    BY <2>1, <2>3
  <2> QED BY ONLY TypeOK, TypeOK', CommittedInv, <2>4, <2>5, ExchangeKeeps
<1>4. CASE UNCHANGED db
  BY <1>4 DEF CommittedInv, ChainsOK, ChainOK, SuccessorsOK, AccountsOK
<1> QED BY <1>1, <1>2, <1>3, <1>4, MarkKeeps, DeletionKeeps DEF Lifecycle!Next
-------------------------------------------------------------------------------
(* The theorems. *)

\* The invariant holds initially,
LEMMA TokenInit == Init => TokenInv
<1> SUFFICES ASSUME Init PROVE TokenInv
  OBVIOUS
<1> USE KeysApart DEF Init
<1>1. TypeOK
  BY DEF TypeOK, Steps
<1>2. CommittedInv
  BY DEF CommittedInv, ChainsOK, SuccessorsOK, AccountsOK, Keys
<1>3. RequestsOK
  BY DEF RequestsOK, RequestOK, StepOK, HandOK, LocksOK, HoldsOK, HasUserRow, HasToken, HasAll
<1>4. EmailsOK /\ UnlockedOK
  BY DEF EmailsOK, UnlockedOK
<1> QED BY <1>1, <1>2, <1>3, <1>4 DEF TokenInv

\* and every step keeps it.
LEMMA TokenStep == TokenInv /\ [Next]_vars => TokenInv'
<1> SUFFICES ASSUME TokenInv, [Next]_vars PROVE TokenInv'
  OBVIOUS
<1>1. TypeOK'
  <2>1. ASSUME NEW q \in Requests, RequestAction(q) PROVE TypeOK'
    <3>1. RowsTyped' /\ LocalsTyped' /\ ExpiredTyped'
      BY <2>1, TypeStep, LocalsStep DEF TokenInv, RequestsOK
    <3> QED BY <3>1 DEF TypeOK, RowsTyped, LocalsTyped, ExpiredTyped
  <2>2. CASE UNCHANGED vars
    BY <2>2 DEF vars, table, locals, TokenInv, TypeOK
  <2>3. ASSUME NEW v \in LoginValues \cup RefreshValues, Expire(v) PROVE TypeOK'
    BY <2>3 DEF Expire, table, locals, TokenInv, TypeOK, Stored
  <2> QED BY <2>1, <2>2, <2>3 DEF Next, RequestAction
<1>2. CommittedInv'
  BY <1>1, LifecycleImplemented, CommittedStep DEF TokenInv
<1>3. RequestsOK' /\ EmailsOK' /\ UnlockedOK'
  <2>1. ASSUME NEW q \in Requests, RequestAction(q)
        PROVE  RequestsOK' /\ EmailsOK' /\ UnlockedOK'
    BY <2>1, RequestsStep, EmailsStep, UnlockedStep
  <2>2. CASE UNCHANGED <<table, pc, locals>>
    <3>1. UNCHANGED <<db, draft, lock, pc, op, value, email, uid>>
      BY <2>2 DEF table, locals
    <3>2. RequestsOK'
      <4> SUFFICES ASSUME NEW q \in Requests PROVE RequestOK(q)'
        BY DEF RequestsOK
      <4>1. StepOK(q) /\ HandOK(q) /\ LocksOK(q) /\ HoldsOK(q)
        BY DEF TokenInv, RequestsOK, RequestOK
      <4>2. StepOK(q)' /\ HandOK(q)'
        BY <3>1, <4>1 DEF StepOK, HandOK, HasEmail, HasUid
      <4>3. LocksOK(q)'
        <5>1. Successor(q)' = Successor(q)
          BY <3>1 DEF Successor
        <5>2. ASSUME NEW k \in Keys, lock'[k] = q PROVE Held(q, k)'
          <6>1. HeldUser(q, k)' <=> HeldUser(q, k)
            BY <3>1 DEF HeldUser
          <6>2. HeldLogin(q, k)' <=> HeldLogin(q, k)
            BY <3>1 DEF HeldLogin
          <6>3. HeldRefresh(q, k)' <=> HeldRefresh(q, k)
            BY <3>1, <5>1 DEF HeldRefresh
          <6> QED BY <3>1, <4>1, <5>2, <6>1, <6>2, <6>3 DEF LocksOK, Held
        <5> QED BY <5>2 DEF LocksOK
      <4>4. HoldsOK(q)'
        <5>1. /\ HasUserRow(q)' <=> HasUserRow(q)
              /\ HasToken(q)' <=> HasToken(q)
              /\ HasAll(q)' <=> HasAll(q)
          BY <3>1 DEF HasUserRow, HasToken, HasAll
        <5>2. /\ OneNew(q, LoginValues)' <=> OneNew(q, LoginValues)
              /\ OneNew(q, RefreshValues)' <=> OneNew(q, RefreshValues)
          BY <3>1 DEF OneNew
        <5> QED BY <3>1, <4>1, <5>1, <5>2 DEF HoldsOK
      <4> QED BY <4>2, <4>3, <4>4 DEF RequestOK
    <3> QED BY <3>1, <3>2 DEF TokenInv, EmailsOK, UnlockedOK
  <2> QED BY <2>1, <2>2, StepCases
<1> QED BY <1>1, <1>2, <1>3 DEF TokenInv

\* So it always holds.
LEMMA TokenAlways == Spec => []TokenInv
BY TokenInit, TokenStep, PTL DEF Spec

\* Every variable keeps its type: a token row is a token row and a user row a
\* user row, at every statement of every request.
THEOREM TokensTyped == Spec => []TypeOK
<1>1. TokenInv => TypeOK
  BY DEF TokenInv
<1> QED BY <1>1, TokenAlways, PTL

\* A token has one successor if it was used and none if not, or revoked, however
\* many requests present it at once (UPDATE ... WHERE used_at IS NULL, one
\* transaction with the insertion of the successor).
THEOREM TokensExchangedOnce == Spec => []ExchangedOnce
<1>1. TokenInv => ExchangedOnce
  <2> SUFFICES ASSUME TokenInv, NEW v \in Stored(LoginValues \cup RefreshValues)
               PROVE  /\ Cardinality(Successors(v)) = IF db[v].used THEN 1 ELSE 0
                      /\ v \in RefreshValues /\ db[v].revoked => ~ db[v].used
    BY DEF ExchangedOnce
  <2>0. /\ v \in LoginValues \cup RefreshValues /\ db[v] # Null
        /\ ChainsOK /\ SuccessorsOK
    BY DEF Stored, TokenInv, CommittedInv
  <2>1. CASE db[v].used
    <3>1. PICK f \in RefreshValues : db[f] # Null /\ db[f].origin = v
      BY <2>0, <2>1 DEF SuccessorsOK
    <3>2. Successors(v) = {f}
      BY <2>0, <3>1 DEF Successors, Stored, SuccessorsOK
    <3> QED BY <2>0, <2>1, <3>2, FS_Singleton DEF SuccessorsOK
  <2>2. CASE ~ db[v].used
    <3>1. Successors(v) = {}
      BY <2>0, <2>2 DEF Successors, Stored, ChainsOK, ChainOK
    <3> QED BY <2>2, <3>1, FS_EmptySet
  <2> QED BY <2>1, <2>2
<1> QED BY <1>1, TokenAlways, PTL

\* However often its tokens are rotated, by however many requests at once, a
\* sign-in has one live refresh token at most.
THEOREM OneLiveToken == Spec => []OneLiveTokenPerSignIn
<1>1. TokenInv => OneLiveTokenPerSignIn
  BY DEF TokenInv, CommittedInv, SuccessorsOK, OneLiveTokenPerSignIn, Stored
<1> QED BY <1>1, TokenAlways, PTL

\* A refresh token belongs to the account its sign-in was for, and that account
\* and both tokens it comes from are there: no deletion of an account leaves a
\* chain behind, or part of one.
THEOREM ChainsStay == Spec => []ChainsStayInAccount
<1>1. TokenInv => ChainsStayInAccount
  BY DEF TokenInv, CommittedInv, ChainsOK, ChainOK, ChainsStayInAccount, Stored
<1> QED BY <1>1, TokenAlways, PTL

\* An email has one account, and an account has a refresh token from the sign-in
\* that created it: nothing is left of a verification that fails.
THEOREM AccountsFromSignIns == Spec => []AccountsComeFromSignIns
<1>1. TokenInv => AccountsComeFromSignIns
  BY DEF TokenInv, CommittedInv, AccountsOK, AccountsComeFromSignIns, Stored, UsersWith,
         RefreshesOf
<1> QED BY <1>1, TokenAlways, PTL

\* Whatever the interleaving and wherever a request fails, accounts and tokens
\* change one whole operation at a time.
THEOREM ImplementsTheLifecycle == Spec => ImplementsLifecycle
<1>1. Init => Lifecycle!Init
  BY DEF Init, Lifecycle!Init, Keys, Lifecycle!Keys
<1>2. TokenInv /\ [Next]_vars => [Lifecycle!Next]_db
  BY LifecycleImplemented
<1> QED BY <1>1, <1>2, TokenAlways, PTL DEF Spec, ImplementsLifecycle, Lifecycle!Spec
-------------------------------------------------------------------------------
(* Waiting. *)

\* A request that waits has a higher rank than the requests it waits for, unless
\* they wait for nobody.
Rank(q) ==
  CASE pc[q] \in {"insert_user", "lock_user", "revoke_refresh"} -> 3
    [] pc[q] \in {"consume_login", "delete_logins"} -> 2
    [] pc[q] \in {"consume_refresh", "delete_user"} -> 1
    [] OTHER -> 0

\* The rows of one table that a statement wants.
LEMMA WantedRows ==
  ASSUME TokenInv, NEW q \in Requests
  PROVE  /\ pc[q] \in {"insert_user", "lock_user"} => Wants(q) \subseteq UserIds
         /\ pc[q] \in {"consume_login", "delete_logins"} => Wants(q) \subseteq LoginValues
         /\ pc[q] \in {"consume_refresh", "revoke_refresh", "delete_user"}
              => Wants(q) \subseteq RefreshValues
         /\ Wants(q) # {} => Rank(q) # 0
<1>1. StepOK(q)
  BY DEF TokenInv, RequestsOK, RequestOK
<1>2. CASE pc[q] \in {"insert_user", "lock_user"}
  BY <1>1, <1>2, OpOfStep DEF Wants, Rank, Stored, StepOK, HasUid
<1>3. CASE pc[q] \in {"consume_login", "delete_logins"}
  BY <1>1, <1>3, OpOfStep DEF Wants, Rank, LoginsOf, Stored, StepOK
<1>4. CASE pc[q] \in {"consume_refresh", "revoke_refresh", "delete_user"}
  BY <1>1, <1>4, OpOfStep DEF Wants, Rank, RefreshesOf, Stored, StepOK
<1> QED BY <1>2, <1>3, <1>4 DEF Wants

\* The model's statements wait for the rows that Wants names: none is taken while
\* another transaction holds one of them.
LEMMA StatementsWait ==
  ASSUME TokenInv, NEW q \in Requests, Statement(q), NEW k \in Wants(q)
  PROVE  Free(q, k)
<1>1. CASE InsertUser(q)
  BY <1>1 DEF InsertUser, Wants
<1>2. CASE LockUser(q)
  <2>1. k = uid[q] /\ db[k] # Null
    BY <1>2 DEF LockUser, Wants, Stored
  <2> QED BY <1>2, <2>1 DEF LockUser, Sees, Free
<1>3. CASE ConsumeLogin(q) \/ ConsumeRefresh(q) \/ RevokeRefresh(q)
  BY <1>3 DEF ConsumeLogin, ConsumeRefresh, RevokeRefresh, Wants
<1>4. CASE DeleteLogins(q) \/ DeleteUser(q)
  BY <1>4 DEF DeleteLogins, DeleteUser, Wants
<1>5. CASE InsertLogin(q) \/ LookupLogin(q) \/ FindUser(q) \/ RereadUser(q) \/ Unhandled(q)
  BY <1>5 DEF InsertLogin, LookupLogin, FindUser, RereadUser, Unhandled, Wants
<1>6. CASE LookupRefresh(q) \/ InsertRefresh(q) \/ Commit(q)
  BY <1>6 DEF LookupRefresh, InsertRefresh, Commit, Wants
<1> QED BY <1>1, <1>2, <1>3, <1>4, <1>5, <1>6 DEF Statement

\* Two requests that hold the user row of one account are one request.
LEMMA OneAccountHolder ==
  ASSUME TokenInv, NEW q \in Requests, NEW p \in Requests,
         HasUserRow(q), HasUserRow(p),
         \/ uid[q] = uid[p]
         \/ /\ op[q] \in {"verify", "delete"} /\ op[p] \in {"verify", "delete"}
            /\ email[q] = email[p]
  PROVE  q = p
<1>1. /\ RequestOK(q) /\ RequestOK(p) /\ TypeOK /\ EmailsOK
      /\ lock[uid[q]] = q /\ lock[uid[p]] = p
  BY DEF TokenInv, RequestsOK, RequestOK, HoldsOK
<1>2. ASSUME NEW r \in Requests, r \in {q, p}, op[r] \in {"verify", "delete"}
      PROVE  uid[r] \in UserIds /\ email[r] \in Emails /\ email[r] \in {db[uid[r]], draft[uid[r]]}
  <2>1. StepOK(r) /\ HandOK(r) /\ LocksOK(r) /\ lock[uid[r]] = r /\ HasUserRow(r)
    BY <1>1, <1>2 DEF RequestOK
  <2>2. pc[r] # "idle" /\ HasUid(r) /\ HasEmail(r)
    BY <1>2, <2>1 DEF HasUserRow, HasUid, HasEmail, StepOK, StepsOf
  <2>3. uid[r] \in UserIds /\ email[r] \in Emails
    BY <2>1, <2>2 DEF StepOK
  <2>4. HeldUser(r, uid[r])
    BY <2>1, <2>3, KeysApart DEF LocksOK, Held
  <2> QED BY <1>2, <2>1, <2>2, <2>3, <2>4 DEF HandOK, HeldUser
<1>3. CASE uid[q] = uid[p]
  BY <1>1, <1>3
<1>4. CASE /\ op[q] \in {"verify", "delete"} /\ op[p] \in {"verify", "delete"}
           /\ email[q] = email[p]
  <2>1. uid[q] = uid[p]
    BY <1>1, <1>2, <1>4, KeysApart DEF EmailsOK
  <2> QED BY <1>1, <2>1
<1> QED BY <1>3, <1>4

\* What a request waits for has a lower rank: by the lock it holds,
LEMMA HoldersRankLower ==
  ASSUME TokenInv, NEW q \in Requests, NEW p \in Requests \ {q}, WaitsFor(p) # {},
         NEW k \in Wants(q), lock[k] = p
  PROVE  Rank(p) < Rank(q)
<1>1. /\ StepOK(p) /\ LocksOK(p) /\ TypeOK
      /\ \A r \in Requests : lock[k] = r => r = p
  BY DEF TokenInv, RequestsOK, RequestOK
<1>2. CASE pc[q] \in {"insert_user", "lock_user"}
  <2>1. k \in UserIds /\ HeldUser(p, k)
    BY <1>1, <1>2, WantedRows, KeysApart DEF LocksOK, Held
  <2>2. pc[p] # "lock_user"
    <3> SUFFICES ASSUME pc[p] = "lock_user" PROVE FALSE
      OBVIOUS
    <3>1. PICK r \in Requests \ {p} : Wants(p) \cap MayHave(r) # {}
      BY DEF WaitsFor
    <3>2. Wants(p) \subseteq {k}
      BY <2>1 DEF Wants, Stored, HeldUser
    <3>3. k \in MayHave(r)
      BY <3>1, <3>2
    <3>4. pc[r] \in {"delete_logins", "delete_user"} => k \notin Wants(r)
      BY <2>1, WantedRows, KeysApart
    <3> QED BY <1>1, <3>3, <3>4 DEF MayHave
  <2> QED BY <1>2, <2>1, <2>2 DEF HeldUser, Rank
<1>3. CASE pc[q] = "revoke_refresh" \/ pc[q] \in {"consume_refresh", "delete_user"}
  <2>1. k \in RefreshValues /\ HeldRefresh(p, k)
    BY <1>1, <1>3, WantedRows, KeysApart DEF LocksOK, Held
  <2> QED BY <1>3, <2>1 DEF HeldRefresh, Rank
<1>4. CASE pc[q] \in {"consume_login", "delete_logins"}
  <2>1. k \in LoginValues /\ HeldLogin(p, k)
    BY <1>1, <1>4, WantedRows, KeysApart DEF LocksOK, Held
  <2> QED BY <1>4, <2>1 DEF HeldLogin, Rank
<1> QED BY <1>2, <1>3, <1>4, WantedRows DEF Rank

\* or by what it takes next.
LEMMA TakersRankLower ==
  ASSUME TokenInv, NEW q \in Requests, NEW p \in Requests \ {q},
         pc[p] \in {"delete_logins", "delete_user"},
         NEW k \in Wants(q), k \in Wants(p)
  PROVE  Rank(p) < Rank(q)
<1>1. /\ StepOK(q) /\ StepOK(p) /\ HandOK(q)
      /\ op[p] = "delete" /\ HasUserRow(p)
  BY OpOfStep DEF TokenInv, RequestsOK, RequestOK, HasUserRow
<1>2. pc[q] \notin {"insert_user", "lock_user"}
  BY WantedRows, KeysApart
<1>3. CASE pc[q] = "revoke_refresh"
  BY <1>3 DEF Rank
<1>4. CASE pc[q] \in {"consume_login", "delete_logins"}
  <2>1. op[q] \in {"verify", "delete"} /\ HasUserRow(q)
    BY <1>1, <1>4, OpOfStep DEF HasUserRow
  <2>2. k \in LoginValues /\ pc[p] = "delete_logins"
    BY <1>4, WantedRows, KeysApart
  <2>3. db[k] # Null /\ db[k].email = email[p]
    BY <2>2 DEF Wants, LoginsOf, Stored
  <2>4. db[k].email = email[q]
    <3>1. CASE pc[q] = "consume_login"
      BY <1>1, <2>3, <3>1, OpOfStep DEF Wants, HandOK, HasEmail
    <3>2. CASE pc[q] = "delete_logins"
      BY <3>2 DEF Wants, LoginsOf
    <3> QED BY <1>4, <3>1, <3>2
  <2> QED BY <1>1, <2>1, <2>3, <2>4, OneAccountHolder
<1>5. CASE pc[q] \in {"consume_refresh", "delete_user"}
  <2>1. HasUserRow(q)
    BY <1>1, <1>5, OpOfStep DEF HasUserRow
  <2>2. k \in RefreshValues /\ pc[p] = "delete_user"
    BY <1>5, WantedRows, KeysApart
  <2>3. db[k] # Null /\ db[k].user = uid[p]
    BY <2>2 DEF Wants, RefreshesOf, Stored
  <2>4. db[k].user = uid[q]
    <3>1. CASE pc[q] = "consume_refresh"
      BY <1>1, <2>3, <3>1, OpOfStep DEF Wants, HandOK, HasUid
    <3>2. CASE pc[q] = "delete_user"
      BY <3>2 DEF Wants, RefreshesOf
    <3> QED BY <1>5, <3>1, <3>2
  <2> QED BY <1>1, <2>1, <2>3, <2>4, OneAccountHolder
<1> QED BY <1>2, <1>3, <1>4, <1>5 DEF Wants

\* Ranks are four, so some request has the lowest.
LEMMA LowestRank ==
  ASSUME NEW S \in SUBSET Requests, S # {}
  PROVE  \E q \in S : \A p \in S : Rank(q) <= Rank(p)
<1>1. \A q \in S : Rank(q) \in {0, 1, 2, 3}
  BY DEF Rank
<1> HIDE DEF Rank
<1>2. CASE \E q \in S : Rank(q) = 0
  BY <1>1, <1>2
<1>3. CASE (\A q \in S : Rank(q) # 0) /\ \E q \in S : Rank(q) = 1
  BY <1>1, <1>3
<1>4. CASE (\A q \in S : Rank(q) \notin {0, 1}) /\ \E q \in S : Rank(q) = 2
  BY <1>1, <1>4
<1>5. CASE \A q \in S : Rank(q) = 3
  BY <1>5
<1> QED BY <1>1, <1>2, <1>3, <1>4, <1>5

\* Whatever requests wait, one of them waits for none of the others: no number of
\* verifications, rotations, revocations and deletions makes a deadlock of their
\* locks on users, login tokens and refresh tokens.
THEOREM NobodyWaitsInCircles == Spec => []NoDeadlock
<1>1. TokenInv => NoDeadlock
  <2> SUFFICES ASSUME TokenInv, NEW S \in SUBSET Requests, S # {}
               PROVE  \E q \in S : WaitsFor(q) \cap S = {}
    BY DEF NoDeadlock
  <2>1. PICK q \in S : \A p \in S : Rank(q) <= Rank(p)
    BY LowestRank
  <2>2. ASSUME NEW p \in S, p \in WaitsFor(q), WaitsFor(p) # {}
        PROVE  FALSE
    <3>1. PICK k \in Wants(q) : k \in MayHave(p)
      BY <2>2 DEF WaitsFor
    <3>2. p \in Requests \ {q}
      BY <2>2 DEF WaitsFor
    <3>3. Rank(p) < Rank(q)
      BY <2>2, <3>1, <3>2, HoldersRankLower, TakersRankLower DEF MayHave
    <3>4. Rank(p) \in Nat /\ Rank(q) \in Nat
      BY DEF Rank
    <3> QED BY <2>1, <3>3, <3>4
  <2> QED BY <2>1, <2>2
<1> QED BY <1>1, TokenAlways, PTL
===============================================================================
