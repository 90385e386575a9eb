------------------------------ MODULE Accounts ------------------------------
(***************************************************************************)
(* Accounts and the requests that make, use and end them: the handlers     *)
(* signupStart, signupFinish, signinStart, signinFinish, renewAccessToken, *)
(* updateUser and deleteUser of src/api, with the statements of            *)
(* src/db/sqlc that they run, the pending ceremonies of src/tmpstore and   *)
(* the tokens of src/token.                                                *)
(*                                                                         *)
(* A request r is a goroutine; one action is one SQL statement or Redis    *)
(* command with the Go code up to the next one.  `users', `creds' and      *)
(* `sessions' hold committed rows; what a transaction has written and not  *)
(* committed is in mine[r] and reaches the tables in its commit.  A row of *)
(* users is locked by whoever has rewritten it.  The unique indexes take a *)
(* new row's entries all at once, and a statement that has waited sees the *)
(* tables as they are when it goes on.                                     *)
(***************************************************************************)
EXTENDS Integers, FiniteSets

CONSTANTS
  Req,                     \* requests that may be served at the same time
  Name, Email,             \* user names and emails that clients ask for
  None,                    \* "no value"
  FreedName, FreedEmail,   \* what soft_delete_user writes in their place
  MaxId,                   \* bound: account ids handed out
  MaxCeremony,             \* bound: sign-up and sign-in ceremonies begun
  MaxSession,              \* bound: sessions created
  MaxCount,                \* bound: sign counts an authenticator reports
  Expiring,                \* bound: the tokens that expire in a run, of {"access", "refresh"}
  Ops                      \* bound: the requests in use, a subset of OpName

(* "rename" stands for the updates that change the name alone. *)
OpName == {"signup_start", "signup_finish", "signin_start", "signin_finish",
           "renew", "rename", "update", "delete"}

ASSUME AccountsAssumption ==
  /\ IsFiniteSet(Req)
  /\ MaxId \in Nat /\ MaxCeremony \in Nat /\ MaxSession \in Nat /\ MaxCount \in Nat
  /\ Ops \subseteq OpName /\ Expiring \subseteq {"access", "refresh"}
  /\ None \notin Name \cup Email \cup {FreedName, FreedEmail}
  /\ FreedName \notin Name     \* strAlphanum refuses its underscores

VARIABLES
  users,         \* committed rows of table users
  creds,         \* sign count of the one credential of a user, -1 for no row
  sessions,      \* committed rows of table sessions, user 0 for no row
  pending,       \* Redis: ceremonies between their two requests
  nextUser,      \* the sequence behind users.id
  nextCeremony,  \* ceremony ids are fresh UUIDs
  nextSession,   \* session ids are fresh UUIDs
  access,        \* users for whom some access token is held that has not expired
  refresh,       \* refresh[s]: the refresh token that was answered with session s
  pc,            \* pc[r]: the statement or command r executes next
  call,          \* call[r]: what the client asked for
  seen,          \* seen[r]: what r learned from earlier statements
  mine           \* mine[r]: what the open transaction of r has written

tables == <<users, creds, sessions>>
vars == <<users, creds, sessions, pending, nextUser, nextCeremony, nextSession, access,
          refresh, pc, call, seen, mine>>

-----------------------------------------------------------------------------
(* Rows and requests *)

Id       == 1..MaxId
Ceremony == 1..MaxCeremony
Session  == 1..MaxSession
Count    == 0..MaxCount

NoUser == [status |-> "absent", name |-> None, email |-> None, handle |-> 0]
UserRow ==
  {NoUser}
  \cup [status : {"active"}, name : Name, email : Email, handle : Ceremony]
  \cup [status : {"deleted"}, name : {FreedName}, email : {FreedEmail}, handle : Ceremony]

Exists(i) == users[i].status # "absent"
Active(i) == users[i].status = "active"

(* A refresh token is signed: its user cannot be changed, and whether it has *)
(* expired shows when it is verified.                                      *)
NoToken == [user |-> 0, state |-> "none"]
RefreshToken == {NoToken} \cup [user : Id, state : {"valid", "expired"}]
TokenFor(i) == [user |-> i, state |-> "valid"]

(* A session row; `by' is the ceremony and sign count that earned it and    *)
(* whether RecordCredentialUse accepted the count.  The code keeps only the *)
(* user (and the tokens), `by' is there for the properties.                *)
NoSession == [user |-> 0, by |-> [ceremony |-> 0, count |-> 0, recorded |-> FALSE]]

Pending == [kind : {"none", "reg", "auth"}, name : Name \cup {None},
            email : Email \cup {None}, user : 0..MaxId]
NoPending == [kind |-> "none", name |-> None, email |-> None, user |-> 0]

NoCall == [op |-> "none", name |-> None, email |-> None, ceremony |-> 0, count |-> 0,
           user |-> 0, session |-> 0]

(* What a client may ask for; what an operation does not use stays as in   *)
(* NoCall.                                                                 *)
CallsOf(op, names, emails, ceremonies, counts, ids, ss) ==
  [op : {op}, name : names, email : emails, ceremony : ceremonies, count : counts,
   user : ids, session : ss]
Calls ==
  CallsOf("signup_start", Name, Email, {0}, {0}, {0}, {0})
  \cup CallsOf("signup_finish", {None}, {None}, Ceremony, {0}, {0}, {0})
  \cup CallsOf("signin_start", Name, {None}, {0}, {0}, {0}, {0})
  \cup CallsOf("signin_finish", {None}, {None}, Ceremony, Count, {0}, {0})
  \cup CallsOf("renew", {None}, {None}, {0}, {0}, {0}, Session)
  \cup CallsOf("update", Name \cup {None}, Email \cup {None}, {0}, {0}, Id, {0})
  \cup CallsOf("delete", {None}, {None}, {0}, {0}, Id, {0})

FirstStep == [signup_start |-> "name_exists", signup_finish |-> "get_reg",
              signin_start |-> "find_user", signin_finish |-> "get_auth",
              renew |-> "get_session", update |-> "update_row", delete |-> "del_sessions"]

NothingSeen == [user |-> 0, recorded |-> FALSE, session |-> 0]
NothingMine == [id |-> 0, row |-> NoUser, gone |-> {}]

-----------------------------------------------------------------------------
(* PostgreSQL: row locks and unique indexes *)

(* Requests that have rewritten row i of users and not committed. *)
RowHolders(r, i) == {s \in Req \ {r} : mine[s].id = i}

(* users_webauthn_user_handle_key holds for every row, uniq_users_email_active *)
(* and uniq_users_username_active for rows that are not deleted.           *)
HandleIndexOnActive(a, b) ==
  /\ a.status = "active" /\ b.status = "active"
  /\ a.name = b.name \/ a.email = b.email \/ a.handle = b.handle
SameKey(a, b) ==
  \/ a.status # "absent" /\ b.status # "absent" /\ a.handle = b.handle
  \/ /\ a.status = "active" /\ b.status = "active"
     /\ a.name = b.name \/ a.email = b.email

(* A row that another transaction has inserted, changed or deleted without  *)
(* committing decides a collision only when that transaction ends.         *)
UniqueWaits(r, row) ==
  {s \in Req \ {r} : /\ mine[s].id \in Id
                     /\ \/ SameKey(row, users[mine[s].id])
                        \/ pc[s] \in {"create_cred", "commit_signup"} /\ SameKey(row, mine[s].row)}

Collides(i, row) == \E j \in Id \ {i} : SameKey(row, users[j])

(* Rows of sessions and credentials that another open deletion of the same  *)
(* account has deleted.                                                    *)
SessionWaits(r, i) ==
  {s \in Req \ {r} : \E x \in mine[s].gone : sessions[x].user = i}
CredWaits(r, i) ==
  {s \in Req \ {r} : /\ call[s].user = i /\ creds[i] # -1
                     /\ pc[s] \in {"soft_delete", "commit_delete"}}

-----------------------------------------------------------------------------
(* What the statements decide *)

(* The row createUser inserts for the registration that is pending. *)
NewUser(k) == [status |-> "active", name |-> pending[k].name, email |-> pending[k].email,
               handle |-> k]

(* update_user keeps what the request leaves out. *)
UpdatedToNull(row, c) == [row EXCEPT !.name = c.name, !.email = c.email]
Updated(row, c) ==
  [row EXCEPT !.name  = IF c.name = None THEN @ ELSE c.name,
              !.email = IF c.email = None THEN @ ELSE c.email]

(* WHERE u.is_deleted = false, on the row as it is once it is locked. *)
UpdatableWhenDeleted(row) == row.status # "absent"
Updatable(row) == row.status = "active"

Deleted(row) == [row EXCEPT !.status = "deleted", !.name = FreedName, !.email = FreedEmail]

(* The policy of record_credential_use. *)
SuspiciousIfLower(new, stored) == new < stored
Suspicious(new, stored) == new <= stored /\ (new # 0 \/ stored # 0)

(* DELETE FROM webauthn_credentials WHERE user_id = ... *)
CredKept(i) == creds[i]
CredDeleted(i) == -1

-----------------------------------------------------------------------------
(* Waiting *)

WaitsFor(r) ==
  CASE pc[r] = "create_user"    -> UniqueWaits(r, mine[r].row)
    [] pc[r] = "create_session" -> RowHolders(r, seen[r].user)
    [] pc[r] = "record_use"     -> CredWaits(r, seen[r].user)
    [] pc[r] = "update_row"     -> RowHolders(r, call[r].user)
    [] pc[r] = "update_index"   -> UniqueWaits(r, mine[r].row)
    [] pc[r] = "del_sessions"   -> SessionWaits(r, call[r].user)
    [] pc[r] = "del_creds"      -> CredWaits(r, call[r].user)
    [] pc[r] = "soft_delete"    -> RowHolders(r, call[r].user)
    [] OTHER                    -> {}

Granted(r) == WaitsFor(r) = {}

(* r waits, through others, for itself. *)
NeverDetected(r) == FALSE
Deadlocked(r) ==
  \A S \in SUBSET Req :
    (WaitsFor(r) \subseteq S /\ \A s \in S : WaitsFor(s) \subseteq S) => r \in S

-----------------------------------------------------------------------------
(* Steps every request shares *)

At(r, step)   == pc[r] = step
Goto(r, step) == pc' = [pc EXCEPT ![r] = step]

counters == <<nextUser, nextCeremony, nextSession>>
tokens   == <<access, refresh>>

(* What a step leaves alone that only moves r on. *)
Stays == UNCHANGED <<tables, pending, counters, tokens, call>>

(* The handler answers; a transaction that is still open is rolled back. *)
Close(r) ==
  /\ Goto(r, "idle")
  /\ call' = [call EXCEPT ![r] = NoCall]
  /\ seen' = [seen EXCEPT ![r] = NothingSeen]
  /\ mine' = [mine EXCEPT ![r] = NothingMine]

Refuse(r) == Close(r) /\ UNCHANGED <<tables, pending, counters, tokens>>

(* Bound: a request begins only while there is room for what it and those   *)
(* under way may still number, so that no bound stops it on the way.       *)
Running(ops) == Cardinality({r \in Req : call[r].op \in ops})
Room(op) ==
  /\ op \in {"signup_start", "signin_start"} =>
       nextCeremony + Running({"signup_start", "signin_start"}) <= MaxCeremony
  /\ op = "signup_finish" => nextUser + Running({"signup_finish"}) <= MaxId
  /\ op \in {"signup_finish", "signin_finish"} =>
       nextSession + Running({"signup_finish", "signin_finish"}) <= MaxSession

(* authMiddleware verifies the token and looks at nothing else, so any      *)
(* token made for the user will do.                                        *)
Verified(t) == t.state = "valid"
VerifiedAnyAge(t) == t.state # "none"
Bearer(i) == i \in access \/ \E s \in Session : Verified(refresh[s]) /\ refresh[s].user = i

(* A client names a ceremony or shows a refresh token it has been given,    *)
(* and acts on an account only with a token for it.                        *)
MayAsk(c) ==
  /\ c.op \in {"signup_finish", "signin_finish"} => c.ceremony < nextCeremony
  /\ c.op = "renew" => refresh[c.session] # NoToken
  /\ c.op \in {"update", "delete"} => Bearer(c.user)

InUse(c) ==
  \/ c.op \in Ops
  \/ "rename" \in Ops /\ c.op = "update" /\ c.email = None /\ c.name # None

Begin(r) ==
  /\ At(r, "idle")
  /\ \E c \in Calls :
       /\ InUse(c) /\ Room(c.op) /\ MayAsk(c)
       /\ Goto(r, FirstStep[c.op])
       /\ call' = [call EXCEPT ![r] = c]
  /\ UNCHANGED <<tables, pending, counters, tokens, seen, mine>>

(* A database or Redis error at a step whose error the handler answers. *)
ConnectionLost(r) ==
  /\ pc[r] \notin {"idle", "record_use", "del_reg", "del_auth"}
  /\ Refuse(r)

DeadlockAbort(r) ==
  /\ Deadlocked(r)
  /\ Refuse(r)

(* Time passes. *)
ExpireAccess(i) ==
  /\ "access" \in Expiring /\ i \in access
  /\ access' = access \ {i}
  /\ UNCHANGED <<tables, pending, counters, refresh, pc, call, seen, mine>>

ExpireRefresh(s) ==
  /\ "refresh" \in Expiring /\ refresh[s].state = "valid"
  /\ refresh' = [refresh EXCEPT ![s].state = "expired"]
  /\ UNCHANGED <<tables, pending, counters, access, pc, call, seen, mine>>

(* Redis drops a ceremony whose time to live is over. *)
Expire(k) ==
  /\ pending[k] # NoPending
  /\ pending' = [pending EXCEPT ![k] = NoPending]
  /\ UNCHANGED <<tables, counters, tokens, pc, call, seen, mine>>

-----------------------------------------------------------------------------
(* signupStart *)

NameExists(r) ==
  /\ At(r, "name_exists")
  /\ IF \E i \in Id : users[i].name = call[r].name
     THEN Refuse(r)
     ELSE Goto(r, "email_exists") /\ Stays /\ UNCHANGED <<seen, mine>>

EmailExists(r) ==
  /\ At(r, "email_exists")
  /\ IF \E i \in Id : users[i].email = call[r].email
     THEN Refuse(r)
     ELSE Goto(r, "save_reg") /\ Stays /\ UNCHANGED <<seen, mine>>

(* Also when its answer is lost, Redis has the entry. *)
SavePending(r, entry) ==
  /\ nextCeremony <= MaxCeremony
  /\ pending' = [pending EXCEPT ![nextCeremony] = entry]
  /\ nextCeremony' = nextCeremony + 1
  /\ Close(r)
  /\ UNCHANGED <<tables, nextUser, nextSession, tokens>>

SaveReg(r) ==
  /\ At(r, "save_reg")
  /\ SavePending(r, [kind |-> "reg", name |-> call[r].name, email |-> call[r].email,
                     user |-> 0])

(* The handlers drop the error of DeleteUserRegSession, DeleteUserAuthSession. *)
DropPending(r) ==
  \/ pending' = [pending EXCEPT ![call[r].ceremony] = NoPending]
  \/ UNCHANGED pending

-----------------------------------------------------------------------------
(* signupFinish, CreateUserWithCredentialsTx, generateAuthTokens *)

(* The pending registration is read, checked against the clock and used to  *)
(* verify the client's answer; the handler goes on with its copy.          *)
GetReg(r) ==
  LET k == call[r].ceremony
  IN /\ At(r, "get_reg")
     /\ \/ Refuse(r)
        \/ /\ pending[k].kind = "reg"
           /\ mine' = [mine EXCEPT ![r].row = NewUser(k)]
           /\ Goto(r, "create_user")
           /\ Stays /\ UNCHANGED seen

(* A refused row has used up its id. *)
CreateUser(r) ==
  /\ At(r, "create_user") /\ Granted(r)
  /\ nextUser <= MaxId
  /\ nextUser' = nextUser + 1
  /\ UNCHANGED <<tables, pending, nextCeremony, nextSession, tokens>>
  /\ IF Collides(nextUser, mine[r].row)
     THEN Close(r)
     ELSE /\ mine' = [mine EXCEPT ![r].id = nextUser]
          /\ Goto(r, "create_cred")
          /\ UNCHANGED <<call, seen>>

CreateCred(r) ==
  /\ At(r, "create_cred")
  /\ Goto(r, "commit_signup")
  /\ Stays /\ UNCHANGED <<seen, mine>>

(* With the commit's answer lost the client is told of an internal error. *)
CommitSignup(r) ==
  LET i == mine[r].id
  IN /\ At(r, "commit_signup")
     /\ users' = [users EXCEPT ![i] = mine[r].row]
     /\ creds' = [creds EXCEPT ![i] = 0]
     /\ UNCHANGED <<sessions, pending, counters, tokens>>
     /\ \/ Close(r)
        \/ /\ mine' = [mine EXCEPT ![r] = NothingMine]
           /\ seen' = [seen EXCEPT ![r].user = i]
           /\ Goto(r, "del_reg")
           /\ UNCHANGED call

DelReg(r) ==
  /\ At(r, "del_reg")
  /\ DropPending(r)
  /\ Goto(r, "create_session")
  /\ UNCHANGED <<tables, counters, tokens, call, seen, mine>>

(* generateAuthTokens: the answer carries an access token and a refresh     *)
(* token whose id is the session's.                                        *)
HandOut(i, s) ==
  /\ access' = access \cup {i}
  /\ refresh' = [refresh EXCEPT ![s] = TokenFor(i)]

(* The foreign key has the row of the user locked, whoever is deleting it   *)
(* decides first; the row is there afterwards all the same.                *)
CreateSession(r) ==
  /\ At(r, "create_session") /\ Granted(r)
  /\ nextSession <= MaxSession
  /\ sessions' = [sessions EXCEPT ![nextSession] =
       [user |-> seen[r].user,
        by   |-> [ceremony |-> call[r].ceremony, count |-> call[r].count,
                  recorded |-> seen[r].recorded]]]
  /\ nextSession' = nextSession + 1
  /\ UNCHANGED <<users, creds, pending, nextUser, nextCeremony>>
  /\ \/ Close(r) /\ UNCHANGED tokens
     \/ /\ call[r].op = "signup_finish"
        /\ Close(r)
        /\ HandOut(seen[r].user, nextSession)
     \/ /\ call[r].op = "signin_finish"
        /\ seen' = [seen EXCEPT ![r].session = nextSession]
        /\ Goto(r, "del_auth")
        /\ UNCHANGED <<tokens, call, mine>>

-----------------------------------------------------------------------------
(* signinStart *)

FindUser(r) ==
  /\ At(r, "find_user")
  /\ \/ /\ \A i \in Id : users[i].name # call[r].name
        /\ Refuse(r)
     \/ \E i \in Id :
          /\ users[i].name = call[r].name
          /\ seen' = [seen EXCEPT ![r].user = i]
          /\ Goto(r, "get_creds")
          /\ Stays /\ UNCHANGED mine

(* BeginLogin refuses a user without credentials. *)
GetCreds(r) ==
  /\ At(r, "get_creds")
  /\ IF creds[seen[r].user] = -1
     THEN Refuse(r)
     ELSE Goto(r, "save_auth") /\ Stays /\ UNCHANGED <<seen, mine>>

SaveAuth(r) ==
  /\ At(r, "save_auth")
  /\ SavePending(r, [kind |-> "auth", name |-> None, email |-> None, user |-> seen[r].user])

-----------------------------------------------------------------------------
(* signinFinish *)

GetAuth(r) ==
  LET k == call[r].ceremony
  IN /\ At(r, "get_auth")
     /\ \/ Refuse(r)
        \/ /\ pending[k].kind = "auth"
           /\ seen' = [seen EXCEPT ![r].user = pending[k].user]
           /\ Goto(r, "get_user")
           /\ Stays /\ UNCHANGED mine

GetUser(r) ==
  /\ At(r, "get_user")
  /\ IF Active(seen[r].user)
     THEN Goto(r, "get_user_creds") /\ Stays /\ UNCHANGED <<seen, mine>>
     ELSE Refuse(r)

(* FinishLogin verifies the answer against the credentials just read. *)
GetUserCreds(r) ==
  /\ At(r, "get_user_creds")
  /\ \/ Refuse(r)
     \/ /\ creds[seen[r].user] # -1
        /\ Goto(r, "record_use")
        /\ Stays /\ UNCHANGED <<seen, mine>>

RecordUse(r) ==
  LET i == seen[r].user
      c == call[r].count
  IN /\ At(r, "record_use") /\ Granted(r)
     /\ IF creds[i] = -1 \/ Suspicious(c, creds[i])
        THEN Refuse(r)
        ELSE /\ creds' = [creds EXCEPT ![i] = c]
             /\ seen' = [seen EXCEPT ![r].recorded = TRUE]
             /\ Goto(r, "create_session")
             /\ UNCHANGED <<users, sessions, pending, counters, tokens, call, mine>>

(* Only KindSecurity and KindNotFound end the sign-in: with any other error *)
(* it goes on, whether or not the count was stored.                        *)
RecordUseError(r) ==
  LET i == seen[r].user
      c == call[r].count
  IN /\ At(r, "record_use")
     /\ \/ UNCHANGED creds
        \/ /\ Granted(r) /\ creds[i] # -1 /\ ~Suspicious(c, creds[i])
           /\ creds' = [creds EXCEPT ![i] = c]
     /\ Goto(r, "create_session")
     /\ UNCHANGED <<users, sessions, pending, counters, tokens, call, seen, mine>>

DelAuth(r) ==
  /\ At(r, "del_auth")
  /\ DropPending(r)
  /\ Close(r)
  /\ HandOut(seen[r].user, seen[r].session)
  /\ UNCHANGED <<tables, counters>>

-----------------------------------------------------------------------------
(* renewAccessToken: the session must be there and be that of the token;   *)
(* the user is not looked at.  No statement ever blocks a session.         *)

RenewableAnyAge(t, s) == VerifiedAnyAge(t) /\ sessions[s].user = t.user
Renewable(t, s) == Verified(t) /\ sessions[s].user = t.user

GetSession(r) ==
  LET s == call[r].session
  IN /\ At(r, "get_session")
     /\ IF Renewable(refresh[s], s)
        THEN /\ seen' = [seen EXCEPT ![r].user = refresh[s].user]
             /\ Goto(r, "renew_access")
             /\ Stays /\ UNCHANGED mine
        ELSE Refuse(r)

RenewAccess(r) ==
  /\ At(r, "renew_access")
  /\ access' = access \cup {seen[r].user}
  /\ Close(r)
  /\ UNCHANGED <<tables, pending, counters, refresh>>

-----------------------------------------------------------------------------
(* UpdateUser: the row is locked and rewritten, then its new index entries  *)
(* go in and the statement commits by itself.                              *)

UpdateRow(r) ==
  LET i == call[r].user
  IN /\ At(r, "update_row") /\ Granted(r)
     /\ IF Updatable(users[i])
        THEN /\ mine' = [mine EXCEPT ![r].id = i, ![r].row = Updated(users[i], call[r])]
             /\ Goto(r, "update_index")
             /\ Stays /\ UNCHANGED seen
        ELSE Refuse(r)

UpdateIndex(r) ==
  LET i == mine[r].id
  IN /\ At(r, "update_index") /\ Granted(r)
     /\ users' = IF Collides(i, mine[r].row) THEN users ELSE [users EXCEPT ![i] = mine[r].row]
     /\ Close(r)
     /\ UNCHANGED <<creds, sessions, pending, counters, tokens>>

-----------------------------------------------------------------------------
(* SoftDeleteUserTx *)

DelSessions(r) ==
  /\ At(r, "del_sessions") /\ Granted(r)
  /\ mine' = [mine EXCEPT ![r].gone = {s \in Session : sessions[s].user = call[r].user}]
  /\ Goto(r, "del_creds")
  /\ Stays /\ UNCHANGED seen

DelCreds(r) ==
  /\ At(r, "del_creds") /\ Granted(r)
  /\ Goto(r, "soft_delete")
  /\ Stays /\ UNCHANGED <<seen, mine>>

(* Deleting what is deleted already succeeds and rewrites nothing. *)
SoftDelete(r) ==
  LET i == call[r].user
  IN /\ At(r, "soft_delete") /\ Granted(r)
     /\ mine' = [mine EXCEPT ![r].id = i,
                             ![r].row = IF Active(i) THEN Deleted(users[i]) ELSE users[i]]
     /\ Goto(r, "commit_delete")
     /\ Stays /\ UNCHANGED seen

CommitDelete(r) ==
  LET i == call[r].user
  IN /\ At(r, "commit_delete")
     /\ users' = [users EXCEPT ![i] = mine[r].row]
     /\ creds' = [creds EXCEPT ![i] = CredDeleted(i)]
     /\ sessions' = [s \in Session |-> IF s \in mine[r].gone THEN NoSession ELSE sessions[s]]
     /\ Close(r)
     /\ UNCHANGED <<pending, counters, tokens>>

-----------------------------------------------------------------------------
Init ==
  /\ users = [i \in Id |-> NoUser]
  /\ creds = [i \in Id |-> -1]
  /\ sessions = [s \in Session |-> NoSession]
  /\ pending = [k \in Ceremony |-> NoPending]
  /\ nextUser = 1 /\ nextCeremony = 1 /\ nextSession = 1
  /\ access = {} /\ refresh = [s \in Session |-> NoToken]
  /\ pc = [r \in Req |-> "idle"]
  /\ call = [r \in Req |-> NoCall]
  /\ seen = [r \in Req |-> NothingSeen]
  /\ mine = [r \in Req |-> NothingMine]

(* What the server does next for a request it has begun. *)
Work(r) ==
  \/ NameExists(r) \/ EmailExists(r) \/ SaveReg(r)
  \/ GetReg(r) \/ CreateUser(r) \/ CreateCred(r) \/ CommitSignup(r) \/ DelReg(r)
  \/ FindUser(r) \/ GetCreds(r) \/ SaveAuth(r)
  \/ GetAuth(r) \/ GetUser(r) \/ GetUserCreds(r) \/ RecordUse(r) \/ RecordUseError(r)
  \/ CreateSession(r) \/ DelAuth(r) \/ GetSession(r) \/ RenewAccess(r)
  \/ UpdateRow(r) \/ UpdateIndex(r)
  \/ DelSessions(r) \/ DelCreds(r) \/ SoftDelete(r) \/ CommitDelete(r)

Next ==
  \/ \E r \in Req : Begin(r) \/ Work(r) \/ ConnectionLost(r) \/ DeadlockAbort(r)
  \/ \E k \in Ceremony : Expire(k)
  \/ \E i \in Id : ExpireAccess(i)
  \/ \E s \in Session : ExpireRefresh(s)

Spec == Init /\ [][Next]_vars

(* PostgreSQL and Redis answer: a statement that can go on goes on, and a   *)
(* deadlock is found.  Nothing is assumed of the order of lock grants.     *)
Fairness == \A r \in Req : WF_vars(Work(r)) /\ WF_vars(DeadlockAbort(r))

(* Every token is made with a duration, and VerifyToken reads the clock.    *)
Clock ==
  /\ \A i \in Id : WF_vars(ExpireAccess(i))
  /\ \A s \in Session : WF_vars(ExpireRefresh(s))

FairSpec == Spec /\ Fairness /\ Clock

-----------------------------------------------------------------------------
(* Properties *)

Step == {"idle", "name_exists", "email_exists", "save_reg", "get_reg", "create_user",
         "create_cred", "commit_signup", "del_reg", "find_user", "get_creds", "save_auth",
         "get_auth", "get_user", "get_user_creds", "record_use", "create_session",
         "del_auth", "get_session", "renew_access", "update_row", "update_index",
         "del_sessions", "del_creds", "soft_delete", "commit_delete"}

(* Every variable has its type; in particular no column that the schema     *)
(* declares NOT NULL ever is.                                              *)
TypeOK ==
  /\ users \in [Id -> UserRow]
  /\ creds \in [Id -> {-1} \cup Count]
  /\ sessions \in [Session -> [user : 0..MaxId,
                               by : [ceremony : 0..MaxCeremony, count : Count,
                                     recorded : BOOLEAN]]]
  /\ pending \in [Ceremony -> Pending]
  /\ nextUser \in 1..(MaxId + 1)
  /\ nextCeremony \in 1..(MaxCeremony + 1)
  /\ nextSession \in 1..(MaxSession + 1)
  /\ access \subseteq Id
  /\ refresh \in [Session -> RefreshToken]
  /\ pc \in [Req -> Step]
  /\ call \in [Req -> Calls \cup {NoCall}]
  /\ seen \in [Req -> [user : 0..MaxId, recorded : BOOLEAN, session : 0..MaxSession]]
  /\ mine \in [Req -> [id : 0..MaxId, row : UserRow, gone : SUBSET Session]]

(* No two active accounts go by the same name or email, although signupStart *)
(* looks long before signupFinish inserts, and updates and deletions that   *)
(* have not committed move names around meanwhile.                         *)
UniqueActive ==
  \A i, j \in Id : i # j /\ Active(i) /\ Active(j) =>
    users[i].name # users[j].name /\ users[i].email # users[j].email

(* A ceremony makes one account at most, however often signupFinish is      *)
(* called with it, also when the entry in Redis outlives the first call and *)
(* the account has been deleted since.                                     *)
OneAccountPerCeremony ==
  \A i, j \in Id : i # j /\ Exists(i) /\ Exists(j) => users[i].handle # users[j].handle

(* An account has a passkey exactly while it is active: the two tables are  *)
(* written by different statements of transactions that interleave.        *)
CredentialIffActive == \A i \in Id : Active(i) <=> creds[i] # -1

(* An assertion of an authenticator that counts opens one session at most,  *)
(* of those whose count was checked and stored: getting a pending           *)
(* authentication from Redis does not take it out, so the same assertion    *)
(* can be on its way twice.                                                *)
OneLoginPerAssertion ==
  \A s, t \in Session :
    s # t /\ sessions[s].by.recorded /\ sessions[s].by.count > 0
      => sessions[s].by # sessions[t].by

(* The book keeps the two tables as they are, and numbers ceremonies alike. *)
Book == INSTANCE AccountBook WITH
          users <- users, creds <- creds, Ceremony <- Ceremony, MaxId <- MaxId

(* Each request changes accounts and credentials in one step of the abstract *)
(* store, or not at all.                                                   *)
Atomic == Book!Spec

(* Whatever locks their statements wait for, the requests under way are all *)
(* answered once no new ones are made.                                     *)
EveryRequestReturns ==
  <>[][\A r \in Req : ~Begin(r)]_vars => <>[](\A r \in Req : pc[r] = "idle")

(* The deletion of an account ends the access to it for good, although no   *)
(* token is ever revoked, renewal does not look at the user, and a sign-in  *)
(* that was under way may leave a session behind: what is left of tokens    *)
(* and sessions runs out and cannot be renewed for ever.                   *)
AccessEnds == \A i \in Id : <>[](users[i].status = "deleted" => ~Bearer(i))

(* tx_soft_delete_user.go:27 and store.go:54: the deletion of a user deletes *)
(* the user's sessions, within the same transaction.                       *)
DeleteTakesSessions ==
  [][\A i \in Id : Active(i) /\ users'[i].status = "deleted"
                     => \A s \in Session : sessions'[s].user # i]_vars

(* webauthn_signin_finish.go:16: the server checks the sign count, then     *)
(* authenticates the user, and answers 401 otherwise.  A session that a     *)
(* counting authenticator has earned has its count stored.                 *)
SigninChecksCount ==
  \A s \in Session :
    LET i == sessions[s].user
    IN i # 0 /\ sessions[s].by.count > 0 /\ creds[i] # -1 => creds[i] >= sessions[s].by.count
=============================================================================
