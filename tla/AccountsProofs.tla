--------------------------- MODULE AccountsProofs ---------------------------
(***************************************************************************)
(* AccountsInv!IInv is an invariant of Accounts, for every set of requests,*)
(* names and emails and for every bound; Accounts implements AccountBook,  *)
(* and an assertion is good for one session.                               *)
(***************************************************************************)
EXTENDS AccountsInv, TLAPS

USE AccountsAssumption

-----------------------------------------------------------------------------
(* Types *)

SeenType == [user : 0..MaxId, recorded : BOOLEAN, session : 0..MaxSession]
MineType == [id : 0..MaxId, row : UserRow, gone : SUBSET Session]
SessionType == [user : 0..MaxId,
                by : [ceremony : 0..MaxCeremony, count : Count, recorded : BOOLEAN]]

(* What the fields of a row are at each status. *)
LEMMA RowTypes ==
  ASSUME NEW row \in UserRow
  PROVE  /\ row.status \in {"absent", "active", "deleted"}
         /\ row.status = "absent" => row = NoUser
         /\ row.status # "absent" => row.handle \in Ceremony
         /\ row.status = "active" => /\ row \in [status : {"active"}, name : Name,
                                                 email : Email, handle : Ceremony]
                                     /\ row.name \in Name /\ row.email \in Email
         /\ row.status = "deleted" => row \in [status : {"deleted"}, name : {FreedName},
                                               email : {FreedEmail}, handle : Ceremony]
  BY DEF UserRow, NoUser

(* What a call carries for its operation. *)
LEMMA CallTypes ==
  ASSUME NEW c \in Calls
  PROVE  /\ c.op \in {"signup_start", "signup_finish", "signin_start", "signin_finish",
                      "renew", "update", "delete"}
         /\ c.op = "signup_start" => c.name \in Name /\ c.email \in Email
         /\ c.op \in {"signup_finish", "signin_finish"} => c.ceremony \in Ceremony
         /\ c.ceremony \in 0..MaxCeremony /\ c.count \in Count
         /\ c.op = "renew" => c.session \in Session
         /\ c.op \in {"update", "delete"} => c.user \in Id
         /\ c.op = "update" => c.name \in Name \cup {None} /\ c.email \in Email \cup {None}
  BY DEF Calls, CallsOf, Ceremony, Count

(* The values that stand for nothing are values of their types. *)
LEMMA BasicTypes ==
  /\ NoUser \in UserRow /\ NoSession \in SessionType /\ NoPending \in Pending
  /\ NoToken \in RefreshToken /\ NothingSeen \in SeenType /\ NothingMine \in MineType
  BY DEF NoUser, UserRow, NoSession, SessionType, NoPending, Pending, NoToken, RefreshToken,
         NothingSeen, SeenType, NothingMine, MineType, Count

LEMMA InitType == Init => TypeOK
  BY BasicTypes DEF Init, TypeOK, SessionType, SeenType, MineType, Step

(* The rows the statements write are rows. *)
LEMMA WrittenTypes ==
  ASSUME NEW row \in UserRow
  PROVE  /\ row.status # "absent" => Deleted(row) \in UserRow
         /\ \A c \in Calls : row.status = "active" /\ c.op = "update"
                               => /\ Updated(row, c) \in UserRow
                                  /\ Updated(row, c).status = "active"
                                  /\ Updated(row, c).handle = row.handle
<1>1. ASSUME row.status # "absent" PROVE Deleted(row) \in UserRow
  BY <1>1, RowTypes DEF Deleted, UserRow
<1>2. ASSUME NEW c \in Calls, row.status = "active", c.op = "update"
      PROVE  /\ Updated(row, c) \in UserRow /\ Updated(row, c).status = "active"
             /\ Updated(row, c).handle = row.handle
  <2>1. /\ row \in [status : {"active"}, name : Name, email : Email, handle : Ceremony]
        /\ c.name \in Name \cup {None} /\ c.email \in Email \cup {None}
    BY <1>2, RowTypes, CallTypes
  <2>2. QED
    BY <2>1 DEF Updated, UserRow
<1>3. QED
  BY <1>1, <1>2

LEMMA CloseType ==
  ASSUME TypeOK, NEW r \in Req, Close(r)
  PROVE  /\ pc' \in [Req -> Step] /\ call' \in [Req -> Calls \cup {NoCall}]
         /\ seen' \in [Req -> SeenType] /\ mine' \in [Req -> MineType]
         /\ pc'[r] = "idle" /\ call'[r] = NoCall /\ seen'[r] = NothingSeen
         /\ mine'[r] = NothingMine
  BY BasicTypes DEF TypeOK, Close, Goto, Step, SeenType, MineType

LEMMA GotoType ==
  ASSUME TypeOK, NEW r \in Req, NEW p \in Step, Goto(r, p)
  PROVE  pc' \in [Req -> Step] /\ pc'[r] = p
  BY DEF TypeOK, Goto

-----------------------------------------------------------------------------
(* Keys *)

LEMMA SameKeySymmetric == \A a, b : SameKey(a, b) <=> SameKey(b, a)
  BY DEF SameKey

(* What is not there has no key, and a deleted row has the key of its handle. *)
LEMMA KeysOfRows ==
  ASSUME NEW a \in UserRow, NEW b \in UserRow
  PROVE  /\ ~SameKey(a, NoUser)
         /\ a.status # "absent" /\ ~SameKey(b, a) => ~SameKey(b, Deleted(a))
  <1>1. ~SameKey(a, NoUser)
    BY DEF SameKey, NoUser
  <1>2. a.status # "absent" /\ ~SameKey(b, a) => ~SameKey(b, Deleted(a))
    <2>1. a.status # "absent" => Deleted(a).status = "deleted" /\ Deleted(a).handle = a.handle
      BY RowTypes DEF Deleted
    <2>2. QED
      BY <2>1, RowTypes DEF SameKey
  <1>3. QED
    BY <1>1, <1>2

-----------------------------------------------------------------------------
(* A step of one request *)

(* The step of r leaves what the others know and have written. *)
Others(r) ==
  \A s \in Req \ {r} : pc'[s] = pc[s] /\ call'[s] = call[s] /\ seen'[s] = seen[s]
                       /\ mine'[s] = mine[s]

(* Another request keeps its invariant as long as accounts stay and what it *)
(* has written stays apart from the rows.                                  *)
LEMMA OtherRequest ==
  ASSUME NEW s \in Req, RequestInv(s),
         pc'[s] = pc[s], call'[s] = call[s], seen'[s] = seen[s], mine'[s] = mine[s],
         \A i \in Id : Exists(i) => Exists(i)',
         call[s] \in Calls \cup {NoCall},
         nextUser \in Nat, nextUser' \in Nat, nextUser <= nextUser',
         Writing(s) => users'[mine[s].id] = users[mine[s].id],
         Inserted(s) => \A j \in Id : ~SameKey(mine[s].row, users'[j])
  PROVE  RequestInv(s)'
<1>1. CallOK(s)'
  <2>1. call[s].op \in {"update", "delete"} => call[s].user \in Id
    BY CallTypes DEF NoCall
  <2>2. QED
    BY <2>1 DEF RequestInv, CallOK
<1>2. SeenOK(s)'
  BY DEF RequestInv, SeenOK, Found
<1>3. MineOK(s)'
  <2>1. Writing(s)' = Writing(s) /\ Inserted(s)' = Inserted(s) /\ Renaming(s)' = Renaming(s)
        /\ Ending(s)' = Ending(s)
    BY DEF Writing, Inserted, Renaming, Ending
  <2>2. Inserted(s) => /\ mine[s].id \in Id
                       /\ mine[s].id < nextUser /\ users'[mine[s].id] = NoUser
    BY DEF RequestInv, MineOK, Writing
  <2>2a. Inserted(s) => mine'[s].id < nextUser'
    BY <2>2 DEF Id
  <2>3. Renaming(s) => users'[mine[s].id] = users[mine[s].id]
    BY DEF Writing
  <2>4. Ending(s) => users'[mine[s].id] = users[mine[s].id]
    BY DEF Writing
  <2>5. QED
    BY <2>1, <2>2, <2>2a, <2>3, <2>4 DEF RequestInv, MineOK, Active
<1>4. QED
  BY <1>1, <1>2, <1>3 DEF RequestInv

(* What two requests have written: r has moved, the others have not. *)
LEMMA PairsOf ==
  ASSUME NEW r \in Req, Others(r), IInv,
         \A s \in Req \ {r} : PairInv(r, s)'
  PROVE  \A s, t \in Req : s # t => PairInv(s, t)'
<1>1. SUFFICES ASSUME NEW s \in Req, NEW t \in Req, s # t PROVE PairInv(s, t)'
  OBVIOUS
<1>2. CASE s # r /\ t # r
  BY <1>1, <1>2 DEF IInv, PairInv, Others, Writing, Inserted, Renaming, Ending
<1>3. CASE s = r
  BY <1>1, <1>3
<1>4. CASE t = r
  <2>1. PairInv(t, s)'
    BY <1>1, <1>4
  <2>2. QED
    BY <2>1, SameKeySymmetric DEF PairInv
<1>5. QED
  BY <1>2, <1>3, <1>4

(* A step that changes no account and leaves r with nothing written. *)
LEMMA QuietStep ==
  ASSUME IInv, NEW r \in Req, Others(r), UNCHANGED <<users, nextUser>>,
         TypeOK', CredentialIffActive', PendingOK', TokensOK', RequestInv(r)', ~Writing(r)'
  PROVE  IInv'
<1>1. StoreInv'
  BY DEF IInv, StoreInv, RowsOK, KeysOK, Exists
<1>2. ASSUME NEW s \in Req PROVE RequestInv(s)'
  <2>1. CASE s = r
    BY <2>1
  <2>2. CASE s # r
    <3>1. RequestInv(s) /\ nextUser \in Nat /\ call[s] \in Calls \cup {NoCall}
      BY DEF IInv, TypeOK
    <3>2. /\ pc'[s] = pc[s] /\ call'[s] = call[s] /\ seen'[s] = seen[s] /\ mine'[s] = mine[s]
      BY <2>2 DEF Others
    <3>3. \A i \in Id : Exists(i) => Exists(i)'
      BY DEF Exists
    <3>4. Inserted(s) => \A j \in Id : ~SameKey(mine[s].row, users'[j])
      BY <3>1 DEF RequestInv, MineOK
    <3>5. QED
      BY <3>1, <3>2, <3>3, <3>4, OtherRequest
  <2>3. QED
    BY <2>1, <2>2
<1>3. \A s \in Req \ {r} : PairInv(r, s)'
  BY DEF PairInv, Writing
<1>4. \A s, t \in Req : s # t => PairInv(s, t)'
  BY <1>3, PairsOf
<1>5. QED
  BY <1>1, <1>2, <1>4 DEF IInv

(* A step that changes nothing but how far r is and what r has seen. *)
LEMMA StaysStep ==
  ASSUME IInv, NEW r \in Req, Stays, NEW p \in Step, NEW e \in SeenType, NEW m \in MineType,
         Goto(r, p), seen' = [seen EXCEPT ![r] = e], mine' = [mine EXCEPT ![r] = m],
         RequestInv(r)', ~Writing(r)'
  PROVE  IInv'
<1>1. TypeOK'
  BY GotoType DEF IInv, TypeOK, Stays, tables, counters, tokens, SeenType, MineType
<1>2. CredentialIffActive' /\ PendingOK' /\ TokensOK'
  BY DEF IInv, StoreInv, Stays, tables, counters, tokens, CredentialIffActive, Active, PendingOK,
         TokensOK, Exists
<1>3. Others(r)
  BY DEF Others, Goto, Stays, IInv, TypeOK
<1>4. QED
  BY <1>1, <1>2, <1>3, QuietStep DEF Stays, tables, counters

LEMMA CloseRequest ==
  ASSUME TypeOK, NEW r \in Req, Close(r)
  PROVE  RequestInv(r)' /\ ~Writing(r)' /\ Others(r)
<1>1. /\ pc'[r] = "idle" /\ call'[r] = NoCall /\ seen'[r] = NothingSeen
      /\ mine'[r] = NothingMine
  BY CloseType
<1>2. ~Writing(r)' /\ ~Inserted(r)' /\ ~Renaming(r)' /\ ~Ending(r)' /\ ~Found(r)'
  BY <1>1 DEF Writing, Inserted, Renaming, Ending, Found
<1>3. CallOK(r)'
  BY <1>1 DEF CallOK, OpsOfStep, NoCall
<1>4. SeenOK(r)'
  BY <1>1, <1>2 DEF SeenOK
<1>5. MineOK(r)'
  BY <1>1, <1>2 DEF MineOK, NothingMine
<1>6. Others(r)
  BY DEF Others, Close, Goto, TypeOK
<1>7. QED
  BY <1>2, <1>3, <1>4, <1>5, <1>6 DEF RequestInv

(* A request that ends without having changed anything. *)
LEMMA RefuseStep == ASSUME IInv, NEW r \in Req, Refuse(r) PROVE IInv'
<1>1. TypeOK'
  BY CloseType DEF IInv, TypeOK, Refuse, tables, counters, tokens, SeenType, MineType
<1>2. CredentialIffActive' /\ PendingOK' /\ TokensOK'
  BY DEF IInv, StoreInv, Refuse, tables, counters, tokens, CredentialIffActive, Active,
         PendingOK, TokensOK, Exists
<1>3. QED
  BY <1>1, <1>2, CloseRequest, QuietStep DEF IInv, Refuse, tables, counters

(* A request that goes on to a step at which it has written nothing. *)
LEMMA OnTheWay ==
  ASSUME IInv, NEW r \in Req, NEW p \in Step, pc'[r] = p, UNCHANGED <<users, call>>,
         p \notin {"idle", "create_cred", "commit_signup", "update_index", "commit_delete"},
         pc[r] # "idle", call[r].op \in OpsOfStep(p),
         mine'[r].id = 0, p = "create_user" => mine'[r].row.status = "active",
         SeenOK(r)'
  PROVE  RequestInv(r)' /\ ~Writing(r)'
<1>1. ~Writing(r)' /\ ~Inserted(r)' /\ ~Renaming(r)' /\ ~Ending(r)'
  BY DEF Writing, Inserted, Renaming, Ending
<1>2. MineOK(r)'
  BY <1>1 DEF MineOK
<1>3. CallOK(r)'
  BY DEF IInv, RequestInv, CallOK, Exists
<1>4. QED
  BY <1>1, <1>2, <1>3 DEF RequestInv

(* What is known of a request between two steps. *)
LEMMA Known ==
  ASSUME IInv, NEW r \in Req
  PROVE  /\ pc[r] \in Step /\ call[r].op \in OpsOfStep(pc[r])
         /\ pc[r] # "idle" => call[r] \in Calls
         /\ seen[r] \in SeenType /\ mine[r] \in MineType
         /\ ~Writing(r) => mine[r].id = 0
         /\ Found(r) => seen[r].user \in Id /\ Exists(seen[r].user)
  BY DEF IInv, TypeOK, RequestInv, CallOK, SeenOK, MineOK, SeenType, MineType

(* The same, with what was seen and written as it was. *)
LEMMA GoOn ==
  ASSUME IInv, NEW r \in Req, NEW p \in Step, Goto(r, p), Stays, UNCHANGED <<seen, mine>>,
         p \notin {"idle", "create_user", "create_cred", "commit_signup", "update_index",
                   "commit_delete", "del_auth"},
         pc[r] # "idle", ~Writing(r), call[r].op \in OpsOfStep(p),
         Found(r)' => Found(r)
  PROVE  IInv'
<1>1. pc'[r] = p
  BY GotoType DEF IInv
<1>2. SeenOK(r)'
  BY <1>1 DEF IInv, RequestInv, SeenOK, Stays, tables, Exists
<1>3. mine'[r].id = 0
  BY Known
<1>4. RequestInv(r)' /\ ~Writing(r)'
  BY <1>1, <1>2, <1>3, OnTheWay DEF Stays, tables
<1>5. /\ seen' = [seen EXCEPT ![r] = seen[r]] /\ mine' = [mine EXCEPT ![r] = mine[r]]
  BY DEF IInv, TypeOK
<1>6. QED
  BY <1>4, <1>5, Known, StaysStep

-----------------------------------------------------------------------------
(* The steps that write no account *)

LEMMA BeginStep == ASSUME IInv, NEW r \in Req, Begin(r) PROVE IInv'
<1>1. PICK c \in Calls : /\ MayAsk(c)
                         /\ Goto(r, FirstStep[c.op])
                         /\ call' = [call EXCEPT ![r] = c]
  BY DEF Begin
<1> DEFINE p == FirstStep[c.op]
<1>2. /\ p \in Step /\ c.op \in OpsOfStep(p)
      /\ p \notin {"idle", "create_cred", "commit_signup", "update_index", "commit_delete",
                   "create_user", "get_creds", "save_auth", "get_user", "get_user_creds",
                   "record_use", "create_session", "del_reg", "del_auth", "renew_access"}
  BY CallTypes DEF FirstStep, Step, OpsOfStep
<1>3. pc'[r] = p /\ pc' \in [Req -> Step]
  BY <1>1, <1>2, GotoType DEF IInv
<1>4. call'[r] = c /\ call' \in [Req -> Calls \cup {NoCall}]
  BY <1>1 DEF IInv, TypeOK
<1>5. /\ UNCHANGED <<users, creds, sessions, pending, nextUser, nextCeremony, nextSession, access,
                     refresh, seen, mine>>
      /\ pc[r] = "idle"
  BY DEF Begin, tables, counters, tokens, At
<1>6. TypeOK'
  BY <1>3, <1>4, <1>5 DEF IInv, TypeOK
<1>7. CredentialIffActive' /\ PendingOK' /\ TokensOK'
  BY <1>5 DEF IInv, StoreInv, CredentialIffActive, Active, PendingOK, TokensOK, Exists
<1>8. Others(r)
  BY <1>1, <1>5 DEF Others, Goto, IInv, TypeOK
<1>9. ~Writing(r)' /\ ~Inserted(r)' /\ ~Renaming(r)' /\ ~Ending(r)' /\ ~Found(r)' /\ ~Writing(r)
  BY <1>2, <1>3, <1>5 DEF Writing, Inserted, Renaming, Ending, Found
<1>10. c.op \in {"update", "delete"} => Exists(c.user)
  <2>1. ASSUME c.op \in {"update", "delete"} PROVE Exists(c.user)
    <3>1. Bearer(c.user)
      BY <1>1, <2>1 DEF MayAsk
    <3>2. CASE c.user \in access
      BY <3>2 DEF IInv, StoreInv, TokensOK
    <3>3. CASE \E s \in Session : Verified(refresh[s]) /\ refresh[s].user = c.user
      BY <3>3 DEF IInv, StoreInv, TokensOK, Verified, NoToken
    <3>4. QED
      BY <3>1, <3>2, <3>3 DEF Bearer
  <2>2. QED
    BY <2>1
<1>11. CallOK(r)'
  BY <1>2, <1>3, <1>4, <1>5, <1>10 DEF CallOK, Exists
<1>12. SeenOK(r)' /\ MineOK(r)'
  BY <1>2, <1>3, <1>5, <1>9, Known DEF SeenOK, MineOK
<1>13. QED
  BY <1>5, <1>6, <1>7, <1>8, <1>9, <1>11, <1>12, QuietStep DEF RequestInv

LEMMA NameExistsStep == ASSUME IInv, NEW r \in Req, NameExists(r) PROVE IInv'
<1>1. CASE Refuse(r)
  BY <1>1, RefuseStep
<1>2. CASE Goto(r, "email_exists") /\ Stays /\ UNCHANGED <<seen, mine>>
  <2>1. pc[r] = "name_exists" /\ pc'[r] = "email_exists"
    BY <1>2, GotoType DEF NameExists, At, IInv, Step
  <2>2. QED
    BY <1>2, <2>1, Known, GoOn DEF OpsOfStep, Writing, Inserted, Renaming, Ending, Found, Step
<1>3. QED
  BY <1>1, <1>2 DEF NameExists

LEMMA EmailExistsStep == ASSUME IInv, NEW r \in Req, EmailExists(r) PROVE IInv'
<1>1. CASE Refuse(r)
  BY <1>1, RefuseStep
<1>2. CASE Goto(r, "save_reg") /\ Stays /\ UNCHANGED <<seen, mine>>
  <2>1. pc[r] = "email_exists" /\ pc'[r] = "save_reg"
    BY <1>2, GotoType DEF EmailExists, At, IInv, Step
  <2>2. QED
    BY <1>2, <2>1, Known, GoOn DEF OpsOfStep, Writing, Inserted, Renaming, Ending, Found, Step
<1>3. QED
  BY <1>1, <1>2 DEF EmailExists

LEMMA SavePendingStep ==
  ASSUME IInv, NEW r \in Req, NEW entry \in Pending, SavePending(r, entry),
         entry.kind = "reg" => entry.name \in Name /\ entry.email \in Email,
         entry.kind = "auth" => entry.user \in Id /\ Exists(entry.user)
  PROVE  IInv'
<1>1. /\ UNCHANGED <<users, creds, sessions, nextUser, nextSession, access, refresh>>
      /\ Close(r)
  BY DEF SavePending, tables, tokens
<1>2. nextCeremony \in Ceremony /\ nextCeremony' \in 1..(MaxCeremony + 1)
  BY DEF SavePending, IInv, TypeOK, Ceremony
<1>3. TypeOK'
  BY <1>1, <1>2, CloseType DEF SavePending, IInv, TypeOK, SeenType, MineType
<1>4. CredentialIffActive' /\ TokensOK'
  BY <1>1 DEF IInv, StoreInv, CredentialIffActive, Active, TokensOK, Exists
<1>5. PendingOK'
  BY <1>1, <1>2 DEF SavePending, IInv, TypeOK, StoreInv, PendingOK, Exists
<1>6. QED
  BY <1>1, <1>3, <1>4, <1>5, CloseRequest, QuietStep DEF IInv

LEMMA SaveRegStep == ASSUME IInv, NEW r \in Req, SaveReg(r) PROVE IInv'
<1> DEFINE entry == [kind |-> "reg", name |-> call[r].name, email |-> call[r].email, user |-> 0]
<1>1. call[r] \in Calls /\ call[r].op = "signup_start"
  BY Known DEF SaveReg, At, OpsOfStep
<1>2. call[r].name \in Name /\ call[r].email \in Email
  BY <1>1, CallTypes
<1>3. entry \in Pending
  BY <1>2 DEF Pending
<1>4. QED
  BY <1>2, <1>3, SavePendingStep DEF SaveReg

LEMMA GetRegStep == ASSUME IInv, NEW r \in Req, GetReg(r) PROVE IInv'
<1> DEFINE k == call[r].ceremony
<1>1. CASE Refuse(r)
  BY <1>1, RefuseStep
<1>2. CASE /\ pending[k].kind = "reg"
           /\ mine' = [mine EXCEPT ![r].row = NewUser(k)]
           /\ Goto(r, "create_user")
           /\ Stays /\ UNCHANGED seen
  <2>1. pc[r] = "get_reg" /\ pc'[r] = "create_user" /\ "create_user" \in Step
    BY <1>2, GotoType DEF GetReg, At, IInv, Step
  <2>2. call[r].op = "signup_finish" /\ call[r] \in Calls /\ k \in Ceremony
    BY <2>1, Known, CallTypes DEF OpsOfStep
  <2>3. NewUser(k) \in UserRow /\ NewUser(k).status = "active"
    BY <1>2, <2>2 DEF IInv, StoreInv, PendingOK, NewUser, UserRow
  <2>4. mine[r] \in MineType /\ mine[r].id = 0 /\ seen[r] \in SeenType
    BY <2>1, Known DEF Writing, Inserted, Renaming, Ending
  <2> DEFINE m == [mine[r] EXCEPT !.row = NewUser(k)]
  <2>5. m \in MineType /\ m.id = 0 /\ m.row.status = "active"
    BY <2>3, <2>4 DEF MineType
  <2>6. mine' = [mine EXCEPT ![r] = m] /\ mine'[r] = m
        /\ seen' = [seen EXCEPT ![r] = seen[r]]
    BY <1>2 DEF IInv, TypeOK
  <2>7. SeenOK(r)'
    BY <2>1 DEF SeenOK, Found
  <2>8. RequestInv(r)' /\ ~Writing(r)'
    BY <1>2, <2>1, <2>2, <2>5, <2>6, <2>7, OnTheWay DEF Stays, tables, OpsOfStep
  <2>9. QED
    BY <1>2, <2>1, <2>4, <2>5, <2>6, <2>8, StaysStep
<1>3. QED
  BY <1>1, <1>2 DEF GetReg

LEMMA FindUserStep == ASSUME IInv, NEW r \in Req, FindUser(r) PROVE IInv'
<1>1. CASE Refuse(r)
  BY <1>1, RefuseStep
<1>2. ASSUME NEW i \in Id, users[i].name = call[r].name,
             seen' = [seen EXCEPT ![r].user = i], Goto(r, "get_creds"), Stays, UNCHANGED mine
      PROVE  IInv'
  <2>1. pc[r] = "find_user" /\ pc'[r] = "get_creds" /\ "get_creds" \in Step
    BY <1>2, GotoType DEF FindUser, At, IInv, Step
  <2>2. call[r].op = "signin_start" /\ call[r] \in Calls
    BY <2>1, Known DEF OpsOfStep
  <2>3. Exists(i)
    <3>1. call[r].name \in Name
      BY <2>2 DEF Calls, CallsOf
    <3>2. QED
      BY <1>2, <3>1 DEF Exists, IInv, TypeOK, UserRow, NoUser
  <2>4. mine[r] \in MineType /\ mine[r].id = 0 /\ seen[r] \in SeenType
    BY <2>1, Known DEF Writing, Inserted, Renaming, Ending
  <2> DEFINE e == [seen[r] EXCEPT !.user = i]
  <2>5. e \in SeenType /\ e.user = i
    BY <2>4 DEF SeenType, Id
  <2>6. /\ seen' = [seen EXCEPT ![r] = e] /\ seen'[r] = e
        /\ mine' = [mine EXCEPT ![r] = mine[r]] /\ mine'[r] = mine[r]
    BY <1>2 DEF IInv, TypeOK
  <2>7. SeenOK(r)'
    BY <1>2, <2>1, <2>3, <2>5, <2>6 DEF SeenOK, Stays, tables, Exists
  <2>8. RequestInv(r)' /\ ~Writing(r)'
    BY <1>2, <2>1, <2>2, <2>4, <2>6, <2>7, OnTheWay DEF Stays, tables, OpsOfStep
  <2>9. QED
    BY <1>2, <2>1, <2>4, <2>5, <2>6, <2>8, StaysStep
<1>3. QED
  BY <1>1, <1>2 DEF FindUser

LEMMA GetCredsStep == ASSUME IInv, NEW r \in Req, GetCreds(r) PROVE IInv'
<1>1. CASE Refuse(r)
  BY <1>1, RefuseStep
<1>2. CASE Goto(r, "save_auth") /\ Stays /\ UNCHANGED <<seen, mine>>
  <2>1. pc[r] = "get_creds" /\ pc'[r] = "save_auth"
    BY <1>2, GotoType DEF GetCreds, At, IInv, Step
  <2>2. QED
    BY <1>2, <2>1, Known, GoOn DEF OpsOfStep, Writing, Inserted, Renaming, Ending, Found, Step
<1>3. QED
  BY <1>1, <1>2 DEF GetCreds

LEMMA SaveAuthStep == ASSUME IInv, NEW r \in Req, SaveAuth(r) PROVE IInv'
<1> DEFINE entry == [kind |-> "auth", name |-> None, email |-> None, user |-> seen[r].user]
<1>1. seen[r].user \in Id /\ Exists(seen[r].user)
  BY Known DEF SaveAuth, At, Found
<1>2. entry \in Pending
  BY <1>1 DEF Pending, Id
<1>3. QED
  BY <1>1, <1>2, SavePendingStep DEF SaveAuth

LEMMA GetAuthStep == ASSUME IInv, NEW r \in Req, GetAuth(r) PROVE IInv'
<1> DEFINE k == call[r].ceremony
           i == pending[k].user
<1>1. CASE Refuse(r)
  BY <1>1, RefuseStep
<1>2. CASE /\ pending[k].kind = "auth"
           /\ seen' = [seen EXCEPT ![r].user = i]
           /\ Goto(r, "get_user")
           /\ Stays /\ UNCHANGED mine
  <2>1. pc[r] = "get_auth" /\ pc'[r] = "get_user" /\ "get_user" \in Step
    BY <1>2, GotoType DEF GetAuth, At, IInv, Step
  <2>2. call[r].op = "signin_finish" /\ call[r] \in Calls /\ k \in Ceremony
    BY <2>1, Known, CallTypes DEF OpsOfStep
  <2>3. i \in Id /\ Exists(i)
    BY <1>2, <2>2 DEF IInv, StoreInv, PendingOK
  <2>4. mine[r] \in MineType /\ mine[r].id = 0 /\ seen[r] \in SeenType
    BY <2>1, Known DEF Writing, Inserted, Renaming, Ending
  <2> DEFINE e == [seen[r] EXCEPT !.user = i]
  <2>5. e \in SeenType /\ e.user = i
    BY <2>3, <2>4 DEF SeenType, Id
  <2>6. /\ seen' = [seen EXCEPT ![r] = e] /\ seen'[r] = e
        /\ mine' = [mine EXCEPT ![r] = mine[r]] /\ mine'[r] = mine[r]
    BY <1>2 DEF IInv, TypeOK
  <2>7. SeenOK(r)'
    BY <1>2, <2>1, <2>3, <2>5, <2>6 DEF SeenOK, Stays, tables, Exists
  <2>8. RequestInv(r)' /\ ~Writing(r)'
    BY <1>2, <2>1, <2>2, <2>4, <2>6, <2>7, OnTheWay DEF Stays, tables, OpsOfStep
  <2>9. QED
    BY <1>2, <2>1, <2>4, <2>5, <2>6, <2>8, StaysStep
<1>3. QED
  BY <1>1, <1>2 DEF GetAuth

LEMMA GetUserStep == ASSUME IInv, NEW r \in Req, GetUser(r) PROVE IInv'
<1>1. CASE Refuse(r)
  BY <1>1, RefuseStep
<1>2. CASE Goto(r, "get_user_creds") /\ Stays /\ UNCHANGED <<seen, mine>>
  <2>1. pc[r] = "get_user" /\ pc'[r] = "get_user_creds"
    BY <1>2, GotoType DEF GetUser, At, IInv, Step
  <2>2. QED
    BY <1>2, <2>1, Known, GoOn DEF OpsOfStep, Writing, Inserted, Renaming, Ending, Found, Step
<1>3. QED
  BY <1>1, <1>2 DEF GetUser

LEMMA GetUserCredsStep == ASSUME IInv, NEW r \in Req, GetUserCreds(r) PROVE IInv'
<1>1. CASE Refuse(r)
  BY <1>1, RefuseStep
<1>2. CASE Goto(r, "record_use") /\ Stays /\ UNCHANGED <<seen, mine>>
  <2>1. pc[r] = "get_user_creds" /\ pc'[r] = "record_use"
    BY <1>2, GotoType DEF GetUserCreds, At, IInv, Step
  <2>2. QED
    BY <1>2, <2>1, Known, GoOn DEF OpsOfStep, Writing, Inserted, Renaming, Ending, Found, Step
<1>3. QED
  BY <1>1, <1>2 DEF GetUserCreds

(* The sign count of an active user's credential changes, or it stays. *)
LEMMA CountStep ==
  ASSUME IInv, NEW r \in Req, At(r, "record_use"),
         \/ UNCHANGED creds
         \/ /\ creds[seen[r].user] # -1
            /\ creds' = [creds EXCEPT ![seen[r].user] = call[r].count],
         NEW e \in SeenType, seen' = [seen EXCEPT ![r] = e], e.user = seen[r].user,
         Goto(r, "create_session"),
         UNCHANGED <<users, sessions, pending, counters, tokens, call, mine>>
  PROVE  IInv'
<1>1. /\ call[r].op = "signin_finish" /\ call[r].count \in Count /\ mine[r].id = 0
      /\ seen[r].user \in Id /\ Exists(seen[r].user) /\ "create_session" \in Step
  BY Known, CallTypes DEF At, OpsOfStep, Writing, Inserted, Renaming, Ending, Found, Step
<1>2. pc'[r] = "create_session" /\ pc' \in [Req -> Step] /\ seen'[r] = e
  BY <1>1, GotoType DEF IInv, TypeOK
<1>3. TypeOK'
  BY <1>1, <1>2 DEF IInv, TypeOK, SeenType, counters, tokens
<1>4. CredentialIffActive'
  BY <1>1 DEF IInv, TypeOK, StoreInv, CredentialIffActive, Active, Count
<1>5. PendingOK' /\ TokensOK'
  BY DEF IInv, StoreInv, PendingOK, TokensOK, Exists, counters, tokens
<1>6. Others(r)
  BY DEF Others, Goto, IInv, TypeOK
<1>7. SeenOK(r)'
  BY <1>1, <1>2 DEF SeenOK, Exists
<1>8. RequestInv(r)' /\ ~Writing(r)'
  BY <1>1, <1>2, <1>7, OnTheWay DEF At, OpsOfStep
<1>9. QED
  BY <1>3, <1>4, <1>5, <1>6, <1>8, QuietStep DEF counters

LEMMA RecordUseStep == ASSUME IInv, NEW r \in Req, RecordUse(r) PROVE IInv'
<1> DEFINE i == seen[r].user
<1>1. CASE Refuse(r)
  BY <1>1, RefuseStep
<1>2. CASE /\ creds[i] # -1
           /\ creds' = [creds EXCEPT ![i] = call[r].count]
           /\ seen' = [seen EXCEPT ![r].recorded = TRUE]
           /\ Goto(r, "create_session")
           /\ UNCHANGED <<users, sessions, pending, counters, tokens, call, mine>>
  <2> DEFINE e == [seen[r] EXCEPT !.recorded = TRUE]
  <2>1. e \in SeenType /\ e.user = seen[r].user
    BY Known DEF SeenType
  <2>2. seen' = [seen EXCEPT ![r] = e]
    BY <1>2 DEF IInv, TypeOK
  <2>3. QED
    BY <1>2, <2>1, <2>2, CountStep DEF RecordUse
<1>3. QED
  BY <1>1, <1>2 DEF RecordUse

LEMMA RecordUseErrorStep == ASSUME IInv, NEW r \in Req, RecordUseError(r) PROVE IInv'
<1>1. seen' = [seen EXCEPT ![r] = seen[r]] /\ seen[r] \in SeenType
  BY Known DEF RecordUseError, IInv, TypeOK
<1>2. QED
  BY <1>1, CountStep DEF RecordUseError

LEMMA DropPendingOK ==
  ASSUME IInv, NEW r \in Req, DropPending(r), UNCHANGED users
  PROVE  PendingOK' /\ pending' \in [Ceremony -> Pending]
<1>1. \A k \in Ceremony : pending'[k] \in {pending[k], NoPending}
  BY DEF DropPending, IInv, TypeOK
<1>2. pending' \in [Ceremony -> Pending]
  BY BasicTypes DEF DropPending, IInv, TypeOK
<1>3. QED
  BY <1>1, <1>2 DEF IInv, StoreInv, PendingOK, NoPending, Exists

LEMMA DelRegStep == ASSUME IInv, NEW r \in Req, DelReg(r) PROVE IInv'
<1>1. /\ UNCHANGED <<users, creds, sessions, nextUser, nextCeremony, nextSession, access, refresh,
                     call, seen, mine>>
      /\ pc[r] = "del_reg" /\ Goto(r, "create_session") /\ DropPending(r)
  BY DEF DelReg, tables, counters, tokens, At
<1>2. /\ call[r].op = "signup_finish" /\ mine[r].id = 0 /\ "create_session" \in Step
      /\ seen[r].user \in Id /\ Exists(seen[r].user)
  BY <1>1, Known DEF OpsOfStep, Writing, Inserted, Renaming, Ending, Found, Step
<1>3. pc'[r] = "create_session" /\ pc' \in [Req -> Step]
  BY <1>1, <1>2, GotoType DEF IInv
<1>4. PendingOK' /\ pending' \in [Ceremony -> Pending]
  BY <1>1, DropPendingOK
<1>5. TypeOK' /\ CredentialIffActive' /\ TokensOK'
  BY <1>1, <1>3, <1>4 DEF IInv, TypeOK, StoreInv, CredentialIffActive, Active, TokensOK, Exists
<1>6. Others(r)
  BY <1>1 DEF Others, Goto, IInv, TypeOK
<1>7. SeenOK(r)'
  BY <1>1, <1>2, <1>3 DEF SeenOK, Exists
<1>8. RequestInv(r)' /\ ~Writing(r)'
  BY <1>1, <1>2, <1>3, <1>7, OnTheWay DEF OpsOfStep
<1>9. QED
  BY <1>1, <1>4, <1>5, <1>6, <1>8, QuietStep

(* Tokens are handed out to a user who is there. *)
LEMMA HandOutOK ==
  ASSUME IInv, NEW i \in Id, Exists(i), NEW s \in Session, HandOut(i, s), UNCHANGED users
  PROVE  TokensOK' /\ access' \subseteq Id /\ refresh' \in [Session -> RefreshToken]
<1>1. TokenFor(i) \in RefreshToken /\ TokenFor(i).user = i
  BY DEF TokenFor, RefreshToken
<1>2. QED
  BY <1>1 DEF HandOut, IInv, TypeOK, StoreInv, TokensOK, Exists

LEMMA CreateSessionStep == ASSUME IInv, NEW r \in Req, CreateSession(r) PROVE IInv'
<1>1. /\ UNCHANGED <<users, creds, pending, nextUser, nextCeremony>>
      /\ pc[r] = "create_session"
  BY DEF CreateSession, At
<1>2. nextSession \in Session /\ nextSession' \in 1..(MaxSession + 1)
  BY DEF CreateSession, IInv, TypeOK, Session
<1>3. /\ call[r] \in Calls /\ call[r].op \in {"signup_finish", "signin_finish"}
      /\ mine[r].id = 0 /\ mine[r] \in MineType /\ seen[r] \in SeenType
      /\ seen[r].user \in Id /\ Exists(seen[r].user)
  BY <1>1, Known DEF OpsOfStep, Writing, Inserted, Renaming, Ending, Found
<1>4. sessions' \in [Session -> SessionType]
  BY <1>2, <1>3, CallTypes DEF CreateSession, IInv, TypeOK, SessionType, SeenType
<1>5. CredentialIffActive' /\ PendingOK'
  BY <1>1 DEF IInv, StoreInv, CredentialIffActive, Active, PendingOK, Exists
<1>6. CASE Close(r) /\ (UNCHANGED tokens \/ HandOut(seen[r].user, nextSession))
  <2>1. TokensOK' /\ access' \subseteq Id /\ refresh' \in [Session -> RefreshToken]
    <3>1. CASE UNCHANGED tokens
      BY <1>1, <3>1 DEF tokens, IInv, TypeOK, StoreInv, TokensOK, Exists
    <3>2. CASE HandOut(seen[r].user, nextSession)
      BY <1>1, <1>2, <1>3, <3>2, HandOutOK
    <3>3. QED
      BY <1>6, <3>1, <3>2
  <2>2. TypeOK'
    BY <1>1, <1>2, <1>4, <1>6, <2>1, CloseType DEF IInv, TypeOK, SessionType, SeenType, MineType
  <2>3. QED
    BY <1>1, <1>5, <1>6, <2>1, <2>2, CloseRequest, QuietStep DEF IInv
<1>7. CASE /\ call[r].op = "signin_finish"
           /\ seen' = [seen EXCEPT ![r].session = nextSession]
           /\ Goto(r, "del_auth")
           /\ UNCHANGED <<tokens, call, mine>>
  <2>1. pc'[r] = "del_auth" /\ pc' \in [Req -> Step] /\ "del_auth" \in Step
    BY <1>7, GotoType DEF IInv, Step
  <2> DEFINE e == [seen[r] EXCEPT !.session = nextSession]
  <2>a. e \in SeenType /\ e.user = seen[r].user /\ e.session = nextSession
    BY <1>2, <1>3 DEF SeenType, Session
  <2>b. seen' = [seen EXCEPT ![r] = e] /\ seen \in [Req -> SeenType]
    BY <1>7 DEF IInv, TypeOK, SeenType
  <2>2. seen'[r] = e /\ seen' \in [Req -> SeenType]
    BY <2>a, <2>b
  <2>3. TypeOK' /\ TokensOK'
    BY <1>1, <1>2, <1>4, <1>7, <2>1, <2>2
       DEF IInv, TypeOK, SessionType, SeenType, tokens, StoreInv, TokensOK, Exists
  <2>4. Others(r)
    BY <1>7 DEF Others, Goto, IInv, TypeOK
  <2>5. SeenOK(r)'
    BY <1>1, <1>2, <1>3, <2>a, <2>2 DEF SeenOK, Exists
  <2>6. RequestInv(r)' /\ ~Writing(r)'
    BY <1>1, <1>3, <1>7, <2>1, <2>5, OnTheWay DEF OpsOfStep
  <2>7. QED
    BY <1>1, <1>5, <2>3, <2>4, <2>6, QuietStep
<1>8. QED
  BY <1>6, <1>7 DEF CreateSession

LEMMA DelAuthStep == ASSUME IInv, NEW r \in Req, DelAuth(r) PROVE IInv'
<1>1. /\ UNCHANGED <<users, creds, sessions, nextUser, nextCeremony, nextSession>>
      /\ pc[r] = "del_auth" /\ DropPending(r) /\ Close(r)
      /\ HandOut(seen[r].user, seen[r].session)
  BY DEF DelAuth, tables, counters, At
<1>2. seen[r].user \in Id /\ Exists(seen[r].user) /\ seen[r].session \in Session
  BY <1>1 DEF IInv, RequestInv, SeenOK, Found
<1>3. TokensOK' /\ access' \subseteq Id /\ refresh' \in [Session -> RefreshToken]
  BY <1>1, <1>2, HandOutOK
<1>4. PendingOK' /\ pending' \in [Ceremony -> Pending]
  BY <1>1, DropPendingOK
<1>5. TypeOK' /\ CredentialIffActive'
  BY <1>1, <1>3, <1>4, CloseType
     DEF IInv, TypeOK, SeenType, MineType, StoreInv, CredentialIffActive, Active
<1>6. QED
  BY <1>1, <1>3, <1>4, <1>5, CloseRequest, QuietStep DEF IInv

LEMMA GetSessionStep == ASSUME IInv, NEW r \in Req, GetSession(r) PROVE IInv'
<1> DEFINE s == call[r].session
           i == refresh[s].user
<1>1. CASE Refuse(r)
  BY <1>1, RefuseStep
<1>2. CASE /\ Renewable(refresh[s], s)
           /\ seen' = [seen EXCEPT ![r].user = i]
           /\ Goto(r, "renew_access")
           /\ Stays /\ UNCHANGED mine
  <2>1. pc[r] = "get_session" /\ pc'[r] = "renew_access" /\ "renew_access" \in Step
    BY <1>2, GotoType DEF GetSession, At, IInv, Step
  <2>2. call[r].op = "renew" /\ s \in Session
    BY <2>1, Known, CallTypes DEF OpsOfStep
  <2>3. i \in Id /\ Exists(i)
    BY <1>2, <2>2 DEF IInv, StoreInv, TokensOK, Renewable, Verified, NoToken
  <2>4. mine[r] \in MineType /\ mine[r].id = 0 /\ seen[r] \in SeenType
    BY <2>1, Known DEF Writing, Inserted, Renaming, Ending
  <2> DEFINE e == [seen[r] EXCEPT !.user = i]
  <2>5. e \in SeenType /\ e.user = i
    BY <2>3, <2>4 DEF SeenType, Id
  <2>6. /\ seen' = [seen EXCEPT ![r] = e] /\ seen'[r] = e
        /\ mine' = [mine EXCEPT ![r] = mine[r]] /\ mine'[r] = mine[r]
    BY <1>2 DEF IInv, TypeOK
  <2>7. SeenOK(r)'
    BY <1>2, <2>1, <2>3, <2>5, <2>6 DEF SeenOK, Stays, tables, Exists
  <2>8. RequestInv(r)' /\ ~Writing(r)'
    BY <1>2, <2>1, <2>2, <2>4, <2>6, <2>7, OnTheWay DEF Stays, tables, OpsOfStep
  <2>9. QED
    BY <1>2, <2>1, <2>4, <2>5, <2>6, <2>8, StaysStep
<1>3. QED
  BY <1>1, <1>2 DEF GetSession

LEMMA RenewAccessStep == ASSUME IInv, NEW r \in Req, RenewAccess(r) PROVE IInv'
<1>1. /\ UNCHANGED <<users, creds, sessions, pending, nextUser, nextCeremony, nextSession,
                     refresh>>
      /\ Close(r)
      /\ seen[r].user \in Id /\ Exists(seen[r].user)
  BY Known DEF RenewAccess, tables, counters, At, Found
<1>2. TypeOK'
  BY <1>1, CloseType DEF RenewAccess, IInv, TypeOK, SeenType, MineType
<1>3. CredentialIffActive' /\ PendingOK' /\ TokensOK'
  BY <1>1 DEF RenewAccess, IInv, StoreInv, CredentialIffActive, Active, PendingOK, TokensOK, Exists
<1>4. QED
  BY <1>1, <1>2, <1>3, CloseRequest, QuietStep DEF IInv

LEMMA DelSessionsStep == ASSUME IInv, NEW r \in Req, DelSessions(r) PROVE IInv'
<1>1. pc[r] = "del_sessions" /\ Goto(r, "del_creds") /\ Stays /\ UNCHANGED seen
  BY DEF DelSessions, At
<1>2. pc'[r] = "del_creds" /\ "del_creds" \in Step
  BY <1>1, GotoType DEF IInv, Step
<1>3. call[r].op = "delete" /\ mine[r] \in MineType /\ mine[r].id = 0 /\ seen[r] \in SeenType
  BY <1>1, Known DEF OpsOfStep, Writing, Inserted, Renaming, Ending
<1> DEFINE m == [mine[r] EXCEPT !.gone = {s \in Session : sessions[s].user = call[r].user}]
<1>4. m \in MineType /\ m.id = 0
  BY <1>3 DEF MineType
<1>5. /\ mine' = [mine EXCEPT ![r] = m] /\ mine'[r] = m
      /\ seen' = [seen EXCEPT ![r] = seen[r]]
  BY <1>1 DEF DelSessions, IInv, TypeOK
<1>6. SeenOK(r)'
  BY <1>2 DEF SeenOK, Found
<1>7. RequestInv(r)' /\ ~Writing(r)'
  BY <1>1, <1>2, <1>3, <1>4, <1>5, <1>6, OnTheWay DEF Stays, tables, OpsOfStep
<1>8. QED
  BY <1>1, <1>2, <1>3, <1>4, <1>5, <1>7, StaysStep

LEMMA DelCredsStep == ASSUME IInv, NEW r \in Req, DelCreds(r) PROVE IInv'
<1>1. /\ pc[r] = "del_creds" /\ pc'[r] = "soft_delete" /\ Goto(r, "soft_delete")
      /\ Stays /\ UNCHANGED <<seen, mine>>
  BY GotoType DEF DelCreds, At, IInv, Step
<1>2. QED
  BY <1>1, Known, GoOn DEF OpsOfStep, Writing, Inserted, Renaming, Ending, Found, Step

LEMMA ExpireStep == ASSUME IInv, NEW k \in Ceremony, Expire(k) PROVE IInv'
<1>1. UNCHANGED <<users, creds, sessions, nextUser, nextCeremony, nextSession, access, refresh,
                  pc, call, seen, mine>>
  BY DEF Expire, tables, counters, tokens
<1>2. TypeOK' /\ PendingOK'
  BY <1>1, BasicTypes DEF Expire, IInv, TypeOK, StoreInv, PendingOK, NoPending, Exists
<1>3. QED
  BY <1>1, <1>2 DEF IInv, StoreInv, RowsOK, KeysOK, CredentialIffActive, Active, TokensOK, Exists,
                    RequestInv, CallOK, SeenOK, MineOK, PairInv, Writing, Inserted, Renaming,
                    Ending, Found

LEMMA ExpireAccessStep == ASSUME IInv, NEW i \in Id, ExpireAccess(i) PROVE IInv'
<1>1. UNCHANGED <<users, creds, sessions, pending, nextUser, nextCeremony, nextSession, refresh,
                  pc, call, seen, mine>>
  BY DEF ExpireAccess, tables, counters
<1>2. TypeOK' /\ TokensOK'
  BY <1>1 DEF ExpireAccess, IInv, TypeOK, StoreInv, TokensOK, Exists
<1>3. QED
  BY <1>1, <1>2 DEF IInv, StoreInv, RowsOK, KeysOK, CredentialIffActive, Active, PendingOK, Exists,
                    RequestInv, CallOK, SeenOK, MineOK, PairInv, Writing, Inserted, Renaming,
                    Ending, Found

LEMMA ExpireRefreshStep == ASSUME IInv, NEW s \in Session, ExpireRefresh(s) PROVE IInv'
<1>1. UNCHANGED <<users, creds, sessions, pending, nextUser, nextCeremony, nextSession, access,
                  pc, call, seen, mine>>
  BY DEF ExpireRefresh, tables, counters
<1>2. /\ refresh[s] \in [user : Id, state : {"valid", "expired"}]
      /\ refresh' = [refresh EXCEPT ![s] = [refresh[s] EXCEPT !.state = "expired"]]
  BY DEF ExpireRefresh, IInv, TypeOK, RefreshToken, NoToken
<1>3. TypeOK' /\ TokensOK'
  BY <1>1, <1>2 DEF IInv, TypeOK, RefreshToken, StoreInv, TokensOK, Exists, NoToken
<1>4. QED
  BY <1>1, <1>3 DEF IInv, StoreInv, RowsOK, KeysOK, CredentialIffActive, Active, PendingOK, Exists,
                    RequestInv, CallOK, SeenOK, MineOK, PairInv, Writing, Inserted, Renaming,
                    Ending, Found

-----------------------------------------------------------------------------
(* The steps that write accounts *)

(* A step that changes no account and leaves r with something written that  *)
(* nobody else has.                                                        *)
LEMMA WritingStep ==
  ASSUME IInv, NEW r \in Req, Others(r),
         UNCHANGED <<users, creds, sessions, pending, nextCeremony, nextSession, access, refresh>>,
         nextUser' \in 1..(MaxId + 1), nextUser <= nextUser', TypeOK', RequestInv(r)',
         \A s \in Req \ {r} : PairInv(r, s)'
  PROVE  IInv'
<1>0. nextUser \in Nat /\ nextUser' \in Nat /\ \A i \in Id : i < nextUser => i < nextUser'
  BY DEF IInv, TypeOK, Id
<1>1. StoreInv'
  BY <1>0 DEF IInv, StoreInv, RowsOK, KeysOK, Exists, CredentialIffActive, Active, PendingOK,
              TokensOK
<1>2. ASSUME NEW s \in Req PROVE RequestInv(s)'
  <2>1. CASE s = r
    BY <2>1
  <2>2. CASE s # r
    <3>1. RequestInv(s) /\ call[s] \in Calls \cup {NoCall}
      BY DEF IInv, TypeOK
    <3>2. /\ pc'[s] = pc[s] /\ call'[s] = call[s] /\ seen'[s] = seen[s] /\ mine'[s] = mine[s]
      BY <2>2 DEF Others
    <3>3. \A i \in Id : Exists(i) => Exists(i)'
      BY DEF Exists
    <3>4. Inserted(s) => \A j \in Id : ~SameKey(mine[s].row, users'[j])
      BY <3>1 DEF RequestInv, MineOK
    <3>5. QED
      BY <1>0, <3>1, <3>2, <3>3, <3>4, OtherRequest
  <2>3. QED
    BY <2>1, <2>2
<1>3. \A s, t \in Req : s # t => PairInv(s, t)'
  BY PairsOf
<1>4. QED
  BY <1>1, <1>2, <1>3 DEF IInv

(* What a request has written is a row of an id, with which nobody else's   *)
(* shares a key if it is new.                                              *)
LEMMA KnownWriting ==
  ASSUME IInv, NEW r \in Req, Writing(r)
  PROVE  /\ mine[r].id \in Id /\ mine[r].id < nextUser
         /\ mine[r] \in MineType /\ mine[r].row \in UserRow
<1>1. CASE Inserted(r)
  BY <1>1 DEF IInv, TypeOK, RequestInv, MineOK, MineType
<1>2. CASE Renaming(r) \/ Ending(r)
  <2>1. call[r] \in Calls /\ call[r].op \in {"update", "delete"} /\ Exists(call[r].user)
    BY <1>2, Known DEF Renaming, Ending, OpsOfStep, IInv, RequestInv, CallOK
  <2>2. mine[r].id = call[r].user /\ call[r].user \in Id
    BY <1>2, <2>1, CallTypes DEF IInv, RequestInv, MineOK
  <2>3. QED
    BY <2>1, <2>2 DEF IInv, TypeOK, StoreInv, RowsOK, MineType
<1>3. QED
  BY <1>1, <1>2 DEF Writing

(* Waiting for no one at the unique indexes: what others have written has   *)
(* none of the keys of the row.                                            *)
LEMMA IndexFree ==
  ASSUME IInv, NEW r \in Req, NEW row, UniqueWaits(r, row) = {}, NEW s \in Req \ {r}, Writing(s)
  PROVE  /\ ~SameKey(row, users[mine[s].id])
         /\ Inserted(s) => ~SameKey(row, mine[s].row)
<1>1. mine[s].id \in Id
  BY KnownWriting
<1>2. QED
  BY <1>1 DEF UniqueWaits, Inserted

LEMMA CreateUserStep == ASSUME IInv, NEW r \in Req, CreateUser(r) PROVE IInv'
<1> DEFINE row == mine[r].row
<1>1. /\ UNCHANGED <<users, creds, sessions, pending, nextCeremony, nextSession, access, refresh>>
      /\ pc[r] = "create_user" /\ nextUser' = nextUser + 1 /\ nextUser <= MaxId
  BY DEF CreateUser, tables, tokens, At
<1>2. /\ nextUser \in Id /\ nextUser' \in 1..(MaxId + 1) /\ nextUser \in Nat
      /\ nextUser <= nextUser' /\ nextUser < nextUser'
  BY <1>1 DEF IInv, TypeOK, Id
<1>3. UniqueWaits(r, row) = {}
  BY <1>1 DEF CreateUser, Granted, WaitsFor
<1>4. /\ call[r].op = "signup_finish" /\ call[r] \in Calls
      /\ mine[r] \in MineType /\ row \in UserRow /\ row.status = "active"
  BY <1>1, Known DEF OpsOfStep, IInv, TypeOK, RequestInv, MineOK, MineType
<1>5. CASE Close(r)
  <2>1. TypeOK'
    BY <1>1, <1>2, <1>5, CloseType DEF IInv, TypeOK, SeenType, MineType
  <2>2. RequestInv(r)' /\ ~Writing(r)' /\ Others(r)
    BY <1>5, CloseRequest DEF IInv
  <2>3. \A s \in Req \ {r} : PairInv(r, s)'
    BY <2>2 DEF PairInv, Writing
  <2>4. QED
    BY <1>1, <1>2, <2>1, <2>2, <2>3, WritingStep
<1>6. CASE /\ ~Collides(nextUser, row)
           /\ mine' = [mine EXCEPT ![r].id = nextUser]
           /\ Goto(r, "create_cred")
           /\ UNCHANGED <<call, seen>>
  <2> DEFINE m == [mine[r] EXCEPT !.id = nextUser]
  <2>1. m \in MineType /\ m.id = nextUser /\ m.row = row
    BY <1>2, <1>4 DEF MineType, Id
  <2>2. mine' = [mine EXCEPT ![r] = m] /\ mine'[r] = m /\ mine' \in [Req -> MineType]
    BY <1>6, <2>1 DEF IInv, TypeOK, MineType
  <2>3. pc'[r] = "create_cred" /\ pc' \in [Req -> Step]
    BY <1>6, GotoType DEF IInv, Step
  <2>4. TypeOK'
    BY <1>1, <1>2, <1>6, <2>2, <2>3 DEF IInv, TypeOK, MineType
  <2>5. Others(r)
    BY <1>6, <2>2 DEF Others, Goto, IInv, TypeOK
  <2>6. users[nextUser] = NoUser
    <3>1. ~Exists(nextUser) /\ users[nextUser] \in UserRow
      BY <1>2 DEF IInv, TypeOK, StoreInv, RowsOK
    <3>2. QED
      BY <3>1, RowTypes DEF Exists
  <2>7. \A j \in Id : ~SameKey(row, users[j])
    <3>1. ~SameKey(row, NoUser)
      BY <1>4, BasicTypes, KeysOfRows
    <3>2. QED
      BY <1>6, <2>6, <3>1 DEF Collides
  <2>8. RequestInv(r)'
    <3>1. CallOK(r)'
      BY <1>1, <1>4, <1>6, <2>3 DEF CallOK, OpsOfStep
    <3>2. SeenOK(r)'
      BY <2>3 DEF SeenOK, Found
    <3>3. Writing(r)' /\ Inserted(r)' /\ ~Renaming(r)' /\ ~Ending(r)'
      BY <2>3 DEF Writing, Inserted, Renaming, Ending
    <3>4. MineOK(r)'
      BY <1>1, <1>2, <1>4, <2>1, <2>2, <2>6, <2>7, <3>3 DEF MineOK
    <3>5. QED
      BY <3>1, <3>2, <3>4 DEF RequestInv
  <2>9. ASSUME NEW s \in Req \ {r} PROVE PairInv(r, s)'
    <3>1. /\ mine'[s] = mine[s] /\ Writing(s)' = Writing(s) /\ Inserted(s)' = Inserted(s)
      BY <2>5 DEF Others, Writing, Inserted, Renaming, Ending
    <3>2. Writing(s) => mine[s].id # nextUser
      BY <1>2, KnownWriting DEF Id
    <3>3. Inserted(s) => ~SameKey(row, mine[s].row)
      BY <1>3, IndexFree DEF Writing
    <3>4. QED
      BY <2>1, <2>2, <3>1, <3>2, <3>3 DEF PairInv
  <2>10. QED
    BY <1>1, <1>2, <2>4, <2>5, <2>8, <2>9, WritingStep
<1>7. QED
  BY <1>5, <1>6 DEF CreateUser

LEMMA CreateCredStep == ASSUME IInv, NEW r \in Req, CreateCred(r) PROVE IInv'
<1>1. /\ UNCHANGED <<users, creds, sessions, pending, nextUser, nextCeremony, nextSession, access,
                     refresh, call, seen, mine>>
      /\ pc[r] = "create_cred" /\ Goto(r, "commit_signup")
  BY DEF CreateCred, Stays, tables, counters, tokens, At
<1>2. pc'[r] = "commit_signup" /\ pc' \in [Req -> Step]
  BY <1>1, GotoType DEF IInv, Step
<1>3. TypeOK' /\ Others(r)
  BY <1>1, <1>2 DEF IInv, TypeOK, Others, Goto
<1>4. /\ Writing(r) /\ Inserted(r) /\ Writing(r)' /\ Inserted(r)'
      /\ ~Renaming(r)' /\ ~Ending(r)' /\ ~Found(r)'
  BY <1>1, <1>2 DEF Writing, Inserted, Renaming, Ending, Found
<1>5. RequestInv(r)'
  <2>1. CallOK(r)'
    BY <1>1, <1>2 DEF IInv, RequestInv, CallOK, OpsOfStep, Exists
  <2>2. SeenOK(r)' /\ MineOK(r)'
    BY <1>1, <1>2, <1>4 DEF SeenOK, MineOK, IInv, RequestInv
  <2>3. QED
    BY <2>1, <2>2 DEF RequestInv
<1>6. ASSUME NEW s \in Req \ {r} PROVE PairInv(r, s)'
  <2>1. PairInv(r, s)
    BY DEF IInv
  <2>2. Writing(s)' = Writing(s) /\ Inserted(s)' = Inserted(s)
    BY <1>3 DEF Others, Writing, Inserted, Renaming, Ending
  <2>3. QED
    BY <1>1, <1>4, <2>1, <2>2 DEF PairInv
<1>7. nextUser' \in 1..(MaxId + 1) /\ nextUser <= nextUser'
  BY <1>1 DEF IInv, TypeOK
<1>8. QED
  BY <1>1, <1>3, <1>5, <1>6, <1>7, WritingStep

(* update_user and soft_delete_user lock the row: nobody else has rewritten *)
(* or deleted it.                                                          *)
LEMMA LockedRow ==
  ASSUME IInv, NEW r \in Req, Others(r), NEW i \in Id, RowHolders(r, i) = {},
         mine'[r].id = i, ~Inserted(r)'
  PROVE  \A s \in Req \ {r} : PairInv(r, s)'
  BY DEF RowHolders, PairInv, Others, Writing, Inserted, Renaming, Ending

LEMMA UpdateRowStep == ASSUME IInv, NEW r \in Req, UpdateRow(r) PROVE IInv'
<1> DEFINE i == call[r].user
<1>1. CASE Refuse(r)
  BY <1>1, RefuseStep
<1>2. CASE /\ Updatable(users[i])
           /\ mine' = [mine EXCEPT ![r].id = i, ![r].row = Updated(users[i], call[r])]
           /\ Goto(r, "update_index")
           /\ Stays /\ UNCHANGED seen
  <2>1. /\ UNCHANGED <<users, creds, sessions, pending, nextUser, nextCeremony, nextSession, access,
                       refresh, call, seen>>
        /\ pc[r] = "update_row" /\ pc'[r] = "update_index" /\ pc' \in [Req -> Step]
    BY <1>2, GotoType DEF UpdateRow, Stays, tables, counters, tokens, At, IInv, Step
  <2>2. /\ call[r].op = "update" /\ call[r] \in Calls /\ i \in Id
        /\ mine[r] \in MineType
    BY <2>1, Known, CallTypes DEF OpsOfStep
  <2>3. RowHolders(r, i) = {}
    BY <2>1 DEF UpdateRow, Granted, WaitsFor
  <2>4. /\ users[i] \in UserRow /\ users[i].status = "active"
        /\ Updated(users[i], call[r]) \in UserRow
    BY <1>2, <2>2, WrittenTypes DEF Updatable, IInv, TypeOK
  <2> DEFINE m == [mine[r] EXCEPT !.id = i, !.row = Updated(users[i], call[r])]
  <2>a. i \in 0..MaxId
    BY <2>2 DEF Id
  <2>5. m \in MineType /\ m.id = i /\ m.row = Updated(users[i], call[r])
    BY <2>2, <2>4, <2>a DEF MineType
  <2>6. mine' = [mine EXCEPT ![r] = m] /\ mine'[r] = m /\ mine' \in [Req -> MineType]
    BY <1>2, <2>5 DEF IInv, TypeOK, MineType
  <2>7. TypeOK' /\ Others(r)
    BY <1>2, <2>1, <2>6 DEF IInv, TypeOK, MineType, Others, Goto
  <2>8. Writing(r)' /\ Renaming(r)' /\ ~Inserted(r)' /\ ~Ending(r)' /\ ~Found(r)'
    BY <2>1 DEF Writing, Inserted, Renaming, Ending, Found
  <2>9. RequestInv(r)'
    <3>1. CallOK(r)'
      BY <2>1, <2>2 DEF IInv, RequestInv, CallOK, OpsOfStep, Exists
    <3>2. SeenOK(r)'
      BY <2>1, <2>8 DEF SeenOK
    <3>3. MineOK(r)'
      BY <2>1, <2>4, <2>5, <2>6, <2>8 DEF MineOK, Active
    <3>4. QED
      BY <3>1, <3>2, <3>3 DEF RequestInv
  <2>10. \A s \in Req \ {r} : PairInv(r, s)'
    BY <2>2, <2>3, <2>5, <2>6, <2>7, <2>8, LockedRow
  <2>11. nextUser' \in 1..(MaxId + 1) /\ nextUser <= nextUser'
    BY <2>1 DEF IInv, TypeOK
  <2>12. QED
    BY <2>1, <2>7, <2>9, <2>10, <2>11, WritingStep
<1>3. QED
  BY <1>1, <1>2 DEF UpdateRow

LEMMA SoftDeleteStep == ASSUME IInv, NEW r \in Req, SoftDelete(r) PROVE IInv'
<1> DEFINE i   == call[r].user
           row == IF Active(i) THEN Deleted(users[i]) ELSE users[i]
<1>1. /\ UNCHANGED <<users, creds, sessions, pending, nextUser, nextCeremony, nextSession, access,
                     refresh, call, seen>>
      /\ pc[r] = "soft_delete" /\ pc'[r] = "commit_delete" /\ pc' \in [Req -> Step]
      /\ Goto(r, "commit_delete")
  BY GotoType DEF SoftDelete, Stays, tables, counters, tokens, At, IInv, Step
<1>2. /\ call[r].op = "delete" /\ call[r] \in Calls /\ i \in Id
      /\ mine[r] \in MineType
  BY <1>1, Known, CallTypes DEF OpsOfStep
<1>3. RowHolders(r, i) = {}
  BY <1>1 DEF SoftDelete, Granted, WaitsFor
<1>4. row \in UserRow
  BY <1>2, WrittenTypes DEF Active, IInv, TypeOK
<1> DEFINE m == [mine[r] EXCEPT !.id = i, !.row = row]
<1>a. i \in 0..MaxId
  BY <1>2 DEF Id
<1> HIDE DEF row
<1>5. m \in MineType /\ m.id = i /\ m.row = row
  BY <1>2, <1>4, <1>a DEF MineType
<1>6. mine' = [mine EXCEPT ![r] = m] /\ mine'[r] = m /\ mine' \in [Req -> MineType]
  BY <1>5 DEF SoftDelete, IInv, TypeOK, MineType, row
<1>7. TypeOK' /\ Others(r)
  BY <1>1, <1>6 DEF IInv, TypeOK, MineType, Others, Goto
<1>8. Writing(r)' /\ ~Renaming(r)' /\ ~Inserted(r)' /\ Ending(r)' /\ ~Found(r)'
  BY <1>1 DEF Writing, Inserted, Renaming, Ending, Found
<1>9. RequestInv(r)'
  <2>1. CallOK(r)'
    BY <1>1, <1>2 DEF IInv, RequestInv, CallOK, OpsOfStep, Exists
  <2>2. SeenOK(r)'
    BY <1>1, <1>8 DEF SeenOK
  <2>3. MineOK(r)'
    BY <1>1, <1>5, <1>6, <1>8 DEF MineOK, Active, row
  <2>4. QED
    BY <2>1, <2>2, <2>3 DEF RequestInv
<1>10. \A s \in Req \ {r} : PairInv(r, s)'
  BY <1>2, <1>3, <1>5, <1>6, <1>7, <1>8, LockedRow
<1>11. nextUser' \in 1..(MaxId + 1) /\ nextUser <= nextUser'
  BY <1>1 DEF IInv, TypeOK
<1>12. QED
  BY <1>1, <1>7, <1>9, <1>10, <1>11, WritingStep

(* A commit that puts a row in its place: the others have written no row    *)
(* with the same id, and none with one of its keys.                        *)
LEMMA RowStep ==
  ASSUME IInv, NEW r \in Req, Others(r), Writing(r), ~Writing(r)', RequestInv(r)',
         NEW row \in UserRow, row.status # "absent",
         users' = [users EXCEPT ![mine[r].id] = row],
         UNCHANGED <<pending, nextUser, access, refresh>>,
         \A j \in Id \ {mine[r].id} : ~SameKey(row, users[j]),
         \A s \in Req \ {r} : Inserted(s) => ~SameKey(row, mine[s].row),
         TypeOK', CredentialIffActive'
  PROVE  IInv'
<1> DEFINE i == mine[r].id
<1>1. i \in Id /\ i < nextUser
  BY KnownWriting
<1>2. users'[i] = row /\ \A j \in Id \ {i} : users'[j] = users[j]
  BY <1>1 DEF IInv, TypeOK
<1>3. \A j \in Id : Exists(j) => Exists(j)'
  BY <1>2 DEF Exists
<1>4. RowsOK'
  BY <1>1, <1>2 DEF IInv, StoreInv, RowsOK, Exists
<1>5. KeysOK'
  BY <1>1, <1>2, SameKeySymmetric DEF IInv, StoreInv, KeysOK
<1>6. PendingOK' /\ TokensOK'
  BY <1>3 DEF IInv, TypeOK, StoreInv, PendingOK, TokensOK
<1>7. ASSUME NEW s \in Req PROVE RequestInv(s)'
  <2>1. CASE s = r
    BY <2>1
  <2>2. CASE s # r
    <3>1. RequestInv(s) /\ nextUser \in Nat /\ call[s] \in Calls \cup {NoCall}
      BY DEF IInv, TypeOK
    <3>2. /\ pc'[s] = pc[s] /\ call'[s] = call[s] /\ seen'[s] = seen[s] /\ mine'[s] = mine[s]
      BY <2>2 DEF Others
    <3>3. Writing(s) => users'[mine[s].id] = users[mine[s].id]
      BY <1>2, <2>2, KnownWriting DEF IInv, PairInv
    <3>4. Inserted(s) => \A j \in Id : ~SameKey(mine[s].row, users'[j])
      BY <1>2, <2>2, <3>1, SameKeySymmetric DEF RequestInv, MineOK
    <3>5. QED
      BY <1>3, <3>1, <3>2, <3>3, <3>4, OtherRequest
  <2>3. QED
    BY <2>1, <2>2
<1>8. \A s, t \in Req : s # t => PairInv(s, t)'
  <2>1. \A s \in Req \ {r} : PairInv(r, s)'
    BY DEF PairInv, Writing
  <2>2. QED
    BY <2>1, PairsOf
<1>9. QED
  BY <1>4, <1>5, <1>6, <1>7, <1>8 DEF IInv, StoreInv

LEMMA CommitSignupStep == ASSUME IInv, NEW r \in Req, CommitSignup(r) PROVE IInv'
<1> DEFINE i   == mine[r].id
           row == mine[r].row
<1>1. /\ UNCHANGED <<sessions, pending, nextUser, nextCeremony, nextSession, access, refresh>>
      /\ users' = [users EXCEPT ![i] = row] /\ creds' = [creds EXCEPT ![i] = 0]
      /\ pc[r] = "commit_signup"
  BY DEF CommitSignup, counters, tokens, At
<1>2. Inserted(r) /\ Writing(r)
  BY <1>1 DEF Inserted, Writing
<1>3. /\ i \in Id /\ row \in UserRow /\ row.status = "active" /\ call[r].op = "signup_finish"
      /\ \A j \in Id : ~SameKey(row, users[j])
  BY <1>1, <1>2, Known, KnownWriting DEF IInv, RequestInv, MineOK, OpsOfStep
<1>4. \A s \in Req \ {r} : Inserted(s) => ~SameKey(row, mine[s].row)
  BY <1>2 DEF IInv, PairInv
<1>5. CredentialIffActive'
  BY <1>1, <1>3 DEF IInv, TypeOK, StoreInv, CredentialIffActive, Active
<1>6. CASE Close(r)
  <2>1. TypeOK'
    BY <1>1, <1>3, <1>6, CloseType DEF IInv, TypeOK, SeenType, MineType, Count
  <2>2. QED
    BY <1>1, <1>2, <1>3, <1>4, <1>5, <1>6, <2>1, CloseRequest, RowStep DEF IInv
<1>7. CASE /\ mine' = [mine EXCEPT ![r] = NothingMine]
           /\ seen' = [seen EXCEPT ![r].user = i]
           /\ Goto(r, "del_reg")
           /\ UNCHANGED call
  <2>1. pc'[r] = "del_reg" /\ pc' \in [Req -> Step]
    BY <1>7, GotoType DEF IInv, Step
  <2> DEFINE e == [seen[r] EXCEPT !.user = i]
  <2>2. e \in SeenType /\ e.user = i
    BY <1>3, Known DEF SeenType, Id
  <2>3. seen'[r] = e /\ seen' \in [Req -> SeenType]
    BY <1>7, <2>2 DEF IInv, TypeOK, SeenType
  <2>4. mine'[r] = NothingMine /\ mine' \in [Req -> MineType]
    BY <1>7, BasicTypes DEF IInv, TypeOK, MineType
  <2>5. TypeOK'
    BY <1>1, <1>3, <1>7, <2>1, <2>3, <2>4 DEF IInv, TypeOK, SeenType, MineType, Count
  <2>6. Others(r)
    BY <1>7 DEF Others, Goto, IInv, TypeOK
  <2>7. ~Writing(r)' /\ ~Inserted(r)' /\ ~Renaming(r)' /\ ~Ending(r)'
    BY <2>1 DEF Writing, Inserted, Renaming, Ending
  <2>8. RequestInv(r)'
    <3>1. CallOK(r)'
      BY <1>1, <1>3, <1>7, <2>1 DEF IInv, RequestInv, CallOK, OpsOfStep
    <3>2. users'[i].status # "absent"
      BY <1>1, <1>3 DEF IInv, TypeOK
    <3>3. SeenOK(r)'
      BY <1>3, <2>1, <2>2, <2>3, <3>2 DEF SeenOK, Exists
    <3>4. MineOK(r)'
      BY <2>1, <2>4, <2>7 DEF MineOK, NothingMine
    <3>5. QED
      BY <3>1, <3>3, <3>4 DEF RequestInv
  <2>9. QED
    BY <1>1, <1>2, <1>3, <1>4, <1>5, <2>5, <2>6, <2>7, <2>8, RowStep
<1>8. QED
  BY <1>6, <1>7 DEF CommitSignup

LEMMA UpdateIndexStep == ASSUME IInv, NEW r \in Req, UpdateIndex(r) PROVE IInv'
<1> DEFINE i   == mine[r].id
           row == mine[r].row
<1>1. /\ UNCHANGED <<creds, sessions, pending, nextUser, nextCeremony, nextSession, access,
                     refresh>>
      /\ pc[r] = "update_index" /\ Close(r)
  BY DEF UpdateIndex, counters, tokens, At
<1>2. /\ Renaming(r) /\ Writing(r) /\ ~Inserted(r)
  BY <1>1 DEF Renaming, Inserted, Writing
<1>3. /\ i \in Id /\ row \in UserRow /\ Active(i) /\ users[i] \in UserRow
      /\ row = Updated(users[i], call[r]) /\ call[r] \in Calls /\ call[r].op = "update"
  BY <1>1, <1>2, Known, KnownWriting DEF IInv, TypeOK, RequestInv, MineOK, OpsOfStep
<1>4. row.status = "active"
  BY <1>3, WrittenTypes DEF Active
<1>5. CASE UNCHANGED users
  <2>1. TypeOK' /\ CredentialIffActive' /\ PendingOK' /\ TokensOK'
    BY <1>1, <1>5, CloseType DEF IInv, TypeOK, SeenType, MineType, StoreInv, CredentialIffActive,
                                 Active, PendingOK, TokensOK, Exists
  <2>2. QED
    BY <1>1, <1>5, <2>1, CloseRequest, QuietStep DEF IInv
<1>6. CASE ~Collides(i, row) /\ users' = [users EXCEPT ![i] = row]
  <2>1. TypeOK'
    BY <1>1, <1>3, <1>6, CloseType DEF IInv, TypeOK, SeenType, MineType
  <2>2. CredentialIffActive'
    BY <1>1, <1>3, <1>4, <1>6 DEF IInv, TypeOK, StoreInv, CredentialIffActive, Active
  <2>3. UniqueWaits(r, row) = {}
    BY <1>1 DEF UpdateIndex, Granted, WaitsFor
  <2>4. \A s \in Req \ {r} : Inserted(s) => ~SameKey(row, mine[s].row)
    BY <2>3, IndexFree DEF Writing
  <2>5. \A j \in Id \ {i} : ~SameKey(row, users[j])
    BY <1>6 DEF Collides
  <2>6. QED
    BY <1>1, <1>2, <1>3, <1>4, <1>6, <2>1, <2>2, <2>4, <2>5, CloseRequest, RowStep DEF IInv
<1>7. QED
  BY <1>5, <1>6 DEF UpdateIndex

LEMMA CommitDeleteStep == ASSUME IInv, NEW r \in Req, CommitDelete(r) PROVE IInv'
<1> DEFINE i   == call[r].user
           row == mine[r].row
<1>1. /\ UNCHANGED <<pending, nextUser, nextCeremony, nextSession, access, refresh>>
      /\ users' = [users EXCEPT ![i] = row] /\ creds' = [creds EXCEPT ![i] = -1]
      /\ sessions' = [s \in Session |-> IF s \in mine[r].gone THEN NoSession ELSE sessions[s]]
      /\ pc[r] = "commit_delete" /\ Close(r)
  BY DEF CommitDelete, CredDeleted, counters, tokens, At
<1>2. Ending(r) /\ Writing(r)
  BY <1>1 DEF Ending, Writing
<1>3. /\ mine[r].id = i /\ i \in Id /\ row \in UserRow /\ users[i] \in UserRow
      /\ row = IF Active(i) THEN Deleted(users[i]) ELSE users[i]
  BY <1>1, <1>2, KnownWriting DEF IInv, TypeOK, RequestInv, MineOK
<1>4. Exists(i)
  BY <1>1, Known DEF IInv, RequestInv, CallOK, OpsOfStep
<1>5. row.status # "absent" /\ row.status # "active"
  BY <1>3, <1>4 DEF Exists, Active, Deleted, UserRow, NoUser
<1>6. TypeOK'
  BY <1>1, <1>3, BasicTypes, CloseType
     DEF IInv, TypeOK, SessionType, SeenType, MineType
<1>7. CredentialIffActive'
  BY <1>1, <1>3, <1>5 DEF IInv, TypeOK, StoreInv, CredentialIffActive, Active
<1>8. ASSUME NEW other \in UserRow, ~SameKey(other, users[i]) PROVE ~SameKey(row, other)
  BY <1>3, <1>4, <1>8, KeysOfRows, SameKeySymmetric DEF Exists
<1>9. \A j \in Id \ {i} : ~SameKey(row, users[j])
  BY <1>3, <1>8, SameKeySymmetric DEF IInv, TypeOK, StoreInv, KeysOK
<1>10. \A s \in Req \ {r} : Inserted(s) => ~SameKey(row, mine[s].row)
  <2>1. ASSUME NEW s \in Req \ {r}, Inserted(s) PROVE ~SameKey(row, mine[s].row)
    <3>1. mine[s].row \in UserRow /\ ~SameKey(mine[s].row, users[i])
      BY <1>3, <2>1, KnownWriting DEF IInv, RequestInv, MineOK, Writing
    <3>2. QED
      BY <1>8, <3>1
  <2>2. QED
    BY <2>1
<1>11. QED
  BY <1>1, <1>2, <1>3, <1>5, <1>6, <1>7, <1>9, <1>10, CloseRequest, RowStep DEF IInv

-----------------------------------------------------------------------------
(* The invariant *)

LEMMA InitInv == Init => IInv
<1> SUFFICES ASSUME Init PROVE IInv
  OBVIOUS
<1>1. TypeOK
  BY InitType
<1>2. RowsOK /\ KeysOK /\ CredentialIffActive /\ PendingOK /\ TokensOK
  BY DEF Init, RowsOK, KeysOK, Exists, SameKey, NoUser, CredentialIffActive, Active, PendingOK,
         NoPending, TokensOK, Id
<1>3. \A r \in Req : /\ pc[r] = "idle" /\ call[r] = NoCall /\ mine[r] = NothingMine
                     /\ ~Writing(r) /\ ~Inserted(r) /\ ~Renaming(r) /\ ~Ending(r) /\ ~Found(r)
  BY DEF Init, Writing, Inserted, Renaming, Ending, Found
<1>4. \A r \in Req : RequestInv(r)
  BY <1>3 DEF RequestInv, CallOK, OpsOfStep, NoCall, SeenOK, MineOK, NothingMine
<1>5. \A r, s \in Req : PairInv(r, s)
  BY <1>3 DEF PairInv
<1>6. QED
  BY <1>1, <1>2, <1>4, <1>5 DEF IInv, StoreInv

LEMMA WorkInv == ASSUME IInv, NEW r \in Req, Work(r) PROVE IInv'
  BY NameExistsStep, EmailExistsStep, SaveRegStep, GetRegStep, CreateUserStep, CreateCredStep,
     CommitSignupStep, DelRegStep, FindUserStep, GetCredsStep, SaveAuthStep, GetAuthStep,
     GetUserStep, GetUserCredsStep, RecordUseStep, RecordUseErrorStep, CreateSessionStep,
     DelAuthStep, GetSessionStep, RenewAccessStep, UpdateRowStep, UpdateIndexStep,
     DelSessionsStep, DelCredsStep, SoftDeleteStep, CommitDeleteStep
  DEF Work

LEMMA NextInv == IInv /\ [Next]_vars => IInv'
<1> SUFFICES ASSUME IInv, [Next]_vars PROVE IInv'
  OBVIOUS
<1>1. ASSUME NEW r \in Req, Begin(r) PROVE IInv'
  BY <1>1, BeginStep
<1>2. ASSUME NEW r \in Req, Work(r) PROVE IInv'
  BY <1>2, WorkInv
<1>3. ASSUME NEW r \in Req, ConnectionLost(r) \/ DeadlockAbort(r) PROVE IInv'
  BY <1>3, RefuseStep DEF ConnectionLost, DeadlockAbort
<1>4. ASSUME NEW k \in Ceremony, Expire(k) PROVE IInv'
  BY <1>4, ExpireStep
<1>5. ASSUME NEW i \in Id, ExpireAccess(i) PROVE IInv'
  BY <1>5, ExpireAccessStep
<1>6. ASSUME NEW s \in Session, ExpireRefresh(s) PROVE IInv'
  BY <1>6, ExpireRefreshStep
<1>7. CASE UNCHANGED vars
  BY <1>7 DEF vars, tables, IInv, TypeOK, StoreInv, RowsOK, KeysOK, CredentialIffActive, Active,
              PendingOK, TokensOK, Exists, RequestInv, CallOK, SeenOK, MineOK, PairInv, Writing,
              Inserted, Renaming, Ending, Found
<1>8. QED
  BY <1>1, <1>2, <1>3, <1>4, <1>5, <1>6, <1>7 DEF Next

(* What each request knows and has written, and what that keeps true of     *)
(* accounts, credentials, pending ceremonies and tokens, holds throughout:  *)
(* the interleaving of the statements of src/api's handlers breaks none.   *)
THEOREM AccountsSafe == Spec => []IInv
<1>1. Init => IInv
  BY InitInv
<1>2. IInv /\ [Next]_vars => IInv'
  BY NextInv
<1>3. QED
  BY <1>1, <1>2, PTL DEF Spec

(* Every variable has its type; in particular no NOT NULL column of users   *)
(* ever is null.                                                           *)
THEOREM AccountsTyped == Spec => []TypeOK
<1>1. IInv => TypeOK
  BY DEF IInv
<1>2. QED
  BY <1>1, AccountsSafe, PTL

(* The two transactions that insert and delete a passkey keep it there      *)
(* exactly while the account is active.                                    *)
THEOREM PasskeyWhileActive == Spec => []CredentialIffActive
<1>1. IInv => CredentialIffActive
  BY DEF IInv, StoreInv
<1>2. QED
  BY <1>1, AccountsSafe, PTL

(* A registration that is pending makes one account, however many calls of  *)
(* signupFinish read it before one of them drops it from Redis.            *)
THEOREM CeremonyMakesOneAccount == Spec => []OneAccountPerCeremony
<1>1. IInv => OneAccountPerCeremony
  BY DEF IInv, StoreInv, KeysOK, OneAccountPerCeremony, SameKey, Exists
<1>2. QED
  BY <1>1, AccountsSafe, PTL

(* No two active accounts share a name or an email, although the rows that  *)
(* take and give up names commit in any order.                             *)
THEOREM NamesUnique == Spec => []UniqueActive
<1>1. IInv => UniqueActive
  BY DEF IInv, StoreInv, KeysOK, UniqueActive, SameKey, Active
<1>2. QED
  BY <1>1, AccountsSafe, PTL

-----------------------------------------------------------------------------
(* Accounts implements AccountBook *)

LEMMA BookInit == Init => Book!Init
  BY DEF Init, Book!Init, Book!Id, Book!Absent, Id, NoUser

(* A row with none of the keys of the others is free to take its names. *)
LEMMA KeyFree ==
  ASSUME NEW i \in Id, NEW row, row.status = "active",
         \A j \in Id \ {i} : ~SameKey(row, users[j])
  PROVE  Book!Free(i, row.name, row.email)
  BY DEF SameKey, Book!Free, Book!Id, Book!Active, Id

LEMMA SignupRegisters == ASSUME IInv, NEW r \in Req, CommitSignup(r) PROVE Book!Next
<1> DEFINE i   == mine[r].id
           row == mine[r].row
<1>1. users' = [users EXCEPT ![i] = row] /\ creds' = [creds EXCEPT ![i] = 0] /\ Inserted(r)
  BY DEF CommitSignup, At, Inserted
<1>2. /\ i \in Id /\ row \in UserRow /\ row.status = "active" /\ users[i] = NoUser
      /\ \A j \in Id : ~SameKey(row, users[j])
  BY <1>1, KnownWriting DEF IInv, RequestInv, MineOK, Writing
<1>3. row \in [status : {"active"}, name : Name, email : Email, handle : Ceremony]
  BY <1>2, RowTypes
<1>4. row = Book!Account(row.name, row.email, row.handle)
  BY <1>3 DEF Book!Account
<1>5. \A j \in Id : users[j].handle # row.handle
  <2>1. ASSUME NEW j \in Id PROVE users[j].handle # row.handle
    <3>1. users[j] \in UserRow /\ ~SameKey(row, users[j])
      BY <1>2 DEF IInv, TypeOK
    <3>2. CASE users[j].status = "absent"
      BY <1>3, <3>1, <3>2, RowTypes DEF NoUser, Ceremony
    <3>3. CASE users[j].status # "absent"
      BY <1>2, <3>1, <3>3 DEF SameKey
    <3>4. QED
      BY <3>2, <3>3
  <2>2. QED
    BY <2>1
<1>6. Book!Free(i, row.name, row.email)
  BY <1>2, KeyFree
<1>7. Book!Register(i, row.name, row.email, row.handle)
  BY <1>1, <1>2, <1>4, <1>5, <1>6 DEF Book!Register, Book!Absent, NoUser, Book!Id, Id
<1>8. i \in Book!Id /\ row.name \in Name /\ row.email \in Email /\ row.handle \in Ceremony
  BY <1>2, <1>3 DEF Book!Id, Id
<1>9. QED
  BY <1>7, <1>8 DEF Book!Next

LEMMA UpdateRenames ==
  ASSUME IInv, NEW r \in Req, UpdateIndex(r)
  PROVE  Book!Next \/ UNCHANGED <<users, creds>>
<1> DEFINE i   == mine[r].id
           row == mine[r].row
<1>1. Renaming(r) /\ Writing(r) /\ UNCHANGED creds
  BY DEF UpdateIndex, At, Renaming, Writing
<1>2. CASE UNCHANGED users
  BY <1>1, <1>2
<1>3. CASE ~Collides(i, row) /\ users' = [users EXCEPT ![i] = row]
  <2>1. /\ i \in Id /\ row \in UserRow /\ Active(i) /\ users[i] \in UserRow
        /\ row = Updated(users[i], call[r]) /\ call[r] \in Calls /\ call[r].op = "update"
    BY <1>1, Known, KnownWriting DEF Renaming, IInv, TypeOK, RequestInv, MineOK, OpsOfStep
  <2>2. row.status = "active" /\ row.handle = users[i].handle /\ users[i].status = "active"
    BY <2>1, WrittenTypes DEF Active
  <2>3. /\ row \in [status : {"active"}, name : Name, email : Email, handle : Ceremony]
        /\ users[i] \in [status : {"active"}, name : Name, email : Email, handle : Ceremony]
    BY <2>1, <2>2, RowTypes
  <2>4. row = [users[i] EXCEPT !.name = row.name, !.email = row.email]
    BY <2>2, <2>3
  <2>5. Book!Free(i, row.name, row.email)
    BY <1>3, <2>1, <2>2, KeyFree DEF Collides
  <2>6. users' = [users EXCEPT ![i].name = row.name, ![i].email = row.email]
    BY <1>3, <2>1, <2>4 DEF IInv, TypeOK
  <2>7. Book!Rename(i, row.name, row.email)
    BY <1>1, <2>1, <2>5, <2>6 DEF Book!Rename, Book!Active, Active
  <2>8. i \in Book!Id /\ row.name \in Name /\ row.email \in Email
    BY <2>1, <2>3 DEF Book!Id, Id
  <2>9. QED
    BY <2>7, <2>8 DEF Book!Next
<1>4. QED
  BY <1>2, <1>3 DEF UpdateIndex

(* The second deletion of an account finds it deleted and changes nothing. *)
LEMMA DeleteRemoves ==
  ASSUME IInv, NEW r \in Req, CommitDelete(r)
  PROVE  Book!Next \/ UNCHANGED <<users, creds>>
<1> DEFINE i == call[r].user
<1>1. /\ users' = [users EXCEPT ![i] = mine[r].row] /\ creds' = [creds EXCEPT ![i] = -1]
      /\ Ending(r) /\ Writing(r)
  BY DEF CommitDelete, CredDeleted, At, Ending, Writing
<1>2. /\ i \in Id /\ users[i] \in UserRow
      /\ mine[r].row = IF Active(i) THEN Deleted(users[i]) ELSE users[i]
  BY <1>1, KnownWriting DEF IInv, TypeOK, RequestInv, MineOK
<1>3. CASE Active(i)
  <2>1. users' = [users EXCEPT ![i].status = "deleted", ![i].name = FreedName,
                               ![i].email = FreedEmail]
    BY <1>1, <1>2, <1>3 DEF Deleted, IInv, TypeOK
  <2>2. Book!Remove(i)
    BY <1>1, <1>3, <2>1 DEF Book!Remove, Book!Active, Active
  <2>3. QED
    BY <1>2, <2>2 DEF Book!Next, Book!Id, Id
<1>4. CASE ~Active(i)
  <2>1. creds[i] = -1
    BY <1>2, <1>4 DEF IInv, StoreInv, CredentialIffActive
  <2>2. QED
    BY <1>1, <1>2, <1>4, <2>1 DEF IInv, TypeOK
<1>5. QED
  BY <1>3, <1>4

(* record_credential_use, whether or not its answer arrives. *)
LEMMA RecordUses ==
  ASSUME IInv, NEW r \in Req, At(r, "record_use"), UNCHANGED users,
         creds[seen[r].user] # -1, ~Suspicious(call[r].count, creds[seen[r].user]),
         creds' = [creds EXCEPT ![seen[r].user] = call[r].count]
  PROVE  Book!Next
<1> DEFINE i == seen[r].user
           c == call[r].count
<1>1. i \in Id /\ c \in Count /\ creds[i] \in Count
  BY Known, CallTypes DEF At, OpsOfStep, Found, IInv, TypeOK
<1>2. c > creds[i] \/ (c = 0 /\ creds[i] = 0)
  BY <1>1 DEF Suspicious, Count
<1>3. Book!Use(i, c)
  BY <1>2 DEF Book!Use
<1>4. QED
  BY <1>1, <1>3 DEF Book!Next, Book!Id, Id, Count

LEMMA BookStep == IInv /\ [Next]_vars => [Book!Next]_<<users, creds>>
<1> SUFFICES ASSUME IInv, [Next]_vars PROVE Book!Next \/ UNCHANGED <<users, creds>>
  OBVIOUS
<1>1. ASSUME NEW r \in Req, Begin(r) PROVE UNCHANGED <<users, creds>>
  BY <1>1 DEF Begin, tables
<1>2. ASSUME NEW r \in Req, Refuse(r) PROVE UNCHANGED <<users, creds>>
  BY <1>2 DEF Refuse, tables
<1>3. ASSUME NEW r \in Req, ConnectionLost(r) \/ DeadlockAbort(r) PROVE UNCHANGED <<users, creds>>
  BY <1>2, <1>3 DEF ConnectionLost, DeadlockAbort
<1>4. ASSUME NEW r \in Req, Work(r) PROVE Book!Next \/ UNCHANGED <<users, creds>>
  <2>1. CASE CommitSignup(r)
    BY <2>1, SignupRegisters
  <2>2. CASE UpdateIndex(r)
    BY <2>2, UpdateRenames
  <2>3. CASE CommitDelete(r)
    BY <2>3, DeleteRemoves
  <2>4. CASE RecordUse(r)
    BY <1>2, <2>4, RecordUses DEF RecordUse
  <2>5. CASE RecordUseError(r)
    BY <2>5, RecordUses DEF RecordUseError
  <2>6. CASE \/ NameExists(r) \/ EmailExists(r) \/ SaveReg(r) \/ GetReg(r) \/ CreateUser(r)
             \/ CreateCred(r) \/ DelReg(r)
    BY <1>2, <2>6 DEF NameExists, EmailExists, SaveReg, SavePending, GetReg, CreateUser,
                      CreateCred, DelReg, Stays, tables
  <2>7. CASE \/ FindUser(r) \/ GetCreds(r) \/ SaveAuth(r) \/ GetAuth(r) \/ GetUser(r)
             \/ GetUserCreds(r) \/ CreateSession(r) \/ DelAuth(r)
    BY <1>2, <2>7 DEF FindUser, GetCreds, SaveAuth, SavePending, GetAuth, GetUser, GetUserCreds,
                      CreateSession, DelAuth, Stays, tables
  <2>8. CASE \/ GetSession(r) \/ RenewAccess(r) \/ UpdateRow(r) \/ DelSessions(r) \/ DelCreds(r)
             \/ SoftDelete(r)
    BY <1>2, <2>8 DEF GetSession, RenewAccess, UpdateRow, DelSessions, DelCreds, SoftDelete,
                      Stays, tables
  <2>9. QED
    BY <1>4, <2>1, <2>2, <2>3, <2>4, <2>5, <2>6, <2>7, <2>8 DEF Work
<1>5. ASSUME NEW k \in Ceremony, Expire(k) PROVE UNCHANGED <<users, creds>>
  BY <1>5 DEF Expire, tables
<1>6. ASSUME NEW i \in Id, ExpireAccess(i) PROVE UNCHANGED <<users, creds>>
  BY <1>6 DEF ExpireAccess, tables
<1>7. ASSUME NEW s \in Session, ExpireRefresh(s) PROVE UNCHANGED <<users, creds>>
  BY <1>7 DEF ExpireRefresh, tables
<1>8. CASE UNCHANGED vars
  BY <1>8 DEF vars, tables
<1>9. QED
  BY <1>1, <1>3, <1>4, <1>5, <1>6, <1>7, <1>8 DEF Next

(* Every interleaving of the statements of sign-ups, sign-ins, updates and  *)
(* deletions is, for users and credentials, one of whole calls of db.Store. *)
THEOREM AccountsImplement == Spec => Atomic
<1>1. Init => Book!Init
  BY BookInit
<1>2. IInv /\ [Next]_vars => [Book!Next]_<<users, creds>>
  BY BookStep
<1>3. QED
  BY <1>1, <1>2, AccountsSafe, PTL DEF Spec, Atomic, Book!Spec, Book!bookVars

-----------------------------------------------------------------------------
(* What every step keeps *)

(* No account ever disappears, and a count only rises. *)
LEMMA CountsOnlyRise ==
  ASSUME IInv, [Next]_vars, NEW i \in Id, Exists(i)
  PROVE  /\ users'[i].status # "absent"
         /\ creds'[i] # -1 => creds[i] # -1 /\ creds'[i] >= creds[i]
<1>1. /\ users \in [Id -> UserRow] /\ creds \in [Id -> {-1} \cup Count]
      /\ users[i].status # "absent"
  BY DEF IInv, TypeOK, Exists
<1>2. CASE UNCHANGED <<users, creds>>
  BY <1>1, <1>2 DEF Count
<1>3. CASE Book!Next
  <2>1. PICK j \in Id :
          \/ \E n \in Name, e \in Email :
               Book!Rename(j, n, e) \/ \E k \in Ceremony : Book!Register(j, n, e, k)
          \/ Book!Remove(j)
          \/ \E c \in 0..MaxCount : Book!Use(j, c)
    BY <1>3 DEF Book!Next, Book!Id, Id
  <2>2. ASSUME NEW n \in Name, NEW e \in Email, Book!Rename(j, n, e)
        PROVE  users'[i].status = users[i].status /\ creds'[i] = creds[i]
    BY <1>1, <2>2 DEF Book!Rename, Book!Active, UserRow, NoUser
  <2>3. ASSUME NEW n \in Name, NEW e \in Email, NEW k \in Ceremony, Book!Register(j, n, e, k)
        PROVE  users'[i] = users[i] /\ creds'[i] = creds[i]
    BY <1>1, <2>3 DEF Book!Register, Book!Absent
  <2>4. CASE Book!Remove(j)
    BY <1>1, <2>4 DEF Book!Remove, Count, UserRow, NoUser
  <2>5. ASSUME NEW c \in 0..MaxCount, Book!Use(j, c)
        PROVE  /\ users'[i] = users[i]
               /\ creds'[i] = creds[i] \/ (creds[i] # -1 /\ creds'[i] >= creds[i])
    <3>1. /\ users' = users /\ creds' = [creds EXCEPT ![j] = c] /\ creds[j] # -1
          /\ c > creds[j] \/ (c = 0 /\ creds[j] = 0)
      BY <2>5 DEF Book!Use
    <3>2. creds[j] \in Int /\ c \in Int /\ creds'[j] = c
      BY <1>1, <3>1 DEF Count
    <3>3. QED
      BY <1>1, <3>1, <3>2
  <2>6. QED
    BY <1>1, <2>1, <2>2, <2>3, <2>4, <2>5 DEF Count
<1>4. QED
  BY <1>2, <1>3, BookStep

(* A request's step is its own. *)
LEMMA OwnStep ==
  ASSUME IInv, NEW r \in Req, Begin(r) \/ Work(r) \/ Refuse(r)
  PROVE  Others(r)
<1>1. TypeOK
  BY DEF IInv
<1>2. CASE Begin(r) \/ Refuse(r)
  BY <1>1, <1>2 DEF Begin, Refuse, Close, Goto, Others, TypeOK
<1>3. CASE \/ NameExists(r) \/ EmailExists(r) \/ SaveReg(r) \/ GetReg(r) \/ CreateUser(r)
           \/ CreateCred(r) \/ CommitSignup(r) \/ DelReg(r)
  BY <1>1, <1>3 DEF NameExists, EmailExists, SaveReg, SavePending, GetReg, CreateUser,
     CreateCred, CommitSignup, DelReg, Refuse, Close, Goto, Stays, Others, TypeOK
<1>4. CASE FindUser(r) \/ GetCreds(r) \/ SaveAuth(r) \/ GetAuth(r) \/ GetUser(r) \/ GetUserCreds(r)
  BY <1>1, <1>4 DEF FindUser, GetCreds, SaveAuth, SavePending, GetAuth, GetUser, GetUserCreds,
     Refuse, Close, Goto, Stays, Others, TypeOK
<1>5. CASE RecordUse(r) \/ RecordUseError(r) \/ CreateSession(r) \/ DelAuth(r)
  BY <1>1, <1>5 DEF RecordUse, RecordUseError, CreateSession, DelAuth,
     Refuse, Close, Goto, Stays, Others, TypeOK
<1>6. CASE GetSession(r) \/ RenewAccess(r) \/ UpdateRow(r) \/ UpdateIndex(r)
  BY <1>1, <1>6 DEF GetSession, RenewAccess, UpdateRow, UpdateIndex,
     Refuse, Close, Goto, Stays, Others, TypeOK
<1>7. CASE DelSessions(r) \/ DelCreds(r) \/ SoftDelete(r) \/ CommitDelete(r)
  BY <1>1, <1>7 DEF DelSessions, DelCreds, SoftDelete, CommitDelete,
     Refuse, Close, Goto, Stays, Others, TypeOK
<1>8. QED
  BY <1>2, <1>3, <1>4, <1>5, <1>6, <1>7 DEF Work

-----------------------------------------------------------------------------
(* Steps that store no count, earn no session and begin no ceremony *)

(* The user r goes on with is the one it had, or that of the pending        *)
(* authentication it has read.                                             *)
UserKept(r) ==
  call'[r].op = "signin_finish" /\ Found(r)' =>
    /\ call'[r] = call[r]
    /\ \/ Found(r) /\ seen'[r].user = seen[r].user
       \/ LET k == call[r].ceremony
          IN k \in Ceremony /\ pending[k].kind = "auth" /\ seen'[r].user = pending[k].user

LEMMA PlainStep ==
  ASSUME IInv, LoginInv, [Next]_vars, NEW r \in Req, Others(r),
         UNCHANGED nextCeremony,
         \A k \in Ceremony : pending'[k] \in {pending[k], NoPending},
         \A s \in Session : sessions'[s] \in {sessions[s], NoSession},
         ~seen'[r].recorded, UserKept(r)
  PROVE  LoginInv'
<1>1. PICK owner \in [Ceremony -> 0..MaxId] : OwnedBy(owner)
  BY DEF LoginInv, OwnersOK
<1>2. \A s \in Session : Earned(s)' => Earned(s) /\ sessions'[s] = sessions[s]
  BY DEF Earned, NoSession
<1>3. OwnedBy(owner)'
  <2>1. \A k \in Ceremony : pending'[k].kind = "auth" => pending'[k] = pending[k]
    BY DEF NoPending
  <2>2. ASSUME NEW q \in Req, call'[q].op = "signin_finish", Found(q)'
        PROVE  call'[q].ceremony < nextCeremony /\ seen'[q].user = owner[call'[q].ceremony]
    <3>1. CASE q = r
      BY <1>1, <2>2, <3>1 DEF UserKept, OwnedBy
    <3>2. CASE q # r
      BY <1>1, <2>2, <3>2 DEF Others, OwnedBy, Found
    <3>3. QED
      BY <3>1, <3>2
  <2>3. QED
    BY <1>1, <1>2, <2>1, <2>2 DEF OwnedBy
<1>4. \A q \in Req : OnItsWay(q)' => q # r /\ OnItsWay(q) /\ seen'[q] = seen[q] /\ call'[q] = call[q]
  BY DEF OnItsWay, Others
<1>5. ASSUME NEW i \in Id, NEW c \in Count, Stored(i, c)
      PROVE  users'[i].status # "absent" /\ (creds'[i] # -1 => creds'[i] >= c)
  <2>1. /\ users'[i].status # "absent"
        /\ creds'[i] # -1 => creds[i] # -1 /\ creds'[i] >= creds[i]
    BY <1>5, CountsOnlyRise DEF Stored
  <2>2. TypeOK /\ TypeOK'
    BY NextInv DEF IInv
  <2>3. creds[i] \in Int /\ creds'[i] \in Int /\ c \in Int
    BY <2>2 DEF TypeOK, Count
  <2>4. QED
    BY <1>5, <2>1, <2>3 DEF Stored
<1>6. ASSUME NEW q \in Req, OnItsWay(q)' PROVE Stored(seen[q].user, call[q].count)'
  <2>1. /\ Stored(seen[q].user, call[q].count) /\ seen'[q] = seen[q] /\ call'[q] = call[q]
    BY <1>4, <1>6 DEF LoginInv, CountsOK
  <2>2. seen[q].user \in Id /\ call[q].count \in Count
    BY <1>4, <1>6, Known, CallTypes DEF OnItsWay, Found
  <2>3. QED
    BY <1>5, <2>1, <2>2 DEF Stored, Exists
<1>7. ASSUME NEW s \in Session, Earned(s)'
      PROVE  Stored(sessions[s].user, sessions[s].by.count)'
  <2>1. Earned(s) /\ sessions'[s] = sessions[s]
    BY <1>2, <1>7
  <2>2. /\ Stored(sessions[s].user, sessions[s].by.count)
        /\ sessions[s].user \in Id /\ sessions[s].by.count \in Count
    BY <1>1, <2>1 DEF LoginInv, CountsOK, OwnedBy, IInv, TypeOK
  <2>3. QED
    BY <1>5, <2>1, <2>2 DEF Stored, Exists
<1>8. \A q \in Req : seen'[q].recorded =>
        pc'[q] \in {"create_session", "del_auth"} /\ call'[q].op = "signin_finish"
  BY DEF Others, LoginInv, CountsOK
<1>9. CountsOK'
  BY <1>6, <1>7, <1>8 DEF CountsOK
<1>10. OnceOK'
  BY <1>2, <1>4 DEF LoginInv, OnceOK
<1>11. QED
  BY <1>3, <1>9, <1>10 DEF LoginInv, OwnersOK

LEMMA Unrecorded ==
  ASSUME LoginInv, NEW r \in Req, pc[r] \notin {"create_session", "del_auth"}
  PROVE  ~seen[r].recorded
  BY DEF LoginInv, CountsOK

(* The request ends. *)
LEMMA ClosingStep ==
  ASSUME IInv, LoginInv, [Next]_vars, NEW r \in Req, Others(r), Close(r),
         UNCHANGED nextCeremony,
         \A k \in Ceremony : pending'[k] \in {pending[k], NoPending},
         \A s \in Session : sessions'[s] \in {sessions[s], NoSession}
  PROVE  LoginInv'
<1>1. pc'[r] = "idle" /\ seen'[r] = NothingSeen
  BY CloseType DEF IInv
<1>2. ~seen'[r].recorded /\ UserKept(r)
  BY <1>1 DEF NothingSeen, UserKept, Found
<1>3. QED
  BY <1>2, PlainStep

LEMMA RefusingStep ==
  ASSUME IInv, LoginInv, [Next]_vars, NEW r \in Req, Refuse(r)
  PROVE  LoginInv'
<1>1. Others(r) /\ Close(r) /\ UNCHANGED <<nextCeremony, pending, sessions>>
  BY OwnStep DEF Refuse, tables, counters
<1>2. QED
  BY <1>1, ClosingStep

(* The request goes on with what it has seen. *)
LEMMA SteadyStep ==
  ASSUME IInv, LoginInv, [Next]_vars, NEW r \in Req, Others(r),
         pc[r] \notin {"create_session", "del_auth"}, UNCHANGED <<call, seen>>,
         UNCHANGED nextCeremony,
         \A k \in Ceremony : pending'[k] \in {pending[k], NoPending},
         UNCHANGED sessions,
         Found(r)' => Found(r) \/ call[r].op # "signin_finish"
  PROVE  LoginInv'
<1>1. ~seen'[r].recorded /\ UserKept(r)
  BY Unrecorded DEF UserKept
<1>2. QED
  BY <1>1, PlainStep

(* The request has found the user of its ceremony, or is no sign-in. *)
LEMMA FindingStep ==
  ASSUME IInv, LoginInv, [Next]_vars, NEW r \in Req, Others(r),
         pc[r] \notin {"create_session", "del_auth"}, NEW i, seen' = [seen EXCEPT ![r].user = i],
         UNCHANGED <<call, nextCeremony, pending, sessions>>,
         call[r].op = "signin_finish" =>
           /\ call[r].ceremony \in Ceremony
           /\ pending[call[r].ceremony].kind = "auth" /\ i = pending[call[r].ceremony].user
  PROVE  LoginInv'
<1>1. seen[r] \in SeenType /\ seen'[r] = [seen[r] EXCEPT !.user = i]
  BY DEF IInv, TypeOK, SeenType
<1>2. ~seen'[r].recorded /\ seen'[r].user = i
  BY <1>1, Unrecorded DEF SeenType
<1>3. UserKept(r)
  BY <1>2 DEF UserKept
<1>4. QED
  BY <1>2, <1>3, PlainStep

-----------------------------------------------------------------------------
(* The steps that begin a ceremony, store a count, earn a session *)

LEMMA BeginsCeremony ==
  ASSUME IInv, LoginInv, [Next]_vars, NEW r \in Req, Others(r),
         NEW entry \in Pending, SavePending(r, entry), entry.kind = "auth" => entry.user \in Id
  PROVE  LoginInv'
<1>1. /\ nextCeremony \in Ceremony /\ nextCeremony \in Nat /\ nextCeremony' = nextCeremony + 1
      /\ pending' = [pending EXCEPT ![nextCeremony] = entry]
      /\ UNCHANGED <<users, creds, sessions>> /\ Close(r)
  BY DEF SavePending, IInv, TypeOK, Ceremony, tables
<1>2. pc'[r] = "idle" /\ seen'[r] = NothingSeen
  BY <1>1, CloseType DEF IInv
<1>3. ~OnItsWay(r)' /\ ~Found(r)' /\ ~seen'[r].recorded
  BY <1>2 DEF OnItsWay, Found, NothingSeen
<1>4. \A q \in Req \ {r} : /\ OnItsWay(q)' = OnItsWay(q) /\ Found(q)' = Found(q)
                           /\ seen'[q] = seen[q] /\ call'[q] = call[q] /\ pc'[q] = pc[q]
  BY DEF Others, OnItsWay, Found
<1>5. \A s \in Session : Earned(s)' = Earned(s) /\ sessions'[s] = sessions[s]
  BY <1>1 DEF Earned
<1>6. PICK owner \in [Ceremony -> 0..MaxId] : OwnedBy(owner)
  BY DEF LoginInv, OwnersOK
<1>7. PICK new \in [Ceremony -> 0..MaxId] :
        /\ \A k \in Ceremony : k < nextCeremony => new[k] = owner[k]
        /\ entry.kind = "auth" => new[nextCeremony] = entry.user
  <2> DEFINE f == IF entry.kind = "auth" THEN [owner EXCEPT ![nextCeremony] = entry.user]
                  ELSE owner
  <2>1. f \in [Ceremony -> 0..MaxId]
    BY <1>1 DEF Id
  <2>2. /\ \A k \in Ceremony : k < nextCeremony => f[k] = owner[k]
        /\ entry.kind = "auth" => f[nextCeremony] = entry.user
    BY <1>1 DEF Ceremony
  <2>3. QED
    BY <2>1, <2>2
<1>8. \A k \in Ceremony : k < nextCeremony => new[k] = owner[k] /\ k < nextCeremony'
  BY <1>1, <1>7 DEF Ceremony
<1>9. entry.kind = "auth" => new[nextCeremony] = entry.user
  BY <1>7
<1>10. nextCeremony < nextCeremony'
  BY <1>1
<1>11. OwnedBy(new)'
  <2>1. ASSUME NEW k \in Ceremony, pending'[k].kind = "auth"
        PROVE  k < nextCeremony' /\ pending'[k].user = new[k]
    <3>1. CASE k = nextCeremony
      BY <1>1, <1>9, <1>10, <2>1, <3>1 DEF IInv, TypeOK
    <3>2. CASE k # nextCeremony
      <4>1. pending'[k] = pending[k]
        BY <1>1, <3>2 DEF IInv, TypeOK
      <4>2. QED
        BY <1>6, <1>8, <2>1, <4>1 DEF OwnedBy
    <3>3. QED
      BY <3>1, <3>2
  <2>2. ASSUME NEW q \in Req, call'[q].op = "signin_finish", Found(q)'
        PROVE  call'[q].ceremony < nextCeremony' /\ seen'[q].user = new[call'[q].ceremony]
    <3>1. q # r
      BY <1>3, <2>2
    <3>2. call[q].op = "signin_finish" /\ Found(q) /\ seen'[q] = seen[q] /\ call'[q] = call[q]
      BY <1>4, <2>2, <3>1
    <3>3. call[q].ceremony \in Ceremony
      BY <3>2, Known, CallTypes DEF Found
    <3>4. QED
      BY <1>6, <1>8, <3>2, <3>3 DEF OwnedBy
  <2>3. ASSUME NEW s \in Session, Earned(s)'
        PROVE  /\ sessions'[s].by.ceremony \in Ceremony
               /\ sessions'[s].by.ceremony < nextCeremony'
               /\ sessions'[s].user \in Id
               /\ sessions'[s].user = new[sessions'[s].by.ceremony]
    BY <1>5, <1>6, <1>8, <2>3 DEF OwnedBy
  <2>4. QED
    BY <2>1, <2>2, <2>3 DEF OwnedBy
<1>12. CountsOK' /\ OnceOK'
  <2>1. CountsOK'
    BY <1>1, <1>3, <1>4, <1>5 DEF LoginInv, CountsOK, Stored, Exists
  <2>2. OnceOK'
    BY <1>3, <1>4, <1>5 DEF LoginInv, OnceOK
  <2>3. QED
    BY <2>1, <2>2
<1>13. QED
  BY <1>7, <1>11, <1>12 DEF LoginInv, OwnersOK

LEMMA StoresCount ==
  ASSUME IInv, LoginInv, NEW r \in Req, Others(r), RecordUse(r), ~Refuse(r)
  PROVE  LoginInv'
<1> DEFINE i == seen[r].user
           c == call[r].count
<1>1. /\ pc[r] = "record_use" /\ creds[i] # -1 /\ ~Suspicious(c, creds[i])
      /\ creds' = [creds EXCEPT ![i] = c] /\ Goto(r, "create_session")
      /\ seen' = [seen EXCEPT ![r].recorded = TRUE]
      /\ UNCHANGED <<users, sessions, pending, nextCeremony, call>>
  BY DEF RecordUse, At, counters
<1>2. /\ i \in Id /\ Exists(i) /\ call[r].op = "signin_finish" /\ Found(r)
      /\ c \in Count /\ creds[i] \in Count /\ call[r].ceremony \in Ceremony
  BY <1>1, Known, CallTypes DEF Found, OpsOfStep, IInv, TypeOK
<1>3. /\ pc'[r] = "create_session" /\ seen'[r].user = i
  BY <1>1, GotoType DEF IInv, TypeOK, Step
<1>4. \A q \in Req \ {r} : /\ OnItsWay(q)' = OnItsWay(q) /\ Found(q)' = Found(q)
                           /\ seen'[q] = seen[q] /\ call'[q] = call[q] /\ pc'[q] = pc[q]
  BY DEF Others, OnItsWay, Found
<1>5. \A s \in Session : Earned(s)' = Earned(s) /\ sessions'[s] = sessions[s]
  BY <1>1 DEF Earned
<1>6. ~OnItsWay(r)
  BY <1>1 DEF OnItsWay
<1>7. PICK owner \in [Ceremony -> 0..MaxId] : OwnedBy(owner)
  BY DEF LoginInv, OwnersOK
<1>8. OwnedBy(owner)'
  <2>1. ASSUME NEW q \in Req, call'[q].op = "signin_finish", Found(q)'
        PROVE  call'[q].ceremony < nextCeremony /\ seen'[q].user = owner[call'[q].ceremony]
    <3>1. CASE q = r
      BY <1>1, <1>2, <1>3, <1>7, <3>1 DEF OwnedBy
    <3>2. CASE q # r
      BY <1>4, <1>7, <2>1, <3>2 DEF OwnedBy
    <3>3. QED
      BY <3>1, <3>2
  <2>2. QED
    BY <1>1, <1>5, <1>7, <2>1 DEF OwnedBy
<1>9. c > creds[i] \/ c = 0
  BY <1>1, <1>2 DEF Suspicious, Count
<1>10. c >= creds[i]
  BY <1>1, <1>2 DEF Suspicious, Count
<1>11. ASSUME NEW j \in Id, NEW m \in Count, Stored(j, m) PROVE Stored(j, m)'
  <2>1. CASE j = i
    BY <1>1, <1>2, <1>10, <1>11, <2>1 DEF Stored, Exists, Count, IInv, TypeOK
  <2>2. CASE j # i
    BY <1>1, <1>2, <1>11, <2>2 DEF Stored, Exists, IInv, TypeOK
  <2>3. QED
    BY <2>1, <2>2
<1>13. ASSUME NEW q \in Req, OnItsWay(q) PROVE seen[q].user \in Id /\ call[q].count \in Count
  BY <1>13, Known, CallTypes DEF OnItsWay, Found
<1>14. ASSUME NEW s \in Session, Earned(s)
       PROVE  sessions[s].user \in Id /\ sessions[s].by.count \in Count
  BY <1>7, <1>14 DEF OwnedBy, IInv, TypeOK
<1>15. users'[i].status # "absent" /\ creds'[i] = c
  BY <1>1, <1>2 DEF Exists, IInv, TypeOK
<1>16. CountsOK'
  <2>1. ASSUME NEW q \in Req, OnItsWay(q)' PROVE Stored(seen[q].user, call[q].count)'
    <3>1. CASE q = r
      BY <1>1, <1>2, <1>3, <1>15, <3>1 DEF Stored, Exists, Count
    <3>2. CASE q # r
      <4>1. OnItsWay(q) /\ Stored(seen[q].user, call[q].count)
        BY <1>4, <2>1, <3>2 DEF LoginInv, CountsOK
      <4>2. QED
        BY <1>4, <1>11, <1>13, <3>2, <4>1 DEF Stored, Exists
    <3>3. QED
      BY <3>1, <3>2
  <2>2. ASSUME NEW s \in Session, Earned(s)'
        PROVE  Stored(sessions[s].user, sessions[s].by.count)'
    <3>1. Earned(s) /\ Stored(sessions[s].user, sessions[s].by.count)
      BY <1>5, <2>2 DEF LoginInv, CountsOK
    <3>2. QED
      BY <1>5, <1>11, <1>14, <3>1 DEF Stored, Exists
  <2>3. \A q \in Req : seen'[q].recorded =>
          pc'[q] \in {"create_session", "del_auth"} /\ call'[q].op = "signin_finish"
    BY <1>1, <1>2, <1>3, <1>4 DEF LoginInv, CountsOK
  <2>4. QED
    BY <2>1, <2>2, <2>3 DEF CountsOK
<1>17. OnceOK'
  <2>1. ASSUME NEW q \in Req \ {r}, OnItsWay(q), seen[q].user = i
        PROVE  c # call[q].count \/ c = 0
    <3>1. creds[i] >= call[q].count
      BY <1>1, <2>1 DEF LoginInv, CountsOK, Stored
    <3>2. QED
      BY <1>2, <1>9, <1>13, <2>1, <3>1 DEF Count
  <2>2. ASSUME NEW s \in Session, Earned(s), sessions[s].user = i
        PROVE  c # sessions[s].by.count \/ c = 0
    <3>1. creds[i] >= sessions[s].by.count
      BY <1>1, <2>2 DEF LoginInv, CountsOK, Stored
    <3>2. QED
      BY <1>2, <1>9, <1>14, <2>2, <3>1 DEF Count
  <2>3. QED
    BY <1>1, <1>3, <1>4, <1>5, <2>1, <2>2 DEF LoginInv, OnceOK
<1>18. QED
  BY <1>8, <1>16, <1>17 DEF LoginInv, OwnersOK

LEMMA EarnsSession ==
  ASSUME IInv, LoginInv, NEW r \in Req, Others(r), CreateSession(r)
  PROVE  LoginInv'
<1> SUFFICES ASSUME NEW n \in Session, n = nextSession PROVE LoginInv'
  BY DEF CreateSession, IInv, TypeOK, Session
<1> DEFINE row == [user |-> seen[r].user,
                  by   |-> [ceremony |-> call[r].ceremony, count |-> call[r].count,
                            recorded |-> seen[r].recorded]]
<1>1. /\ pc[r] = "create_session"
      /\ sessions' = [sessions EXCEPT ![n] = row]
      /\ UNCHANGED <<users, creds, pending, nextCeremony>>
  BY DEF CreateSession, At
<1>2. /\ seen[r].user \in Id /\ Found(r) /\ call[r] \in Calls
      /\ call[r].ceremony \in 0..MaxCeremony /\ call[r].count \in Count
      /\ call[r].op = "signin_finish" => call[r].ceremony \in Ceremony
  BY <1>1, Known, CallTypes DEF Found
<1>3a. sessions'[n] = row /\ \A s \in Session : s # n => sessions'[s] = sessions[s]
  BY <1>1 DEF IInv, TypeOK
<1>3b. /\ sessions'[n].user = seen[r].user /\ sessions'[n].by.ceremony = call[r].ceremony
       /\ sessions'[n].by.count = call[r].count /\ sessions'[n].by.recorded = seen[r].recorded
  BY <1>3a
<1> HIDE DEF row
<1>3. /\ Earned(n)' <=> OnItsWay(r)
      /\ \A s \in Session : s # n => Earned(s)' = Earned(s)
  BY <1>1, <1>3a, <1>3b DEF Earned, OnItsWay
<1>4. \A q \in Req \ {r} : /\ OnItsWay(q)' = OnItsWay(q) /\ Found(q)' = Found(q)
                           /\ seen'[q] = seen[q] /\ call'[q] = call[q] /\ pc'[q] = pc[q]
  BY DEF Others, OnItsWay, Found
<1>5. \/ pc'[r] = "idle" /\ seen'[r] = NothingSeen
      \/ /\ pc'[r] = "del_auth" /\ call'[r] = call[r] /\ call[r].op = "signin_finish"
         /\ seen'[r].user = seen[r].user /\ seen'[r].recorded = seen[r].recorded
  <2>1. CASE Close(r)
    BY <2>1, CloseType DEF IInv
  <2>2. CASE /\ call[r].op = "signin_finish"
             /\ seen' = [seen EXCEPT ![r].session = n]
             /\ Goto(r, "del_auth") /\ UNCHANGED call
    BY <2>2, GotoType DEF IInv, TypeOK, Step
  <2>3. QED
    BY <2>1, <2>2 DEF CreateSession
<1>6. ~OnItsWay(r)'
  BY <1>5 DEF OnItsWay
<1>7. OnItsWay(r) => call[r].op = "signin_finish"
  BY DEF OnItsWay, LoginInv, CountsOK
<1>8. PICK owner \in [Ceremony -> 0..MaxId] : OwnedBy(owner)
  BY DEF LoginInv, OwnersOK
<1>9. OwnedBy(owner)'
  <2>1. ASSUME NEW q \in Req, call'[q].op = "signin_finish", Found(q)'
        PROVE  call'[q].ceremony < nextCeremony /\ seen'[q].user = owner[call'[q].ceremony]
    <3>1. CASE q = r
      BY <1>2, <1>5, <1>8, <2>1, <3>1 DEF OwnedBy, Found
    <3>2. CASE q # r
      BY <1>4, <1>8, <2>1, <3>2 DEF OwnedBy
    <3>3. QED
      BY <3>1, <3>2
  <2>2. ASSUME NEW s \in Session, Earned(s)'
        PROVE  /\ sessions'[s].by.ceremony \in Ceremony
               /\ sessions'[s].by.ceremony < nextCeremony
               /\ sessions'[s].user \in Id
               /\ sessions'[s].user = owner[sessions'[s].by.ceremony]
    <3>1. CASE s = n
      BY <1>2, <1>3, <1>3a, <1>3b, <1>7, <1>8, <2>2, <3>1 DEF OwnedBy
    <3>2. CASE s # n
      BY <1>3, <1>3a, <1>3b, <1>8, <2>2, <3>2 DEF OwnedBy
    <3>3. QED
      BY <3>1, <3>2
  <2>3. QED
    BY <1>1, <1>8, <2>1, <2>2 DEF OwnedBy
<1>10. CountsOK'
  <2>1. \A q \in Req : seen'[q].recorded =>
          pc'[q] \in {"create_session", "del_auth"} /\ call'[q].op = "signin_finish"
    BY <1>4, <1>5 DEF LoginInv, CountsOK, NothingSeen
  <2>2. ASSUME NEW q \in Req, OnItsWay(q)' PROVE Stored(seen[q].user, call[q].count)'
    BY <1>1, <1>4, <1>6, <2>2 DEF LoginInv, CountsOK, Stored, Exists
  <2>3. ASSUME NEW s \in Session, Earned(s)'
        PROVE  Stored(sessions[s].user, sessions[s].by.count)'
    <3>1. CASE s = n
      BY <1>1, <1>3, <1>3a, <1>3b, <2>3, <3>1 DEF LoginInv, CountsOK, Stored, Exists
    <3>2. CASE s # n
      BY <1>1, <1>3, <1>3a, <1>3b, <2>3, <3>2 DEF LoginInv, CountsOK, Stored, Exists
    <3>3. QED
      BY <3>1, <3>2
  <2>4. QED
    BY <2>1, <2>2, <2>3 DEF CountsOK
<1>11. OnceOK'
  <2>1. ASSUME NEW q \in Req, NEW p \in Req, q # p, OnItsWay(q)', OnItsWay(p)',
               seen'[q].user = seen'[p].user
        PROVE  call'[q].count # call'[p].count \/ call'[q].count = 0
    BY <1>4, <1>6, <2>1 DEF LoginInv, OnceOK
  <2>2. ASSUME NEW q \in Req, NEW s \in Session, OnItsWay(q)', Earned(s)',
               seen'[q].user = sessions'[s].user
        PROVE  call'[q].count # sessions'[s].by.count \/ call'[q].count = 0
    <3>1. q # r /\ OnItsWay(q) /\ seen'[q] = seen[q] /\ call'[q] = call[q]
      BY <1>4, <1>6, <2>2
    <3>2. CASE s = n
      BY <1>3, <1>3a, <1>3b, <2>2, <3>1, <3>2 DEF LoginInv, OnceOK
    <3>3. CASE s # n
      BY <1>3, <1>3a, <1>3b, <2>2, <3>1, <3>3 DEF LoginInv, OnceOK
    <3>4. QED
      BY <3>2, <3>3
  <2>3. ASSUME NEW s \in Session, NEW t \in Session, s # t, Earned(s)', Earned(t)',
               sessions'[s].user = sessions'[t].user
        PROVE  sessions'[s].by.count # sessions'[t].by.count \/ sessions'[s].by.count = 0
    <3>1. CASE s = n
      BY <1>3, <1>3a, <1>3b, <2>3, <3>1 DEF LoginInv, OnceOK
    <3>2. CASE t = n
      BY <1>3, <1>3a, <1>3b, <2>3, <3>2 DEF LoginInv, OnceOK
    <3>3. CASE s # n /\ t # n
      BY <1>3, <1>3a, <1>3b, <2>3, <3>3 DEF LoginInv, OnceOK
    <3>4. QED
      BY <3>1, <3>2, <3>3
  <2>4. QED
    BY <2>1, <2>2, <2>3 DEF OnceOK
<1>12. QED
  BY <1>9, <1>10, <1>11 DEF LoginInv, OwnersOK

-----------------------------------------------------------------------------
(* Every step *)

LEMMA WorkLogin == ASSUME IInv, LoginInv, [Next]_vars, NEW r \in Req, Work(r) PROVE LoginInv'
<1>1. Others(r)
  BY OwnStep
<1>2. CASE Refuse(r)
  BY <1>2, RefusingStep
<1>3. CASE NameExists(r) \/ EmailExists(r) \/ GetReg(r) \/ CreateCred(r)
  <2>1. SUFFICES ASSUME ~Refuse(r) PROVE LoginInv'
    BY <1>2
  <2>2. /\ pc[r] \notin {"create_session", "del_auth"}
        /\ pc'[r] \in {"email_exists", "save_reg", "create_user", "commit_signup"}
    BY <1>3, <2>1 DEF NameExists, EmailExists, GetReg, CreateCred, At, Goto, IInv, TypeOK
  <2>3. UNCHANGED <<call, seen, nextCeremony, pending, sessions>>
    BY <1>3, <2>1 DEF NameExists, EmailExists, GetReg, CreateCred, Stays, tables, counters
  <2>4. QED
    BY <1>1, <2>2, <2>3, SteadyStep DEF Found
<1>4. CASE GetCreds(r) \/ GetUser(r) \/ GetUserCreds(r)
  <2>1. SUFFICES ASSUME ~Refuse(r) PROVE LoginInv'
    BY <1>2
  <2>2. pc[r] \notin {"create_session", "del_auth"} /\ Found(r)
    BY <1>4 DEF GetCreds, GetUser, GetUserCreds, At, Found
  <2>3. UNCHANGED <<call, seen, nextCeremony, pending, sessions>>
    BY <1>4, <2>1 DEF GetCreds, GetUser, GetUserCreds, Stays, tables, counters
  <2>4. QED
    BY <1>1, <2>2, <2>3, SteadyStep
<1>5. CASE UpdateRow(r) \/ DelSessions(r) \/ DelCreds(r) \/ SoftDelete(r)
  <2>1. SUFFICES ASSUME ~Refuse(r) PROVE LoginInv'
    BY <1>2
  <2>2. /\ pc[r] \notin {"create_session", "del_auth"}
        /\ pc'[r] \in {"update_index", "del_creds", "soft_delete", "commit_delete"}
    BY <1>5, <2>1 DEF UpdateRow, DelSessions, DelCreds, SoftDelete, At, Goto, IInv, TypeOK
  <2>3. UNCHANGED <<call, seen, nextCeremony, pending, sessions>>
    BY <1>5, <2>1 DEF UpdateRow, DelSessions, DelCreds, SoftDelete, Stays, tables, counters
  <2>4. QED
    BY <1>1, <2>2, <2>3, SteadyStep DEF Found
<1>6. CASE CreateUser(r)
  <2>1. UNCHANGED <<nextCeremony, pending, sessions>> /\ pc[r] = "create_user"
    BY <1>6 DEF CreateUser, At, tables
  <2>2. CASE Close(r)
    BY <1>1, <2>1, <2>2, ClosingStep
  <2>3. CASE Goto(r, "create_cred") /\ UNCHANGED <<call, seen>>
    <3>1. pc'[r] = "create_cred"
      BY <2>3, GotoType DEF IInv, Step
    <3>2. QED
      BY <1>1, <2>1, <2>3, <3>1, SteadyStep DEF Found
  <2>4. QED
    BY <1>6, <2>2, <2>3 DEF CreateUser
<1>7. CASE CommitSignup(r)
  <2>1. /\ UNCHANGED <<nextCeremony, pending, sessions>> /\ pc[r] = "commit_signup"
        /\ call[r].op = "signup_finish"
    BY <1>7, Known DEF CommitSignup, At, counters, OpsOfStep
  <2>2. CASE Close(r)
    BY <1>1, <2>1, <2>2, ClosingStep
  <2>3. CASE seen' = [seen EXCEPT ![r].user = mine[r].id] /\ UNCHANGED call
    <3> DEFINE i == mine[r].id
    <3>1. \E j : seen' = [seen EXCEPT ![r].user = j]
      BY <2>3
    <3>2. PICK j : seen' = [seen EXCEPT ![r].user = j]
      BY <3>1
    <3>3. QED
      BY <1>1, <2>1, <2>3, <3>2, FindingStep
  <2>4. QED
    BY <1>7, <2>2, <2>3 DEF CommitSignup
<1>8. CASE DelReg(r)
  <2>1. /\ UNCHANGED <<nextCeremony, sessions, call, seen>> /\ pc[r] = "del_reg" /\ DropPending(r)
    BY <1>8 DEF DelReg, At, tables, counters
  <2>2. \A k \in Ceremony : pending'[k] \in {pending[k], NoPending}
    BY <2>1 DEF DropPending, IInv, TypeOK
  <2>3. QED
    BY <1>1, <2>1, <2>2, SteadyStep DEF Found
<1>9. CASE FindUser(r) \/ GetSession(r)
  <2>1. SUFFICES ASSUME ~Refuse(r) PROVE LoginInv'
    BY <1>2
  <2>2. pc[r] \in {"find_user", "get_session"} /\ call[r].op # "signin_finish"
    BY <1>9, Known DEF FindUser, GetSession, At, OpsOfStep
  <2>3. PICK j : seen' = [seen EXCEPT ![r].user = j]
    BY <1>9, <2>1 DEF FindUser, GetSession
  <2>4. UNCHANGED <<call, nextCeremony, pending, sessions>>
    BY <1>9, <2>1 DEF FindUser, GetSession, Stays, tables, counters
  <2>5. QED
    BY <1>1, <2>2, <2>3, <2>4, FindingStep
<1>10. CASE GetAuth(r)
  <2>1. SUFFICES ASSUME ~Refuse(r) PROVE LoginInv'
    BY <1>2
  <2>2. /\ pc[r] = "get_auth" /\ call[r].ceremony \in Ceremony
        /\ pending[call[r].ceremony].kind = "auth"
    BY <1>10, <2>1, Known, CallTypes DEF GetAuth, At, OpsOfStep
  <2>3. PICK j : seen' = [seen EXCEPT ![r].user = j] /\ j = pending[call[r].ceremony].user
    BY <1>10, <2>1 DEF GetAuth
  <2>4. UNCHANGED <<call, nextCeremony, pending, sessions>>
    BY <1>10, <2>1 DEF GetAuth, Stays, tables, counters
  <2>5. QED
    BY <1>1, <2>2, <2>3, <2>4, FindingStep
<1>11. CASE SaveReg(r) \/ SaveAuth(r)
  <2>1. PICK entry : /\ SavePending(r, entry) /\ entry \in Pending
                     /\ entry.kind = "auth" => entry.user \in Id
    <3>1. CASE SaveReg(r)
      <4> DEFINE entry == [kind |-> "reg", name |-> call[r].name, email |-> call[r].email,
                           user |-> 0]
      <4>1. call[r].name \in Name /\ call[r].email \in Email
        BY <3>1, Known, CallTypes DEF SaveReg, At, OpsOfStep
      <4>2. entry \in Pending /\ entry.kind # "auth" /\ SavePending(r, entry)
        BY <3>1, <4>1 DEF Pending, SaveReg
      <4>3. QED
        BY <4>2
    <3>2. CASE SaveAuth(r)
      <4> DEFINE entry == [kind |-> "auth", name |-> None, email |-> None, user |-> seen[r].user]
      <4>1. seen[r].user \in Id
        BY <3>2, Known DEF SaveAuth, At, Found
      <4>2. entry \in Pending /\ entry.user \in Id /\ SavePending(r, entry)
        BY <3>2, <4>1 DEF Pending, SaveAuth, Id
      <4>3. QED
        BY <4>2
    <3>3. QED
      BY <1>11, <3>1, <3>2
  <2>2. QED
    BY <1>1, <2>1, BeginsCeremony
<1>12. CASE RecordUse(r)
  BY <1>1, <1>2, <1>12, StoresCount
<1>13. CASE RecordUseError(r)
  <2>1. /\ pc[r] = "record_use" /\ UNCHANGED <<sessions, pending, nextCeremony, call, seen>>
    BY <1>13 DEF RecordUseError, At, counters
  <2>2. QED
    BY <1>1, <2>1, SteadyStep DEF Found
<1>14. CASE CreateSession(r)
  BY <1>1, <1>14, EarnsSession
<1>15. CASE DelAuth(r) \/ RenewAccess(r) \/ UpdateIndex(r) \/ CommitDelete(r)
  <2>1. UNCHANGED nextCeremony /\ Close(r)
    BY <1>15 DEF DelAuth, RenewAccess, UpdateIndex, CommitDelete, counters
  <2>2. \A k \in Ceremony : pending'[k] \in {pending[k], NoPending}
    BY <1>15 DEF DelAuth, RenewAccess, UpdateIndex, CommitDelete, DropPending, IInv, TypeOK
  <2>3. \A s \in Session : sessions'[s] \in {sessions[s], NoSession}
    BY <1>15 DEF DelAuth, RenewAccess, UpdateIndex, CommitDelete, tables
  <2>4. QED
    BY <1>1, <2>1, <2>2, <2>3, ClosingStep
<1>16. QED
  BY <1>3, <1>4, <1>5, <1>6, <1>7, <1>8, <1>9, <1>10, <1>11, <1>12, <1>13, <1>14, <1>15 DEF Work

LEMMA BeginLogin == ASSUME IInv, LoginInv, [Next]_vars, NEW r \in Req, Begin(r) PROVE LoginInv'
<1>1. /\ UNCHANGED <<nextCeremony, pending, sessions, seen>> /\ Others(r) /\ pc[r] = "idle"
  BY OwnStep DEF Begin, At, tables, counters
<1>2. ~Found(r)'
  <2>1. PICK c \in Calls : Goto(r, FirstStep[c.op])
    BY DEF Begin
  <2>2. FirstStep[c.op] \in Step \ {"get_creds", "save_auth", "get_user", "get_user_creds",
          "record_use", "create_session", "del_reg", "del_auth", "renew_access"}
    BY CallTypes DEF FirstStep, Step
  <2>3. pc'[r] = FirstStep[c.op]
    BY <2>1, <2>2, GotoType DEF IInv
  <2>4. QED
    BY <2>2, <2>3 DEF Found
<1>3. ~seen'[r].recorded /\ UserKept(r)
  BY <1>1, <1>2, Unrecorded DEF UserKept
<1>4. QED
  BY <1>1, <1>3, PlainStep

(* Time changes nothing but what is pending and the tokens. *)
LEMMA ClockLogin ==
  ASSUME IInv, LoginInv,
         UNCHANGED <<users, creds, sessions, nextCeremony, pc, call, seen>>,
         \A k \in Ceremony : pending'[k] \in {pending[k], NoPending}
  PROVE  LoginInv'
<1>1. PICK owner \in [Ceremony -> 0..MaxId] : OwnedBy(owner)
  BY DEF LoginInv, OwnersOK
<1>2. \A k \in Ceremony : pending'[k].kind = "auth" => pending'[k] = pending[k]
  BY DEF NoPending
<1>3. OwnedBy(owner)'
  BY <1>1, <1>2 DEF OwnedBy, Found, Earned
<1>4. CountsOK' /\ OnceOK'
  BY DEF LoginInv, CountsOK, OnceOK, OnItsWay, Earned, Stored, Exists
<1>5. QED
  BY <1>3, <1>4 DEF LoginInv, OwnersOK

LEMMA InitLogin == Init => LoginInv
<1> SUFFICES ASSUME Init PROVE LoginInv
  OBVIOUS
<1>1. /\ \A r \in Req : call[r].op = "none" /\ ~seen[r].recorded /\ ~OnItsWay(r)
      /\ \A s \in Session : ~Earned(s)
      /\ \A k \in Ceremony : pending[k].kind = "none"
  BY DEF Init, NoCall, NothingSeen, OnItsWay, Earned, NoSession, NoPending
<1>2. CountsOK /\ OnceOK
  BY <1>1 DEF CountsOK, OnceOK
<1>3. OwnersOK
  <2>1. [k \in Ceremony |-> 0] \in [Ceremony -> 0..MaxId]
    OBVIOUS
  <2>2. OwnedBy([k \in Ceremony |-> 0])
    BY <1>1 DEF OwnedBy
  <2>3. QED
    BY <2>1, <2>2 DEF OwnersOK
<1>4. QED
  BY <1>2, <1>3 DEF LoginInv

LEMMA NextLogin == IInv /\ LoginInv /\ [Next]_vars => LoginInv'
<1> SUFFICES ASSUME IInv, LoginInv, [Next]_vars PROVE LoginInv'
  OBVIOUS
<1>1. ASSUME NEW r \in Req, Begin(r) PROVE LoginInv'
  BY <1>1, BeginLogin
<1>2. ASSUME NEW r \in Req, Work(r) PROVE LoginInv'
  BY <1>2, WorkLogin
<1>3. ASSUME NEW r \in Req, ConnectionLost(r) \/ DeadlockAbort(r) PROVE LoginInv'
  BY <1>3, RefusingStep DEF ConnectionLost, DeadlockAbort
<1>4. ASSUME NEW k \in Ceremony, Expire(k) PROVE LoginInv'
  <2>1. \A j \in Ceremony : pending'[j] \in {pending[j], NoPending}
    BY <1>4 DEF Expire, IInv, TypeOK
  <2>2. QED
    BY <1>4, <2>1, ClockLogin DEF Expire, tables, counters
<1>5. ASSUME NEW i \in Id, ExpireAccess(i) PROVE LoginInv'
  BY <1>5, ClockLogin DEF ExpireAccess, tables, counters
<1>6. ASSUME NEW s \in Session, ExpireRefresh(s) PROVE LoginInv'
  BY <1>6, ClockLogin DEF ExpireRefresh, tables, counters
<1>7. CASE UNCHANGED vars
  BY <1>7, ClockLogin DEF vars, tables
<1>8. QED
  BY <1>1, <1>2, <1>3, <1>4, <1>5, <1>6, <1>7 DEF Next

LEMMA LoginsSafe == Spec => []LoginInv
<1>1. Init => LoginInv
  BY InitLogin
<1>2. IInv /\ LoginInv /\ [Next]_vars => LoginInv'
  BY NextLogin
<1>3. QED
  BY <1>1, <1>2, AccountsSafe, PTL DEF Spec

(* What the interleaved statements of all handlers keep true, altogether.   *)
THEOREM AccountsInductive == Spec => []Inductive
  BY AccountsSafe, LoginsSafe, PTL DEF Inductive

(* No two sessions are earned by one assertion whose count was stored: the  *)
(* pending authentication can be read twice, but its second count is not   *)
(* above the stored one, unless the authenticator does not count.          *)
THEOREM AssertionsSafe == Spec => []OneLoginPerAssertion
<1>1. IInv /\ LoginInv => OneLoginPerAssertion
  <2> SUFFICES ASSUME IInv, LoginInv, NEW s \in Session, NEW t \in Session, s # t,
                      sessions[s].by.recorded, sessions[s].by.count > 0,
                      sessions[s].by = sessions[t].by
               PROVE  FALSE
    BY DEF OneLoginPerAssertion
  <2>1. PICK owner \in [Ceremony -> 0..MaxId] : OwnedBy(owner)
    BY DEF LoginInv, OwnersOK
  <2>2. Earned(s) /\ Earned(t) /\ sessions[s].user = sessions[t].user
    BY <2>1 DEF Earned, OwnedBy
  <2>3. sessions[s].by.count # sessions[t].by.count \/ sessions[s].by.count = 0
    BY <2>2 DEF LoginInv, OnceOK
  <2>4. sessions[s].by.count \in Count
    BY DEF IInv, TypeOK
  <2>5. QED
    BY <2>3, <2>4 DEF Count
<1>2. QED
  BY <1>1, AccountsSafe, LoginsSafe, PTL
=============================================================================
