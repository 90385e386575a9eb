----------------------------- MODULE AccountsInv -----------------------------
(***************************************************************************)
(* The inductive invariant of Accounts: what each request knows and has    *)
(* written at each of its steps, what two requests cannot have written at  *)
(* once, and what that keeps true of users, credentials, tokens, sign-ins. *)
(***************************************************************************)
EXTENDS Accounts

OpsOfStep(step) ==
  CASE step \in {"name_exists", "email_exists", "save_reg"} -> {"signup_start"}
    [] step \in {"get_reg", "create_user", "create_cred", "commit_signup", "del_reg"} ->
         {"signup_finish"}
    [] step \in {"find_user", "get_creds", "save_auth"} -> {"signin_start"}
    [] step \in {"get_auth", "get_user", "get_user_creds", "record_use", "del_auth"} ->
         {"signin_finish"}
    [] step = "create_session" -> {"signup_finish", "signin_finish"}
    [] step \in {"get_session", "renew_access"} -> {"renew"}
    [] step \in {"update_row", "update_index"} -> {"update"}
    [] step \in {"del_sessions", "del_creds", "soft_delete", "commit_delete"} -> {"delete"}
    [] OTHER -> {"none"}

(* What an open transaction has written: a new row that has all its index   *)
(* entries, a changed row that has none of its new ones yet, a deleted row. *)
Inserted(r) == pc[r] \in {"create_cred", "commit_signup"}
Renaming(r) == pc[r] = "update_index"
Ending(r)   == pc[r] = "commit_delete"
Writing(r)  == Inserted(r) \/ Renaming(r) \/ Ending(r)

(* Steps at which the handler has found the user it serves. *)
Found(r) == pc[r] \in {"get_creds", "save_auth", "get_user", "get_user_creds", "record_use",
                       "create_session", "del_reg", "del_auth", "renew_access"}

-----------------------------------------------------------------------------
(* One request *)

CallOK(r) ==
  /\ call[r].op \in OpsOfStep(pc[r])
  /\ pc[r] = "idle" => call[r] = NoCall
  /\ pc[r] # "idle" => call[r] \in Calls
  /\ call[r].op \in {"update", "delete"} => Exists(call[r].user)

SeenOK(r) ==
  /\ Found(r) => seen[r].user \in Id /\ Exists(seen[r].user)
  /\ pc[r] = "del_auth" => seen[r].session \in Session

MineOK(r) ==
  LET i   == mine[r].id
      row == mine[r].row
  IN /\ ~Writing(r) => i = 0
     /\ pc[r] = "create_user" \/ Inserted(r) => row.status = "active"
     /\ Inserted(r) => /\ i \in Id /\ i < nextUser /\ users[i] = NoUser
                       /\ \A j \in Id : ~SameKey(row, users[j])
     /\ Renaming(r) => i = call[r].user /\ Active(i) /\ row = Updated(users[i], call[r])
     /\ Ending(r) => /\ i = call[r].user
                     /\ row = IF Active(i) THEN Deleted(users[i]) ELSE users[i]

RequestInv(r) == CallOK(r) /\ SeenOK(r) /\ MineOK(r)

-----------------------------------------------------------------------------
(* Two requests *)

PairInv(r, s) ==
  /\ Writing(r) /\ Writing(s) => mine[r].id # mine[s].id
  /\ Inserted(r) /\ Inserted(s) => ~SameKey(mine[r].row, mine[s].row)

-----------------------------------------------------------------------------
(* The tables, Redis and the tokens *)

RowsOK == \A i \in Id : Exists(i) => i < nextUser

KeysOK == \A i, j \in Id : i # j => ~SameKey(users[i], users[j])

PendingOK ==
  \A k \in Ceremony :
    /\ pending[k].kind = "reg" => pending[k].name \in Name /\ pending[k].email \in Email
    /\ pending[k].kind = "auth" => pending[k].user \in Id /\ Exists(pending[k].user)

TokensOK ==
  /\ \A i \in access : Exists(i)
  /\ \A s \in Session : refresh[s] # NoToken => refresh[s].user \in Id /\ Exists(refresh[s].user)

StoreInv == RowsOK /\ KeysOK /\ CredentialIffActive /\ PendingOK /\ TokensOK

IInv ==
  /\ TypeOK
  /\ StoreInv
  /\ \A r \in Req : RequestInv(r)
  /\ \A r, s \in Req : r # s => PairInv(r, s)

-----------------------------------------------------------------------------
(* Sign-ins *)

(* Sign-ins whose count RecordCredentialUse has stored: on the way to their *)
(* session, or with it.                                                    *)
OnItsWay(r) == pc[r] = "create_session" /\ seen[r].recorded
Earned(s)   == sessions[s].by.recorded

(* A pending authentication, and whatever comes of it, is of one user. *)
OwnedBy(owner) ==
  /\ \A k \in Ceremony : pending[k].kind = "auth" => k < nextCeremony /\ pending[k].user = owner[k]
  /\ \A r \in Req : call[r].op = "signin_finish" /\ Found(r) =>
       call[r].ceremony < nextCeremony /\ seen[r].user = owner[call[r].ceremony]
  /\ \A s \in Session : Earned(s) =>
       /\ sessions[s].by.ceremony \in Ceremony /\ sessions[s].by.ceremony < nextCeremony
       /\ sessions[s].user \in Id /\ sessions[s].user = owner[sessions[s].by.ceremony]
OwnersOK == \E owner \in [Ceremony -> 0..MaxId] : OwnedBy(owner)

(* While the credential is there, its count is at least any that was stored. *)
Stored(i, c) == Exists(i) /\ (creds[i] # -1 => creds[i] >= c)
CountsOK ==
  /\ \A r \in Req : seen[r].recorded =>
       pc[r] \in {"create_session", "del_auth"} /\ call[r].op = "signin_finish"
  /\ \A r \in Req : OnItsWay(r) => Stored(seen[r].user, call[r].count)
  /\ \A s \in Session : Earned(s) => Stored(sessions[s].user, sessions[s].by.count)

(* No two of them, of one user, stored the same count. *)
OnceOK ==
  /\ \A r, q \in Req : r # q /\ OnItsWay(r) /\ OnItsWay(q) /\ seen[r].user = seen[q].user
       => call[r].count # call[q].count \/ call[r].count = 0
  /\ \A r \in Req, s \in Session : OnItsWay(r) /\ Earned(s) /\ seen[r].user = sessions[s].user
       => call[r].count # sessions[s].by.count \/ call[r].count = 0
  /\ \A s, t \in Session : s # t /\ Earned(s) /\ Earned(t) /\ sessions[s].user = sessions[t].user
       => sessions[s].by.count # sessions[t].by.count \/ sessions[s].by.count = 0

LoginInv == OwnersOK /\ CountsOK /\ OnceOK

(* Types, what each request knows and has written, what two cannot have     *)
(* written at once, and what that keeps true of accounts, tokens, sign-ins. *)
Inductive == IInv /\ LoginInv
=============================================================================
