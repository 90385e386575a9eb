--------------------------- MODULE CommentStoreInv ---------------------------
(***************************************************************************)
(* The inductive invariant of CommentStore: what each transaction knows    *)
(* about the rows it has read and locked at each of its statements, what   *)
(* two transactions may not do at once, and what that keeps true of the    *)
(* tables.                                                                 *)
(***************************************************************************)
EXTENDS CommentStore

OpsOfStep(step) ==
  CASE step = "count_roots" -> {"root"}
    [] step = "lock_parent" -> {"reply"}
    [] step = "insert"      -> {"root", "reply"}
    [] step \in {"lock_target", "probe", "delete", "bury"} -> {"delete"}
    [] step = "edit"        -> {"edit"}
    [] step \in {"advisory", "prior", "upsert", "tally"} -> {"vote"}
    [] step = "commit"      -> {"root", "reply", "delete", "vote"}
    [] OTHER                -> {"none"}

(* Where a transaction is in its call. *)
InReply(t)   == call[t].op = "reply" /\ pc[t] \in {"insert", "commit"}
InDelete(t)  == call[t].op = "delete" /\ pc[t] \in {"probe", "delete", "bury", "commit"}
Probed(t)    == call[t].op = "delete" /\ pc[t] \in {"delete", "bury", "commit"}
Inserted(t)  == call[t].op \in {"root", "reply"} /\ pc[t] = "commit"
Erasing(t)   == call[t].op = "delete" /\ pc[t] = "commit" /\ write[t].id # 0
                /\ write[t].row.status = "absent"
Voting(t)    == call[t].op = "vote" /\ pc[t] \in {"prior", "upsert", "tally", "commit"}
Balloted(t)  == call[t].op = "vote" /\ pc[t] \in {"tally", "commit"}

-----------------------------------------------------------------------------
(* One transaction *)

CallOK(t) ==
  /\ call[t].op \in OpsOfStep(pc[t])
  /\ pc[t] = "idle" => call[t] = NoCall
  /\ pc[t] # "idle" => call[t] \in Calls
  /\ Voting(t) => call[t].vote \in {1, -1}

LockOK(t) ==
  /\ InReply(t)  => lock[t] = "key_share"
  /\ InDelete(t) => lock[t] = "update"
  /\ pc[t] = "tally" =>
       lock[t] = IF votes[call[t].user][call[t].target] = 0 THEN "key_share" ELSE "none"
  /\ call[t].op = "vote" /\ pc[t] = "commit" => lock[t] = "no_key_update"
  /\ ~(InReply(t) \/ InDelete(t) \/ Balloted(t)) => lock[t] = "none"

(* A locked parent or target is still what it was when it was locked. *)
SeenOK(t) ==
  LET i == call[t].target
      u == call[t].user IN
  /\ InReply(t) => /\ Exists(i) /\ comments[i].status = "live"
                   /\ comments[i].post = call[t].post
                   /\ comments[i].user # u
                   /\ seen[t].row.depth = comments[i].depth
                   /\ comments[i].depth + 1 < CommentMaxNestingDepth
  /\ InDelete(t) => Exists(i) /\ seen[t].row = comments[i]
  /\ Probed(t) => seen[t].kids \/ ~HasReplies(i)
  /\ pc[t] = "upsert" =>
       seen[t].prior = votes[u][i] \/ (seen[t].prior # 0 /\ ~Exists(i) /\ i < nextId)
  /\ Balloted(t) => /\ seen[t].prior = votes[u][i]
                    /\ seen[t].prior # call[t].vote
                    /\ Exists(i)

Owns(t) ==
  LET r == comments[call[t].target] IN
  r.status = "live" /\ r.user = call[t].user /\ r.post = call[t].post

WriteOK(t) ==
  LET i == call[t].target
      w == write[t] IN
  /\ pc[t] # "commit" => w = NoWrite
  /\ ballot[t] = IF Balloted(t) THEN call[t].vote ELSE 0
  /\ pc[t] = "bury" => Owns(t)
  /\ Inserted(t) => /\ w.id \in Id /\ w.id < nextId /\ ~Exists(w.id)
                    /\ w.row = NewRow(t)
                    /\ call[t].post \in Post
                    /\ call[t].op = "reply" => \A j \in Id : ~Rival(t, comments[j])
  /\ call[t].op = "delete" /\ pc[t] = "commit" =>
       \/ w = NoWrite
       \/ w.id = i /\ w.row = Absent /\ Owns(t) /\ ~HasReplies(i)
       \/ w.id = i /\ w.row = Buried(comments[i]) /\ Owns(t)
  /\ call[t].op = "vote" /\ pc[t] = "commit" =>
       /\ w = [id |-> i, row |-> Tallied(comments[i], seen[t].prior, call[t].vote)]
       /\ comments[i].status = "live"

TxInv(t) == CallOK(t) /\ LockOK(t) /\ SeenOK(t) /\ WriteOK(t)

-----------------------------------------------------------------------------
(* Two transactions *)

PairInv(s, t) ==
  /\ call[s].target = call[t].target => ~Conflicts(lock[s], lock[t])
  /\ Inserted(s) /\ Inserted(t) => write[s].id # write[t].id
  /\ Inserted(s) /\ Inserted(t) /\ call[s].op = "reply" => ~Rival(s, write[t].row)
  /\ Voting(s) /\ Voting(t) => ~SameBallot(s, t)
  /\ Erasing(t) /\ call[s].target = call[t].target => ballot[s] = 0
  /\ /\ Inserted(t) /\ pc[s] = "upsert"
     /\ seen[s].prior # votes[call[s].user][call[s].target]
     => write[t].id # call[s].target

-----------------------------------------------------------------------------
(* The tables *)

RowsOK ==
  \A i \in Id :
    /\ ~Exists(i) => comments[i] = Absent
    /\ Exists(i) => i < nextId /\ comments[i].user \in User

StoreInv == RowsOK /\ TreeOK /\ CountersMatch /\ NoStrayVotes /\ OneLiveReply

IInv ==
  /\ TypeOK
  /\ StoreInv
  /\ \A t \in Tx : TxInv(t)
  /\ \A s, t \in Tx : s # t => PairInv(s, t)
=============================================================================
