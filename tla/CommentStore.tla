---------------------------- MODULE CommentStore ----------------------------
(***************************************************************************)
(* The comment half of db.Store (src/db/sqlc) over PostgreSQL at READ      *)
(* COMMITTED, the level pgx begins a transaction at.                       *)
(*                                                                         *)
(* A transaction t runs one call at a time.  One action is one SQL         *)
(* statement together with the Go code up to the next statement; other     *)
(* transactions interleave between statements.  `comments' and `votes'     *)
(* hold committed rows only: what t has written and not committed is in    *)
(* write[t] (the one comment row a call writes) and ballot[t] (the vote    *)
(* row an upsert writes), and reaches the tables in Commit.  Every call    *)
(* locks at most one existing comment row, the one in call[t].target, so   *)
(* lock[t] is just the strongest mode t holds on that row.                 *)
(***************************************************************************)
EXTENDS Integers, FiniteSets

CONSTANTS
  Tx,           \* database transactions that may be open at the same time
  User,         \* accounts; rows of users are never removed, only marked
  Post,         \* posts that exist
  PostArg,      \* post ids a caller may name, existing or not
  MaxId,        \* bound: comment ids handed out are 1..MaxId
  Body,         \* texts a client may submit
  None,         \* "no value"
  Ops,          \* the calls in use, a subset of OpName
  VoteArg,      \* vote values a caller may pass
  CommentMaxNestingDepth,
  CommentMaxRootCountPerUser

OpName == {"root", "reply", "delete", "edit", "vote"}

ASSUME StoreAssumption ==
  /\ IsFiniteSet(User) /\ IsFiniteSet(Tx)
  /\ Post \subseteq PostArg
  /\ MaxId \in Nat \ {0}
  /\ Ops \subseteq OpName
  /\ VoteArg \subseteq Int
  /\ CommentMaxNestingDepth \in Nat \ {0}
  /\ CommentMaxRootCountPerUser \in Nat
  /\ None \notin User /\ None \notin PostArg /\ None \notin Body

VARIABLES
  comments,  \* committed rows of table comments
  votes,     \* committed rows of table comment_votes, 0 for no row
  nextId,    \* the sequence behind comments.id
  pc,        \* pc[t]: the statement t executes next
  call,      \* call[t]: the arguments of the call t runs
  lock,      \* lock[t]: mode t holds on comment row call[t].target
  seen,      \* seen[t]: what t's earlier statements returned to it
  write,     \* write[t]: the comment row t has written, id 0 for none
  ballot,    \* ballot[t]: the vote t has written, 0 for none
  result     \* result[t]: outcome of t's last call

store  == <<comments, votes>>
txVars == <<pc, call, lock, seen, write, ballot, result>>
vars   == <<comments, votes, nextId, pc, call, lock, seen, write, ballot, result>>

-----------------------------------------------------------------------------
(* Rows and calls *)

Id == 1..MaxId

Status == {"absent", "live", "deleted"}

Row == [status : Status, user : User \cup {None}, post : PostArg \cup {None},
        parent : 0..MaxId, depth : Nat, up : Int, down : Int,
        body : Body \cup {None, "[deleted]"}]

Absent == [status |-> "absent", user |-> None, post |-> None, parent |-> 0,
           depth |-> 0, up |-> 0, down |-> 0, body |-> None]

Exists(i) == comments[i].status # "absent"

Calls ==
  [op : {"root"}, user : User, post : PostArg, target : {0}, body : Body, vote : {0}]
  \cup [op : {"reply"}, user : User, post : PostArg, target : Id, body : Body, vote : {0}]
  \cup [op : {"delete"}, user : User, post : PostArg, target : Id, body : {None}, vote : {0}]
  \cup [op : {"edit"}, user : User, post : PostArg, target : Id, body : Body, vote : {0}]
  \cup [op : {"vote"}, user : User, post : {None}, target : Id, body : {None}, vote : VoteArg]

NoCall == [op |-> "none", user |-> None, post |-> None, target |-> 0,
           body |-> None, vote |-> 0]

Kinds == {"none", "ok", "internal", "not_found", "invalid", "permission",
          "relation", "conflict", "deleted", "corrupted", "constraint"}

Steps == {"idle", "count_roots", "lock_parent", "insert", "lock_target", "probe",
          "delete", "bury", "edit", "advisory", "prior", "upsert", "tally", "commit"}

(* The statement each call starts with. *)
FirstStep == [root |-> "count_roots", reply |-> "lock_parent",
              delete |-> "lock_target", edit |-> "edit", vote |-> "advisory"]

NothingSeen == [row |-> Absent, kids |-> FALSE, prior |-> 0]
NoWrite     == [id |-> 0, row |-> Absent]

-----------------------------------------------------------------------------
(* PostgreSQL: row locks, waiting, commit *)

LockModes == {"none", "key_share", "no_key_update", "update"}

(* The documented conflicts between the row-lock modes the code takes. *)
Conflicts(a, b) ==
  \/ a = "update" /\ b # "none"
  \/ b = "update" /\ a # "none"
  \/ a = "no_key_update" /\ b = "no_key_update"

(* The mode held after also taking m. *)
Raise(held, m) ==
  IF m = "update" \/ held = "none" \/ (m = "no_key_update" /\ held = "key_share")
  THEN m ELSE held

(* Modes the statements take. ReplyParentLock, LeafDeleteLock and EditLock  *)
(* are locking clauses in the SQL; the others are what PostgreSQL takes    *)
(* for the foreign-key check of an INSERT, for an UPDATE of non-key columns *)
(* and for a DELETE.  NoLock and SharedLock are what the code does not     *)
(* do: leave the clause out, as migration 5 does, or share the row.        *)
NoLock          == "none"
SharedLock      == "key_share"
ReplyParentLock == "key_share"
LeafDeleteLock  == "update"
EditLock        == "update"
FKLock          == "key_share"
UpdateRowLock   == "no_key_update"
DeleteRowLock   == "update"

(* Transactions whose lock on row i keeps t from taking mode m on it. *)
Blockers(t, i, m) ==
  {s \in Tx \ {t} : call[s].target = i /\ Conflicts(m, lock[s])}

(* uniq_reply_per_user_parent: row r would collide with the reply of t. *)
NoUniqueIndex(t, r) == FALSE
Rival(t, r) ==
  /\ call[t].op = "reply"
  /\ r.status = "live"
  /\ r.user = call[t].user /\ r.parent = call[t].target

(* An INSERT waits for a transaction with an uncommitted write that decides *)
(* whether there is a collision.                                           *)
UniqueWaits(t) ==
  {s \in Tx \ {t} : /\ write[s].id \in Id
                    /\ Rival(t, write[s].row) \/ Rival(t, comments[write[s].id])}

(* pg_advisory_xact_lock on (user, comment), held to the end of the call. *)
HoldsAdvisory(s) == call[s].op = "vote" /\ pc[s] \in {"prior", "upsert", "tally", "commit"}
SameBallot(s, t) ==
  call[s].user = call[t].user /\ call[s].target = call[t].target
NoAdvisoryLock(t) == {}
AdvisoryWaits(t) == {s \in Tx \ {t} : HoldsAdvisory(s) /\ SameBallot(s, t)}

(* Votes of others on row i that t's cascading delete must remove and that *)
(* an uncommitted upsert has locked; and the reverse.                      *)
VoteRowWaits(t) ==
  {s \in Tx \ {t} : /\ call[s].target = call[t].target /\ ballot[s] # 0
                    /\ votes[call[s].user][call[s].target] # 0}
CascadeWaits(t) ==
  {s \in Tx \ {t} : write[s].id = call[t].target /\ write[s].row.status = "absent"}

-----------------------------------------------------------------------------
(* What the statements and the Go code between them decide *)

(* getRootCommentCountForUser: soft-deleted roots count too. *)
RootsOf(u, p) ==
  {i \in Id : /\ Exists(i) /\ comments[i].parent = 0
              /\ comments[i].user = u /\ comments[i].post = p}
RootCount(u, p) == Cardinality(RootsOf(u, p))

(* InsertCommentTx on the parent row it locked, in the order of its checks. *)
ParentVerdict(r, c) ==
  IF r.status = "absent" THEN "not_found"
  ELSE IF r.post # c.post THEN "relation"
  ELSE IF r.status = "deleted" THEN "deleted"
  ELSE IF r.depth + 1 >= CommentMaxNestingDepth THEN "constraint"
  ELSE IF r.user = c.user THEN "constraint"
  ELSE "ok"

(* The row createComment writes. *)
NewRow(t) ==
  LET c == call[t] IN
  [status |-> "live", user |-> c.user, post |-> c.post, parent |-> c.target,
   depth |-> IF c.op = "reply" THEN seen[t].row.depth + 1 ELSE 0,
   up |-> 0, down |-> 0, body |-> c.body]

(* What createComment runs into: the unique index first, then the foreign  *)
(* keys on the post and on the parent.                                     *)
InsertVerdict(t) ==
  IF \E i \in Id : Rival(t, comments[i]) THEN "conflict"
  ELSE IF call[t].post \notin Post THEN "relation"
  ELSE IF call[t].op = "reply" /\ ~Exists(call[t].target) THEN "relation"
  ELSE "ok"

(* EXISTS (... WHERE ch.parent_id = p_comment_id): soft-deleted replies     *)
(* count.                                                                  *)
HasLiveReplies(i) == \E j \in Id : comments[j].status = "live" /\ comments[j].parent = i
HasReplies(i) == \E j \in Id : Exists(j) /\ comments[j].parent = i

(* The WHERE clause of the DELETE in delete_comment_leaf. *)
Erasable(t) ==
  LET r == comments[call[t].target] IN
  /\ r.status = "live"
  /\ r.user = call[t].user /\ r.post = call[t].post
  /\ ~seen[t].kids

(* DeleteCommentTx on the row delete_comment_leaf returned, when it did not *)
(* delete: an error kind, "ok" for an already deleted comment, or "bury".  *)
DeleteForgetsBury(r, kids, c) ==
  IF r.user # c.user THEN "permission"
  ELSE IF r.post # c.post THEN "relation"
  ELSE IF r.status = "deleted" \/ kids THEN "ok"
  ELSE "corrupted"
DeleteVerdict(r, kids, c) ==
  IF r.user # c.user THEN "permission"
  ELSE IF r.post # c.post THEN "relation"
  ELSE IF r.status = "deleted" THEN "ok"
  ELSE IF kids THEN "bury"
  ELSE "corrupted"

(* The row softDeleteComment writes. *)
Buried(r) == [r EXCEPT !.status = "deleted", !.body = "[deleted]"]

(* UpdateComment on the row update_comment returned. *)
EditDeletedVerdict(r, c) ==
  IF r.status = "absent" THEN "not_found"
  ELSE IF r.user = c.user /\ r.post = c.post THEN "ok"
  ELSE IF r.user # c.user THEN "permission"
  ELSE "relation"
EditVerdict(r, c) ==
  IF r.status = "absent" THEN "not_found"
  ELSE IF r.user = c.user /\ r.post = c.post /\ r.status = "live" THEN "ok"
  ELSE IF r.user # c.user THEN "permission"
  ELSE IF r.status = "deleted" THEN "deleted"
  ELSE IF r.post # c.post THEN "relation"
  ELSE "internal"

(* The change of the counter of votes of value x when vote `new' takes the  *)
(* place of `old'.                                                         *)
Delta(x, old, new) == (IF new = x THEN 1 ELSE 0) - (IF old = x THEN 1 ELSE 0)

(* updateCommentPopularity *)
AnyTally(r) == r.status # "absent"
Tallyable(r) == r.status = "live"
Tallied(r, old, new) ==
  [r EXCEPT !.up = @ + Delta(1, old, new), !.down = @ + Delta(-1, old, new)]

(* Deleting a comment cascades to its votes and to all that answers it. *)
Subtree(i) ==
  {j \in Id : \A S \in SUBSET Id :
     (i \in S /\ \A k \in Id : Exists(k) /\ comments[k].parent \in S => k \in S) => j \in S}

-----------------------------------------------------------------------------
(* Waiting *)

WaitsFor(t) ==
  LET i == call[t].target IN
  CASE pc[t] = "lock_parent" -> Blockers(t, i, ReplyParentLock)
    [] pc[t] = "insert"      -> UniqueWaits(t) \cup Blockers(t, i, FKLock)
    [] pc[t] = "lock_target" -> Blockers(t, i, LeafDeleteLock)
    [] pc[t] = "delete"      -> IF Erasable(t)
                                THEN Blockers(t, i, DeleteRowLock) \cup VoteRowWaits(t)
                                ELSE {}
    [] pc[t] = "bury"        -> Blockers(t, i, UpdateRowLock)
    [] pc[t] = "edit"        -> Blockers(t, i, EditLock)
    [] pc[t] = "advisory"    -> AdvisoryWaits(t)
    [] pc[t] = "upsert"      -> IF votes[call[t].user][i] = 0
                                THEN Blockers(t, i, FKLock) ELSE CascadeWaits(t)
    [] pc[t] = "tally"       -> Blockers(t, i, UpdateRowLock)
    [] OTHER                 -> {}

Granted(t) == WaitsFor(t) = {}

(* t waits, through others, for itself: it is in every set that holds those *)
(* it waits for and is closed under waiting.                               *)
NeverDetected(t) == FALSE
Deadlocked(t) ==
  \A S \in SUBSET Tx :
    (WaitsFor(t) \subseteq S /\ \A s \in S : WaitsFor(s) \subseteq S) => t \in S

-----------------------------------------------------------------------------
(* Steps every call shares *)

At(t, step) == pc[t] = step

Goto(t, step) == pc' = [pc EXCEPT ![t] = step]

(* The end of execTx: the locks go, the caller gets its answer. *)
Close(t, kind) ==
  /\ pc'     = [pc EXCEPT ![t] = "idle"]
  /\ call'   = [call EXCEPT ![t] = NoCall]
  /\ lock'   = [lock EXCEPT ![t] = "none"]
  /\ seen'   = [seen EXCEPT ![t] = NothingSeen]
  /\ write'  = [write EXCEPT ![t] = NoWrite]
  /\ ballot' = [ballot EXCEPT ![t] = 0]
  /\ result' = [result EXCEPT ![t] = kind]

(* fn returned an error: rollback, nothing written reaches the tables. *)
Rollback(t, kind) == Close(t, kind) /\ UNCHANGED store

Take(t, mode) == lock' = [lock EXCEPT ![t] = Raise(@, mode)]

(* Ids are handed out by a sequence that a rollback does not rewind; Begin  *)
(* keeps the bound from stopping an insert half way.                       *)
Inserting == {s \in Tx : call[s].op \in {"root", "reply"}}
RoomForInsert == nextId + Cardinality(Inserting) <= MaxId

Begin(t) ==
  /\ At(t, "idle")
  /\ \E c \in Calls :
       /\ c.op \in Ops
       /\ c.op \in {"root", "reply"} => RoomForInsert
       /\ Goto(t, FirstStep[c.op])
       /\ call' = [call EXCEPT ![t] = c]
  /\ result' = [result EXCEPT ![t] = "none"]
  /\ UNCHANGED <<comments, votes, nextId, lock, seen, write, ballot>>

(* Makes what t wrote visible. With the commit's answer lost the caller is  *)
(* told KindInternal although the commit happened.                         *)
Commit(t) ==
  LET w == write[t]
      c == call[t]
      gone == IF w.id \in Id /\ w.row.status = "absent" THEN Subtree(w.id) ELSE {}
  IN /\ At(t, "commit")
     /\ comments' = [i \in Id |-> IF i \in gone THEN Absent
                                  ELSE IF i = w.id THEN w.row ELSE comments[i]]
     /\ votes' = [u \in User |-> [i \in Id |->
                    IF i \in gone THEN 0
                    ELSE IF ballot[t] # 0 /\ u = c.user /\ i = c.target THEN ballot[t]
                    ELSE votes[u][i]]]
     /\ \E kind \in {"ok", "internal"} : Close(t, kind)
     /\ UNCHANGED nextId

(* The connection or the request's context fails between two statements. *)
ConnectionLost(t) ==
  /\ ~At(t, "idle")
  /\ Rollback(t, "internal")
  /\ UNCHANGED nextId

(* PostgreSQL's deadlock detector aborts one transaction of the cycle. *)
DeadlockAbort(t) ==
  /\ Deadlocked(t)
  /\ Rollback(t, "internal")
  /\ UNCHANGED nextId

-----------------------------------------------------------------------------
(* InsertCommentTx *)

CountRoots(t) ==
  /\ At(t, "count_roots")
  /\ \/ /\ RootCount(call[t].user, call[t].post) >= CommentMaxRootCountPerUser
        /\ Rollback(t, "constraint")
        /\ UNCHANGED nextId
     \/ /\ RootCount(call[t].user, call[t].post) < CommentMaxRootCountPerUser
        /\ Goto(t, "insert")
        /\ UNCHANGED <<comments, votes, nextId, call, lock, seen, write, ballot, result>>

LockParent(t) ==
  LET parent  == comments[call[t].target]
      verdict == ParentVerdict(parent, call[t])
  IN /\ At(t, "lock_parent") /\ Granted(t)
     /\ \/ /\ verdict # "ok"
           /\ Rollback(t, verdict)
           /\ UNCHANGED nextId
        \/ /\ verdict = "ok"
           /\ Take(t, ReplyParentLock)
           /\ seen' = [seen EXCEPT ![t].row = parent]
           /\ Goto(t, "insert")
           /\ UNCHANGED <<comments, votes, nextId, call, write, ballot, result>>

Insert(t) ==
  /\ At(t, "insert") /\ Granted(t)
  /\ nextId <= MaxId
  /\ nextId' = nextId + 1
  /\ \/ /\ InsertVerdict(t) # "ok"
        /\ Rollback(t, InsertVerdict(t))
     \/ /\ InsertVerdict(t) = "ok"
        /\ write' = [write EXCEPT ![t] = [id |-> nextId, row |-> NewRow(t)]]
        /\ IF call[t].op = "reply" THEN Take(t, FKLock) ELSE UNCHANGED lock
        /\ Goto(t, "commit")
        /\ UNCHANGED <<comments, votes, call, seen, ballot, result>>

-----------------------------------------------------------------------------
(* DeleteCommentTx *)

LockTarget(t) ==
  LET i == call[t].target
  IN /\ At(t, "lock_target") /\ Granted(t)
     /\ \/ /\ ~Exists(i)
           /\ Rollback(t, "not_found")
           /\ UNCHANGED nextId
        \/ /\ Exists(i)
           /\ Take(t, LeafDeleteLock)
           /\ seen' = [seen EXCEPT ![t].row = comments[i]]
           /\ Goto(t, "probe")
           /\ UNCHANGED <<comments, votes, nextId, call, write, ballot, result>>

Probe(t) ==
  /\ At(t, "probe")
  /\ seen' = [seen EXCEPT ![t].kids = HasReplies(call[t].target)]
  /\ Goto(t, "delete")
  /\ UNCHANGED <<comments, votes, nextId, call, lock, write, ballot, result>>

DeleteLeaf(t) ==
  LET verdict == DeleteVerdict(seen[t].row, seen[t].kids, call[t])
  IN /\ At(t, "delete") /\ Granted(t)
     /\ UNCHANGED nextId
     /\ \/ /\ Erasable(t)
           /\ Take(t, DeleteRowLock)
           /\ write' = [write EXCEPT ![t] = [id |-> call[t].target, row |-> Absent]]
           /\ Goto(t, "commit")
           /\ UNCHANGED <<comments, votes, call, seen, ballot, result>>
        \/ /\ ~Erasable(t) /\ verdict \in {"ok", "bury"}
           /\ Goto(t, IF verdict = "ok" THEN "commit" ELSE "bury")
           /\ UNCHANGED <<comments, votes, call, lock, seen, write, ballot, result>>
        \/ /\ ~Erasable(t) /\ verdict \notin {"ok", "bury"}
           /\ Rollback(t, verdict)

SoftDelete(t) ==
  LET i == call[t].target
  IN /\ At(t, "bury") /\ Granted(t)
     /\ UNCHANGED nextId
     /\ \/ /\ ~Exists(i)
           /\ Rollback(t, "internal")
        \/ /\ Exists(i)
           /\ Take(t, UpdateRowLock)
           /\ write' = [write EXCEPT ![t] = [id |-> i, row |-> Buried(comments[i])]]
           /\ Goto(t, "commit")
           /\ UNCHANGED <<comments, votes, call, seen, ballot, result>>

-----------------------------------------------------------------------------
(* UpdateComment: one statement in a transaction of its own. *)

UpdateComment(t) ==
  LET i       == call[t].target
      verdict == EditVerdict(comments[i], call[t])
  IN /\ At(t, "edit") /\ Granted(t)
     /\ UNCHANGED nextId
     /\ \/ /\ verdict # "ok"
           /\ Rollback(t, verdict)
        \/ /\ verdict = "ok"
           /\ comments' = [comments EXCEPT ![i].body = call[t].body]
           /\ UNCHANGED votes
           /\ \E kind \in {"ok", "internal"} : Close(t, kind)

-----------------------------------------------------------------------------
(* VoteCommentTx *)

TakeAdvisory(t) ==
  /\ At(t, "advisory")
  /\ UNCHANGED nextId
  /\ \/ /\ call[t].vote \notin {1, -1}
        /\ Rollback(t, "invalid")
     \/ /\ call[t].vote \in {1, -1}
        /\ Granted(t)
        /\ Goto(t, "prior")
        /\ UNCHANGED <<comments, votes, call, lock, seen, write, ballot, result>>

ReadPrior(t) ==
  /\ At(t, "prior")
  /\ seen' = [seen EXCEPT ![t].prior = votes[call[t].user][call[t].target]]
  /\ Goto(t, "upsert")
  /\ UNCHANGED <<comments, votes, nextId, call, lock, write, ballot, result>>

(* INSERT ... ON CONFLICT DO UPDATE, and the check for a repeated vote. An  *)
(* insert checks the foreign key to the comment and locks it; an update    *)
(* leaves the key alone and checks nothing.                                *)
Upsert(t) ==
  LET i     == call[t].target
      fresh == votes[call[t].user][i] = 0
  IN /\ At(t, "upsert") /\ Granted(t)
     /\ UNCHANGED nextId
     /\ \/ /\ fresh /\ ~Exists(i)
           /\ Rollback(t, "relation")
        \/ /\ ~(fresh /\ ~Exists(i))
           /\ seen[t].prior = call[t].vote
           /\ Rollback(t, "conflict")
        \/ /\ ~(fresh /\ ~Exists(i))
           /\ seen[t].prior # call[t].vote
           /\ ballot' = [ballot EXCEPT ![t] = call[t].vote]
           /\ IF fresh THEN Take(t, FKLock) ELSE UNCHANGED lock
           /\ Goto(t, "tally")
           /\ UNCHANGED <<comments, votes, call, seen, write, result>>

Tally(t) ==
  LET i == call[t].target
  IN /\ At(t, "tally") /\ Granted(t)
     /\ UNCHANGED nextId
     /\ \/ /\ ~Tallyable(comments[i])
           /\ Rollback(t, "deleted")
        \/ /\ Tallyable(comments[i])
           /\ Take(t, UpdateRowLock)
           /\ write' = [write EXCEPT ![t] =
                          [id |-> i, row |-> Tallied(comments[i], seen[t].prior, call[t].vote)]]
           /\ Goto(t, "commit")
           /\ UNCHANGED <<comments, votes, call, seen, ballot, result>>

-----------------------------------------------------------------------------

Init ==
  /\ comments = [i \in Id |-> Absent]
  /\ votes  = [u \in User |-> [i \in Id |-> 0]]
  /\ nextId = 1
  /\ pc     = [t \in Tx |-> "idle"]
  /\ call   = [t \in Tx |-> NoCall]
  /\ lock   = [t \in Tx |-> "none"]
  /\ seen   = [t \in Tx |-> NothingSeen]
  /\ write  = [t \in Tx |-> NoWrite]
  /\ ballot = [t \in Tx |-> 0]
  /\ result = [t \in Tx |-> "none"]

(* Statements of a call that is under way. *)
Work(t) ==
  \/ CountRoots(t) \/ LockParent(t) \/ Insert(t)
  \/ LockTarget(t) \/ Probe(t) \/ DeleteLeaf(t) \/ SoftDelete(t)
  \/ UpdateComment(t)
  \/ TakeAdvisory(t) \/ ReadPrior(t) \/ Upsert(t) \/ Tally(t)
  \/ Commit(t)

Next == \E t \in Tx : Begin(t) \/ Work(t) \/ ConnectionLost(t) \/ DeadlockAbort(t)

Spec == Init /\ [][Next]_vars

(* Goroutines keep executing the statements that can go on, and PostgreSQL  *)
(* resolves every deadlock.  Nothing is assumed of the order in which it    *)
(* grants locks, and callers need not begin anything.                      *)
Fairness == \A t \in Tx : WF_vars(Work(t)) /\ WF_vars(DeadlockAbort(t))

FairSpec == Spec /\ Fairness

-----------------------------------------------------------------------------
(* Properties *)

(* Rows, locks and answers are of the kinds declared above; a stored vote is *)
(* 1 or -1 and an id is one the sequence has handed out or may.            *)
TypeOK ==
  /\ comments \in [Id -> Row]
  /\ votes \in [User -> [Id -> -1..1]]
  /\ nextId \in 1..MaxId + 1
  /\ pc \in [Tx -> Steps]
  /\ call \in [Tx -> Calls \cup {NoCall}]
  /\ lock \in [Tx -> LockModes]
  /\ seen \in [Tx -> [row : Row, kids : BOOLEAN, prior : -1..1]]
  /\ write \in [Tx -> [id : 0..MaxId, row : Row]]
  /\ ballot \in [Tx -> -1..1]
  /\ result \in [Tx -> Kinds]

(* Every committed reply hangs under an existing comment of its post, one   *)
(* level deeper and above the nesting limit, in whatever order inserts and *)
(* deletes of different clients commit: what KEY SHARE on the parent and   *)
(* FOR UPDATE on the delete's target protect.                              *)
WellPlaced(i) ==
  LET r == comments[i] IN
  /\ r.post \in Post
  /\ r.depth < CommentMaxNestingDepth
  /\ r.parent = 0 => r.depth = 0
  /\ r.parent # 0 => /\ Exists(r.parent)
                     /\ comments[r.parent].post = r.post
                     /\ comments[r.parent].user # r.user
                     /\ comments[r.parent].depth + 1 = r.depth
TreeOK == \A i \in Id : Exists(i) => WellPlaced(i)

(* The counters shown on a comment are the votes stored for it, although    *)
(* the code only ever adds deltas computed from an earlier read of the     *)
(* previous vote.                                                          *)
Voters(i, x) == {u \in User : votes[u][i] = x}
CountersMatch ==
  \A i \in Id : Exists(i) =>
    comments[i].up = Cardinality(Voters(i, 1)) /\ comments[i].down = Cardinality(Voters(i, -1))

(* A vote row never outlives its comment. *)
NoStrayVotes == \A u \in User, i \in Id : votes[u][i] # 0 => Exists(i)

(* A user has at most one live reply to a comment. *)
OneLiveReply ==
  \A i, j \in Id :
    /\ comments[i].status = "live" /\ comments[j].status = "live"
    /\ comments[i].parent # 0 /\ comments[i].parent = comments[j].parent
    /\ comments[i].user = comments[j].user
    => i = j

(* The threads of a post, as far as writers of different clients can spoil  *)
(* them together: every reply in its place, and one per user and comment.  *)
ThreadsOK == TreeOK /\ OneLiveReply

(* DeleteCommentTx never meets the state it calls corrupted: found alive,   *)
(* without replies, and yet not deleted.                                   *)
NeverCorrupted == \A t \in Tx : result[t] # "corrupted"

(* The only way the calls of the store block one another for good is a      *)
(* changed vote against the removal of the comment it is on.               *)
VoteAgainstDelete(s, t) ==
  /\ pc[s] = "tally" /\ lock[s] = "none"
  /\ pc[t] = "delete" /\ call[t].target = call[s].target
OnlyKnownDeadlock ==
  \A t \in Tx : Deadlocked(t) =>
    \E s \in WaitsFor(t) :
      /\ t \in WaitsFor(s)
      /\ (VoteAgainstDelete(s, t) \/ VoteAgainstDelete(t, s))

(* A user never has more root comments on a post than the configured        *)
(* maximum.                                                                *)
RootLimit ==
  \A u \in User, p \in Post : RootCount(u, p) <= CommentMaxRootCountPerUser

(* A comment vanishes only because its own author deleted that comment: no  *)
(* delete takes a reply of somebody else with it through the cascade.      *)
OnlyAuthorErases ==
  [][\A i \in Id : Exists(i) /\ ~Exists(i)' =>
       \E t \in Tx : /\ call[t].op = "delete" /\ call[t].target = i
                     /\ call[t].user = comments[i].user]_vars

(* When a reply becomes visible, the comment it answers is not deleted. *)
NoReplyToDeleted ==
  [][\A i \in Id : ~Exists(i) /\ Exists(i)' /\ comments'[i].parent # 0 =>
       comments'[comments'[i].parent].status = "live"]_vars

(* A soft-deleted comment keeps its row as it was left, counters, marker    *)
(* text and votes included, however many calls on it were under way.       *)
BuriedForever ==
  [][\A i \in Id : comments[i].status = "deleted" =>
       /\ comments'[i] = comments[i]
       /\ \A u \in User : votes'[u][i] = votes[u][i]]_vars

(* The calls under way all return once no new ones are made.  (While calls  *)
(* keep coming, first votes can hold the row lock of a comment in turn and *)
(* keep a deletion waiting.)                                               *)
EveryCallReturns ==
  <>[][\A t \in Tx : ~Begin(t)]_vars => <>[](\A t \in Tx : pc[t] = "idle")

(* The store is the board: every commit changes the tables as one call of   *)
(* the contract executed at that moment alone would.                       *)
Board == INSTANCE CommentBoard WITH comments <- comments, votes <- votes
Atomic == Board!Spec
=============================================================================
