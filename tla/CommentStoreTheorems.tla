------------------------ MODULE CommentStoreTheorems ------------------------
(***************************************************************************)
(* What follows from the inductive invariant about single steps: which     *)
(* changes the tables may undergo (StoreEffect), that the answers of the   *)
(* calls are true, that only one kind of pair can deadlock, and that every *)
(* commit is one call of the board (Implements).                           *)
(***************************************************************************)
EXTENDS CommentStoreProofs, CommentAnswers

-----------------------------------------------------------------------------
(* The changes of the tables *)

Adds(t) ==
  /\ Inserted(t) /\ write[t].id \in Id
  /\ comments' = [comments EXCEPT ![write[t].id] = NewRow(t)]
  /\ UNCHANGED votes

Erases(t) ==
  /\ Erasing(t) /\ call[t].target \in Id
  /\ comments' = [comments EXCEPT ![call[t].target] = Absent]
  /\ votes' = [u \in User |-> [votes[u] EXCEPT ![call[t].target] = 0]]

Buries(t) ==
  /\ call[t].op = "delete" /\ pc[t] = "commit" /\ Owns(t) /\ call[t].target \in Id
  /\ comments' = [comments EXCEPT ![call[t].target] = Buried(comments[call[t].target])]
  /\ UNCHANGED votes

Casts(t) ==
  /\ call[t].op = "vote" /\ pc[t] = "commit" /\ call[t].target \in Id
  /\ comments' = [comments EXCEPT ![call[t].target] = Tallied(@, seen[t].prior, call[t].vote)]
  /\ votes' = [votes EXCEPT ![call[t].user][call[t].target] = call[t].vote]

Rewrites(t) ==
  /\ call[t].op = "edit" /\ pc[t] = "edit" /\ Owns(t) /\ call[t].target \in Id
  /\ comments' = [comments EXCEPT ![call[t].target].body = call[t].body]
  /\ UNCHANGED votes

Changes(t) == Adds(t) \/ Erases(t) \/ Buries(t) \/ Casts(t) \/ Rewrites(t)

LEMMA CommitChanges ==
  ASSUME IInv, NEW t \in Tx, Commit(t) PROVE UNCHANGED store \/ Changes(t)
<1>1. Inserted(t) => write[t].id \in Id
  BY Parts DEF WriteOK
<1>2. QED
  BY <1>1, CommitEffect DEF Changes, Adds, Erases, Buries, Casts

LEMMA EditChanges ==
  ASSUME IInv, NEW t \in Tx, UpdateComment(t) PROVE UNCHANGED store \/ Changes(t)
<1> DEFINE i == call[t].target
<1>1. pc[t] = "edit" /\ call[t].op = "edit" /\ call[t] \in Calls
  BY Parts DEF UpdateComment, At, CallOK, OpsOfStep
<1>2. i \in Id
  BY <1>1, CallTypes
<1>3. CASE EditVerdict(comments[i], call[t]) # "ok"
  BY <1>3 DEF UpdateComment, Rollback
<1>4. CASE EditVerdict(comments[i], call[t]) = "ok"
  <2>1. Owns(t)
    BY <1>4 DEF EditVerdict, Owns
  <2>2. comments' = [comments EXCEPT ![i].body = call[t].body] /\ UNCHANGED votes
    BY <1>4 DEF UpdateComment
  <2>3. QED
    BY <1>1, <1>2, <2>1, <2>2 DEF Changes, Rewrites
<1>5. QED
  BY <1>3, <1>4

LEMMA StoreEffect ==
  ASSUME IInv, [Next]_vars PROVE UNCHANGED store \/ \E t \in Tx : Changes(t)
<1>1. CASE UNCHANGED vars
  BY <1>1 DEF vars, store
<1>2. ASSUME NEW t \in Tx, Begin(t) \/ ConnectionLost(t) \/ DeadlockAbort(t)
      PROVE  UNCHANGED store
  BY <1>2 DEF Begin, ConnectionLost, DeadlockAbort, Rollback, store
<1>3. ASSUME NEW t \in Tx, Work(t) PROVE UNCHANGED store \/ Changes(t)
  <2>1. CASE CountRoots(t) \/ LockParent(t) \/ Insert(t)
    BY <2>1 DEF CountRoots, LockParent, Insert, Rollback, store
  <2>2. CASE LockTarget(t) \/ Probe(t) \/ DeleteLeaf(t) \/ SoftDelete(t)
    BY <2>2 DEF LockTarget, Probe, DeleteLeaf, SoftDelete, Rollback, store
  <2>3. CASE TakeAdvisory(t) \/ ReadPrior(t) \/ Upsert(t) \/ Tally(t)
    BY <2>3 DEF TakeAdvisory, ReadPrior, Upsert, Tally, Rollback, store
  <2>4. CASE UpdateComment(t)
    BY <2>4, EditChanges
  <2>5. CASE Commit(t)
    BY <2>5, CommitChanges
  <2>6. QED
    BY <1>3, <2>1, <2>2, <2>3, <2>4, <2>5 DEF Work
<1>4. QED
  BY <1>1, <1>2, <1>3 DEF Next

-----------------------------------------------------------------------------
(* What a step may never do *)

LEMMA EraseStep ==
  ASSUME IInv, [Next]_vars, NEW i \in Id, Exists(i), ~Exists(i)'
  PROVE  \E t \in Tx : /\ call[t].op = "delete" /\ call[t].target = i
                       /\ call[t].user = comments[i].user
<1>1. comments \in [Id -> Row]
  BY DEF IInv, TypeOK
<1>2. PICK t \in Tx : Changes(t)
  BY StoreEffect DEF store, Exists
<1>3. CASE Adds(t)
  BY <1>1, <1>3 DEF Adds, NewRow, Exists
<1>4. CASE Erases(t)
  <2>1. call[t].target = i
    BY <1>1, <1>4 DEF Erases, Exists
  <2>2. Owns(t)
    <3>1. write[t].id # 0 /\ call[t].op = "delete" /\ pc[t] = "commit"
          /\ write[t].row.status = "absent"
      BY <1>4 DEF Erases, Erasing
    <3>2. WriteOK(t)
      BY Parts
    <3>3. write[t] # NoWrite
      BY <3>1 DEF NoWrite
    <3>4. QED
      BY <3>1, <3>2, <3>3 DEF WriteOK
  <2>3. QED
    BY <1>4, <2>1, <2>2 DEF Erases, Erasing, Owns
<1>5. CASE Buries(t)
  <2>1. Buried(comments[call[t].target]).status = "deleted"
    BY <1>1, <1>5 DEF Buries, Buried, Row
  <2>2. QED
    BY <1>1, <1>5, <2>1 DEF Buries, Exists
<1>6. CASE Casts(t)
  <2>1. Tallied(comments[call[t].target], seen[t].prior, call[t].vote).status
          = comments[call[t].target].status
    BY <1>1, <1>6, TalliedFields DEF Casts
  <2>2. QED
    BY <1>1, <1>6, <2>1 DEF Casts, Exists
<1>7. CASE Rewrites(t)
  BY <1>1, <1>7 DEF Rewrites, Exists, Row
<1>8. QED
  BY <1>2, <1>3, <1>4, <1>5, <1>6, <1>7 DEF Changes

(* No delete takes the comment of somebody else with it through the cascade *)
(* of the foreign key.                                                     *)
THEOREM AuthorsErase == Spec => OnlyAuthorErases
<1>1. IInv /\ [Next]_vars =>
        [\A i \in Id : Exists(i) /\ ~Exists(i)' =>
           \E t \in Tx : /\ call[t].op = "delete" /\ call[t].target = i
                         /\ call[t].user = comments[i].user]_vars
  BY EraseStep
<1>2. QED
  BY <1>1, StoreSafe, PTL DEF Spec, OnlyAuthorErases

LEMMA AddedRow ==
  ASSUME IInv, NEW t \in Tx, Adds(t)
  PROVE  LET i == write[t].id
             c == call[t] IN
         /\ i \in Id /\ ~Exists(i) /\ c \in Calls /\ c.post \in Post
         /\ c.user \in User /\ c.body \in Body
         /\ \/ c.op = "root" /\ c.target = 0
            \/ /\ c.op = "reply" /\ c.target \in Id /\ c.target # i
               /\ comments[c.target].status = "live" /\ comments[c.target].user # c.user
               /\ comments[c.target].post = c.post
               /\ NewRow(t).depth = comments[c.target].depth + 1
               /\ comments[c.target].depth + 1 < CommentMaxNestingDepth
               /\ \A j \in Id : ~Rival(t, comments[j])
<1> DEFINE i == write[t].id
           c == call[t]
<1>1. Inserted(t) /\ i \in Id
  BY DEF Adds
<1>2. ~Exists(i) /\ c.post \in Post
  BY <1>1, Parts DEF WriteOK
<1>3. c \in Calls /\ c.op \in {"root", "reply"}
  BY <1>1, Parts DEF Inserted, CallOK
<1>4. c.user \in User /\ c.body \in Body
  BY <1>3 DEF Calls
<1>5. CASE c.op = "root"
  BY <1>1, <1>2, <1>3, <1>4, <1>5 DEF Calls
<1>6. CASE c.op = "reply"
  <2>1. c.target \in Id
    BY <1>3, <1>6 DEF Calls
  <2>2. InReply(t)
    BY <1>1, <1>6 DEF Inserted, InReply
  <2>3. /\ Exists(c.target) /\ comments[c.target].status = "live"
        /\ comments[c.target].post = c.post /\ comments[c.target].user # c.user
        /\ seen[t].row.depth = comments[c.target].depth
        /\ comments[c.target].depth + 1 < CommentMaxNestingDepth
    BY <2>2, Parts DEF SeenOK
  <2>4. \A j \in Id : ~Rival(t, comments[j])
    BY <1>1, <1>6, Parts DEF WriteOK
  <2>5. NewRow(t).depth = comments[c.target].depth + 1
    BY <1>6, <2>3 DEF NewRow
  <2>6. c.target # i
    BY <1>2, <2>3
  <2>7. QED
    BY <1>1, <1>2, <1>3, <1>4, <1>6, <2>1, <2>3, <2>4, <2>5, <2>6
<1>7. QED
  BY <1>3, <1>5, <1>6

LEMMA AppearStep ==
  ASSUME IInv, [Next]_vars, NEW i \in Id, ~Exists(i), Exists(i)', comments'[i].parent # 0
  PROVE  comments'[comments'[i].parent].status = "live"
<1>1. comments \in [Id -> Row]
  BY DEF IInv, TypeOK
<1>2. PICK t \in Tx : Changes(t)
  BY StoreEffect DEF store, Exists
<1>3. CASE Adds(t)
  <2>1. i = write[t].id /\ comments'[i] = NewRow(t)
    BY <1>1, <1>3 DEF Adds, Exists
  <2>2. comments'[i].parent = call[t].target
    BY <2>1 DEF NewRow
  <2>3. /\ call[t].target \in Id /\ call[t].target # write[t].id
        /\ comments[call[t].target].status = "live"
    BY <1>3, <2>2, AddedRow
  <2>4. comments'[call[t].target] = comments[call[t].target]
    BY <1>1, <1>3, <2>3 DEF Adds
  <2>5. QED
    BY <2>2, <2>3, <2>4
<1>4. CASE Erases(t)
  BY <1>1, <1>4 DEF Erases, Exists, Absent
<1>5. CASE Buries(t)
  BY <1>1, <1>5 DEF Buries, Exists, Owns
<1>6. CASE Casts(t)
  <2>1. Tallied(comments[call[t].target], seen[t].prior, call[t].vote).status
          = comments[call[t].target].status
    BY <1>1, <1>6, TalliedFields DEF Casts
  <2>2. QED
    BY <1>1, <1>6, <2>1 DEF Casts, Exists
<1>7. CASE Rewrites(t)
  BY <1>1, <1>7 DEF Rewrites, Exists, Owns
<1>8. QED
  BY <1>2, <1>3, <1>4, <1>5, <1>6, <1>7 DEF Changes

(* A reply never becomes visible under a comment that is deleted by then,   *)
(* although InsertCommentTx checked its parent statements earlier.         *)
THEOREM RepliesReachTheLiving == Spec => NoReplyToDeleted
<1>1. IInv /\ [Next]_vars =>
        [\A i \in Id : ~Exists(i) /\ Exists(i)' /\ comments'[i].parent # 0 =>
           comments'[comments'[i].parent].status = "live"]_vars
  BY AppearStep
<1>2. QED
  BY <1>1, StoreSafe, PTL DEF Spec, NoReplyToDeleted

LEMMA BuriedStep ==
  ASSUME IInv, [Next]_vars, NEW i \in Id, comments[i].status = "deleted"
  PROVE  /\ comments'[i] = comments[i]
         /\ \A u \in User : votes'[u][i] = votes[u][i]
<1>1. comments \in [Id -> Row] /\ votes \in [User -> [Id -> -1..1]]
  BY DEF IInv, TypeOK
<1>2. CASE UNCHANGED store
  BY <1>2 DEF store
<1>3. ASSUME NEW t \in Tx, Adds(t)
      PROVE  comments'[i] = comments[i] /\ votes' = votes
  <2>1. write[t].id # i
    BY <1>3, AddedRow DEF Exists
  <2>2. QED
    BY <1>1, <1>3, <2>1 DEF Adds
<1>4. ASSUME NEW t \in Tx, Changes(t), ~Adds(t)
      PROVE  call[t].target # i /\ call[t].target \in Id
  <2>1. CASE Erases(t)
    <3>1. WriteOK(t) /\ write[t] # NoWrite /\ call[t].op = "delete" /\ pc[t] = "commit"
      BY <2>1, Parts DEF Erases, Erasing, NoWrite
    <3>2. QED
      BY <2>1, <3>1 DEF WriteOK, Owns, Erases
  <2>2. CASE Buries(t) \/ Rewrites(t)
    BY <2>2 DEF Buries, Rewrites, Owns
  <2>3. CASE Casts(t)
    BY <2>3, Parts DEF Casts, WriteOK
  <2>4. QED
    BY <1>4, <2>1, <2>2, <2>3 DEF Changes
<1>5. ASSUME NEW t \in Tx, Changes(t), ~Adds(t)
      PROVE  comments'[i] = comments[i] /\ \A u \in User : votes'[u][i] = votes[u][i]
  <2>1. call[t].target # i /\ call[t].target \in Id
    BY <1>4, <1>5
  <2>2. comments'[i] = comments[i]
    BY <1>1, <1>5, <2>1 DEF Changes, Erases, Buries, Casts, Rewrites
  <2>3. \A u \in User : votes'[u][i] = votes[u][i]
    BY <1>1, <1>5, <2>1 DEF Changes, Erases, Buries, Casts, Rewrites
  <2>4. QED
    BY <2>2, <2>3
<1>6. QED
  BY <1>2, <1>3, <1>5, StoreEffect

(* A soft-deleted comment is never edited, voted on or brought back, by any *)
(* call that was under way when it was deleted.                            *)
THEOREM BuriedStaysBuried == Spec => BuriedForever
<1>1. IInv /\ [Next]_vars =>
        [\A i \in Id : comments[i].status = "deleted" =>
           /\ comments'[i] = comments[i]
           /\ \A u \in User : votes'[u][i] = votes[u][i]]_vars
  BY BuriedStep
<1>2. QED
  BY <1>1, StoreSafe, PTL DEF Spec, BuriedForever

-----------------------------------------------------------------------------
(* The state DeleteCommentTx calls corrupted *)

LEMMA DeleteSound ==
  ASSUME IInv, NEW t \in Tx, DeleteLeaf(t), ~Erasable(t)
  PROVE  DeleteVerdict(seen[t].row, seen[t].kids, call[t]) # "corrupted"
<1> DEFINE i == call[t].target
<1>1. pc[t] = "delete" /\ call[t].op = "delete"
  BY Parts DEF DeleteLeaf, At, CallOK, OpsOfStep
<1>2. seen[t].row = comments[i] /\ Exists(i)
  BY <1>1, Parts DEF SeenOK, InDelete
<1>3. i \in Id
  BY <1>1, Parts, CallTypes DEF CallOK
<1>4. comments[i].status \in {"live", "deleted"}
  BY <1>2, <1>3, Parts DEF TypeOK, Row, Exists, Status
<1>5. QED
  BY <1>2, <1>4 DEF DeleteVerdict, Erasable

LEMMA ResultStep ==
  ASSUME IInv, NeverCorrupted, [Next]_vars PROVE NeverCorrupted'
<1>1. CASE UNCHANGED vars
  BY <1>1 DEF vars, NeverCorrupted
<1>2. ASSUME NEW t \in Tx, NEW kind, Close(t, kind), kind # "corrupted" PROVE NeverCorrupted'
  BY <1>2 DEF Close, NeverCorrupted
<1>3. ASSUME NEW t \in Tx, Begin(t) \/ ConnectionLost(t) \/ DeadlockAbort(t)
      PROVE  NeverCorrupted'
  <2>1. CASE Begin(t)
    BY <2>1 DEF Begin, NeverCorrupted
  <2>2. CASE ConnectionLost(t) \/ DeadlockAbort(t)
    BY <1>2, <2>2 DEF ConnectionLost, DeadlockAbort, Rollback
  <2>3. QED
    BY <1>3, <2>1, <2>2
<1>4. ASSUME NEW t \in Tx, Work(t) PROVE NeverCorrupted'
  <2>1. CASE UNCHANGED result
    BY <2>1 DEF NeverCorrupted
  <2>2. CASE CountRoots(t)
    BY <1>2, <2>1, <2>2 DEF CountRoots, Rollback
  <2>3. CASE LockParent(t)
    BY <1>2, <2>1, <2>3 DEF LockParent, Rollback, ParentVerdict
  <2>4. CASE Insert(t)
    BY <1>2, <2>1, <2>4 DEF Insert, Rollback, InsertVerdict
  <2>5. CASE LockTarget(t)
    BY <1>2, <2>1, <2>5 DEF LockTarget, Rollback
  <2>6. CASE Probe(t)
    BY <2>1, <2>6 DEF Probe
  <2>7. CASE DeleteLeaf(t)
    BY <1>2, <2>1, <2>7, DeleteSound DEF DeleteLeaf, Rollback
  <2>8. CASE SoftDelete(t)
    BY <1>2, <2>1, <2>8 DEF SoftDelete, Rollback
  <2>9. CASE UpdateComment(t)
    BY <1>2, <2>9 DEF UpdateComment, Rollback, EditVerdict
  <2>10. CASE TakeAdvisory(t) \/ ReadPrior(t)
    BY <1>2, <2>1, <2>10 DEF TakeAdvisory, ReadPrior, Rollback
  <2>11. CASE Upsert(t)
    BY <1>2, <2>1, <2>11 DEF Upsert, Rollback
  <2>12. CASE Tally(t)
    BY <1>2, <2>1, <2>12 DEF Tally, Rollback
  <2>13. CASE Commit(t)
    BY <1>2, <2>13 DEF Commit
  <2>14. QED
    BY <1>4, <2>2, <2>3, <2>4, <2>5, <2>6, <2>7, <2>8, <2>9, <2>10, <2>11, <2>12, <2>13
    DEF Work
<1>5. QED
  BY <1>1, <1>3, <1>4 DEF Next

(* The KindCorrupted branch of DeleteCommentTx is unreachable: the row lock *)
(* keeps the answer of the leaf probe true until the DELETE.                *)
THEOREM DeleteFindsNoCorruption == Spec => []NeverCorrupted
<1>1. Init => NeverCorrupted
  BY DEF Init, NeverCorrupted
<1>2. QED
  BY <1>1, ResultStep, StoreSafe, PTL DEF Spec

-----------------------------------------------------------------------------
(* The store implements the board *)

LEMMA AddsOnBoard == ASSUME IInv, NEW t \in Tx, Adds(t) PROVE Board!Next
<1> DEFINE i == write[t].id
           c == call[t]
<1>1. /\ i \in Id /\ c.post \in Post /\ c.user \in User /\ c.body \in Body
      /\ comments[i].status = "absent" /\ i \in Board!Id
  BY AddedRow DEF Exists, Id, Board!Id
<1>2. comments' = [comments EXCEPT ![i] = NewRow(t)] /\ UNCHANGED votes
  BY DEF Adds
<1>3. CASE c.op = "root" /\ c.target = 0
  <2>1. NewRow(t) = Board!NewComment(c.user, c.post, 0, 0, c.body)
    BY <1>3 DEF NewRow, Board!NewComment
  <2>2. Board!AddRoot(c.user)
    BY <1>1, <1>2, <2>1 DEF Board!AddRoot, Board!Exists
  <2>3. QED
    BY <1>1, <2>2 DEF Board!Next
<1>4. CASE c.op = "reply"
  <2> DEFINE q == c.target
  <2>1. /\ q \in Board!Id /\ comments[q].status = "live" /\ comments[q].user # c.user
        /\ comments[q].post = c.post /\ NewRow(t).depth = comments[q].depth + 1
        /\ comments[q].depth + 1 < CommentMaxNestingDepth
        /\ \A j \in Id : ~Rival(t, comments[j])
    BY <1>4, AddedRow DEF Id, Board!Id
  <2>2. NewRow(t) =
          Board!NewComment(c.user, comments[q].post, q, comments[q].depth + 1, c.body)
    BY <2>1 DEF NewRow, Board!NewComment
  <2>3. \A j \in Board!Id :
          ~(Board!Live(j) /\ comments[j].user = c.user /\ comments[j].parent = q)
    BY <1>4, <2>1 DEF Rival, Board!Live, Id, Board!Id
  <2>4. Board!AddReply(c.user)
    BY <1>1, <1>2, <2>1, <2>2, <2>3 DEF Board!AddReply, Board!Exists, Board!Live
  <2>5. QED
    BY <1>1, <2>4 DEF Board!Next
<1>5. QED
  BY <1>3, <1>4, AddedRow

LEMMA AuthorOf ==
  ASSUME IInv, NEW t \in Tx, Erases(t) \/ Buries(t) \/ Rewrites(t)
  PROVE  LET i == call[t].target IN
         /\ i \in Board!Id /\ Board!Live(i) /\ comments[i] \in Row
         /\ comments[i].user = call[t].user /\ call[t].user \in User
<1> DEFINE i == call[t].target
<1>1. Owns(t) /\ call[t].op \in {"delete", "edit"} /\ pc[t] # "idle" /\ i \in Id
  <2>1. CASE Erases(t)
    <3>1. WriteOK(t) /\ write[t] # NoWrite /\ call[t].op = "delete" /\ pc[t] = "commit" /\ i \in Id
      BY <2>1, Parts DEF Erases, Erasing, NoWrite
    <3>2. QED
      BY <3>1 DEF WriteOK
  <2>2. CASE Buries(t) \/ Rewrites(t)
    BY <2>2 DEF Buries, Rewrites
  <2>3. QED
    BY <2>1, <2>2
<1>2. call[t] \in Calls
  BY <1>1, Parts DEF CallOK
<1>3. call[t].user \in User
  BY <1>2 DEF Calls
<1>4. comments[i] \in Row
  BY <1>1, Parts DEF TypeOK
<1>5. QED
  BY <1>1, <1>3, <1>4 DEF Owns, Board!Live, Board!Id, Id

LEMMA ErasesOnBoard == ASSUME IInv, NEW t \in Tx, Erases(t) PROVE Board!Next
<1> DEFINE i == call[t].target
<1>1. ~HasReplies(i)
  <2>1. WriteOK(t) /\ call[t].op = "delete" /\ pc[t] = "commit"
        /\ write[t].id # 0 /\ write[t].row.status = "absent"
    BY Parts DEF Erases, Erasing
  <2>2. comments[i] \in Row
    BY AuthorOf
  <2>3. Buried(comments[i]).status = "deleted"
    BY <2>2 DEF Buried, Row
  <2>4. write[t] # NoWrite /\ write[t].row # Buried(comments[i])
    BY <2>1, <2>3 DEF NoWrite
  <2>5. QED
    BY <2>1, <2>4 DEF WriteOK
<1>2. ~Board!HasReplies(i)
  BY <1>1 DEF HasReplies, Exists, Id, Board!HasReplies, Board!Exists, Board!Id
<1>3. comments' = [comments EXCEPT ![i] = Board!Absent]
  BY DEF Erases, Absent, Board!Absent
<1>4. votes' = [u \in User |-> [votes[u] EXCEPT ![i] = 0]]
  BY DEF Erases
<1>5. Board!Erase(call[t].user)
  BY <1>2, <1>3, <1>4, AuthorOf DEF Board!Erase
<1>6. QED
  BY <1>5, AuthorOf DEF Board!Next

LEMMA BuriesOnBoard == ASSUME IInv, NEW t \in Tx, Buries(t) PROVE Board!Next
<1> DEFINE i == call[t].target
<1>1. comments' = [comments EXCEPT ![i].status = "deleted", ![i].body = "[deleted]"]
  BY AuthorOf, Parts DEF Buries, Buried, TypeOK, Id, Board!Id
<1>2. Board!Bury(call[t].user)
  BY <1>1, AuthorOf DEF Board!Bury, Buries
<1>3. QED
  BY <1>2, AuthorOf DEF Board!Next

LEMMA RewritesOnBoard == ASSUME IInv, NEW t \in Tx, Rewrites(t) PROVE Board!Next
<1>1. call[t] \in Calls /\ call[t].op = "edit"
  BY Parts DEF Rewrites, CallOK
<1>2. call[t].body \in Body
  BY <1>1 DEF Calls
<1>3. Board!Edit(call[t].user)
  BY <1>2, AuthorOf DEF Board!Edit, Rewrites
<1>4. QED
  BY <1>3, AuthorOf DEF Board!Next

(* The board counts as the store does. *)
LEMMA SameCardinality == ASSUME NEW S PROVE Board!Cardinality(S) = Cardinality(S)
  BY DEF Board!Cardinality, Cardinality

LEMMA RecountAddsDelta ==
  ASSUME TypeOK, NEW u \in User, NEW i \in Id, NEW v \in {1, -1}, votes[u][i] # v,
         NEW x \in {1, -1}
  PROVE  Board!Recount(u, i, v, x) = Cardinality(Voters(i, x)) + Delta(x, votes[u][i], v)
<1>1. {w \in User : IF w = u THEN v = x ELSE votes[w][i] = x} =
      {w \in User : (IF w = u THEN v ELSE votes[w][i]) = x}
  OBVIOUS
<1>2. Board!Recount(u, i, v, x) =
        Cardinality({w \in User : IF w = u THEN v = x ELSE votes[w][i] = x})
  BY SameCardinality DEF Board!Recount
<1>3. Cardinality({w \in User : (IF w = u THEN v ELSE votes[w][i]) = x}) =
        Cardinality(Voters(i, x)) + Delta(x, votes[u][i], v)
  BY TallyCount
<1>4. QED
  BY <1>1, <1>2, <1>3

LEMMA CastsOnBoard == ASSUME IInv, NEW t \in Tx, Casts(t) PROVE Board!Next
<1> DEFINE i == call[t].target
           u == call[t].user
           v == call[t].vote
<1>1. u \in User /\ i \in Id /\ v \in {1, -1}
  BY Parts, StepTypes DEF Casts, CallOK, Voting
<1>2. seen[t].prior = votes[u][i] /\ votes[u][i] # v /\ comments[i].status = "live"
  <2>1. call[t].op = "vote" /\ pc[t] = "commit"
    BY DEF Casts
  <2>2. SeenOK(t) /\ WriteOK(t)
    BY Parts
  <2>3. seen[t].prior = votes[u][i] /\ votes[u][i] # v
    BY <2>1, <2>2 DEF SeenOK, Balloted
  <2>4. comments[i].status = "live"
    BY <2>1, <2>2 DEF WriteOK
  <2>5. QED
    BY <2>3, <2>4
<1>3. comments[i] \in Row /\ Exists(i)
  BY <1>1, <1>2, Parts DEF TypeOK, Exists
<1>4. /\ comments[i].up = Cardinality(Voters(i, 1))
      /\ comments[i].down = Cardinality(Voters(i, -1))
  BY <1>1, <1>3 DEF IInv, StoreInv, CountersMatch
<1>5. /\ Board!Recount(u, i, v, 1) = Cardinality(Voters(i, 1)) + Delta(1, votes[u][i], v)
      /\ Board!Recount(u, i, v, -1) = Cardinality(Voters(i, -1)) + Delta(-1, votes[u][i], v)
  <2>1. TypeOK /\ u \in User /\ i \in Id /\ v \in {1, -1} /\ votes[u][i] # v
    BY <1>1, <1>2, Parts
  <2> HIDE DEF i, u, v
  <2>2. QED
    BY <2>1, RecountAddsDelta
<1>6. Tallied(comments[i], seen[t].prior, v) =
        [comments[i] EXCEPT !.up = Board!Recount(u, i, v, 1), !.down = Board!Recount(u, i, v, -1)]
  BY <1>2, <1>3, <1>4, <1>5 DEF Tallied, Row
<1>7. comments' = [comments EXCEPT ![i] =
        [comments[i] EXCEPT !.up = Board!Recount(u, i, v, 1), !.down = Board!Recount(u, i, v, -1)]]
  BY <1>1, <1>6, Parts DEF Casts, TypeOK
<1>8. comments' = [comments EXCEPT ![i].up   = Board!Recount(u, i, v, 1),
                                   ![i].down = Board!Recount(u, i, v, -1)]
  BY <1>1, <1>3, <1>7, Parts DEF TypeOK, Row
<1>9. Board!Cast(u)
  BY <1>1, <1>2, <1>8 DEF Casts, Board!Cast, Board!Live, Id, Board!Id
<1>10. QED
  BY <1>1, <1>9 DEF Board!Next

(* Whatever the transactions of the clients do at once, the tables change   *)
(* only as the documented contract of one call, executed alone, changes    *)
(* them; in particular counters kept by deltas agree with a recount.       *)
THEOREM Implements == Spec => Atomic
<1>1. Init => Board!Init
  BY DEF Init, Board!Init, Absent, Board!Absent, Id, Board!Id
<1>2. IInv /\ [Next]_vars => [Board!Next]_(Board!boardVars)
  <2> SUFFICES ASSUME IInv, [Next]_vars PROVE [Board!Next]_(Board!boardVars)
    OBVIOUS
  <2>1. ASSUME NEW t \in Tx, Changes(t) PROVE Board!Next
    BY <2>1, AddsOnBoard, ErasesOnBoard, BuriesOnBoard, RewritesOnBoard, CastsOnBoard DEF Changes
  <2>2. CASE UNCHANGED store
    BY <2>2 DEF store, Board!boardVars
  <2>3. QED
    BY <2>1, <2>2, StoreEffect
<1>3. QED
  BY <1>1, <1>2, StoreSafe, PTL DEF Spec, Atomic, Board!Spec

-----------------------------------------------------------------------------
(* Who waits for whom *)

(* A transaction that holds a row lock is past its first statement. *)
LEMMA Holder ==
  ASSUME IInv, NEW s \in Tx, lock[s] # "none"
  PROVE  \/ InReply(s) /\ lock[s] = "key_share"
         \/ InDelete(s) /\ lock[s] = "update"
         \/ pc[s] = "tally" /\ lock[s] = "key_share"
         \/ pc[s] = "commit" /\ lock[s] = "no_key_update"
<1>1. LockOK(s)
  BY Parts
<1>2. InReply(s) \/ InDelete(s) \/ Balloted(s)
  BY <1>1 DEF LockOK
<1>3. CASE Balloted(s)
  BY <1>1, <1>3 DEF LockOK, Balloted
<1>4. QED
  BY <1>1, <1>2, <1>3 DEF LockOK

LEMMA WriterCommits == ASSUME IInv, NEW s \in Tx, write[s].id # 0 PROVE pc[s] = "commit"
<1>1. write[s] # NoWrite
  BY DEF NoWrite
<1>2. QED
  BY <1>1, Parts DEF WriteOK

LEMMA VoterBallots ==
  ASSUME IInv, NEW s \in Tx, ballot[s] # 0
  PROVE  Balloted(s) /\ pc[s] \in {"tally", "commit"}
  BY Parts DEF WriteOK, Balloted

(* Whoever is waited for by mode m on its row. *)
LEMMA BlockerHolds ==
  ASSUME IInv, NEW t \in Tx, NEW m \in {"key_share", "no_key_update", "update"},
         NEW s \in Blockers(t, call[t].target, m)
  PROVE  /\ s \in Tx /\ s # t /\ call[s].target = call[t].target
         /\ lock[s] # "none" /\ Conflicts(m, lock[s])
         /\ PairInv(t, s)
         /\ pc[s] \in {"insert", "probe", "delete", "bury", "tally", "commit"}
         /\ m = "key_share" => pc[s] \in {"probe", "delete", "bury", "commit"}
         /\ m = "no_key_update" => pc[s] \in {"probe", "delete", "bury", "commit"}
<1>1. s \in Tx /\ s # t /\ call[s].target = call[t].target /\ Conflicts(m, lock[s])
  BY DEF Blockers
<1>2. lock[s] # "none"
  BY <1>1 DEF Conflicts
<1>3. PairInv(t, s)
  BY <1>1 DEF IInv
<1>4. pc[s] \in {"insert", "probe", "delete", "bury", "tally", "commit"}
  BY <1>1, <1>2, Holder DEF InReply, InDelete
<1>5. m \in {"key_share", "no_key_update"} => pc[s] \in {"probe", "delete", "bury", "commit"}
  BY <1>1, <1>2, Holder DEF InDelete, Conflicts
<1>6. QED
  BY <1>1, <1>2, <1>3, <1>4, <1>5

(* An insert waits for commits alone: the lock on its parent keeps deletes  *)
(* away, and a root has no parent.                                         *)
LEMMA InsertWaits ==
  ASSUME IInv, NEW t \in Tx, pc[t] = "insert", NEW s \in WaitsFor(t)
  PROVE  pc[s] = "commit" /\ s \in Tx
<1>1. s \in UniqueWaits(t) \cup Blockers(t, call[t].target, FKLock)
  BY DEF WaitsFor
<1>2. CASE s \in UniqueWaits(t)
  BY <1>2, WriterCommits DEF UniqueWaits, Id
<1>3. CASE s \in Blockers(t, call[t].target, FKLock)
  <2>1. /\ s \in Tx /\ s # t /\ call[s].target = call[t].target /\ lock[s] # "none"
        /\ Conflicts("key_share", lock[s]) /\ PairInv(t, s)
    BY <1>3, BlockerHolds DEF FKLock
  <2>2. lock[t] # "key_share"
    BY <2>1 DEF PairInv
  <2>3. call[t].op = "root"
    BY <2>2, Parts DEF LockOK, InReply, CallOK, OpsOfStep
  <2>4. call[s].target = 0
    BY <2>1, <2>3, Parts, CallTypes DEF CallOK
  <2>5. call[s] = NoCall \/ call[s].op = "root"
    BY <2>1, <2>4, Parts, CallTypes DEF CallOK, Id
  <2>6. QED
    BY <2>1, <2>5, Holder, Parts DEF InReply, InDelete, CallOK, OpsOfStep, NoCall
<1>4. QED
  BY <1>1, <1>2, <1>3

(* A delete waits only for a changed vote, which then waits for it. *)
LEMMA DeleteWaits ==
  ASSUME IInv, NEW t \in Tx, pc[t] = "delete", NEW s \in WaitsFor(t)
  PROVE  s \in Tx /\ VoteAgainstDelete(s, t) /\ t \in WaitsFor(s)
<1>1. call[t].op = "delete" /\ lock[t] = "update"
  BY Parts DEF CallOK, OpsOfStep, LockOK, InDelete
<1>2. s \in Blockers(t, call[t].target, DeleteRowLock) \cup VoteRowWaits(t)
  BY DEF WaitsFor
<1>3. s \notin Blockers(t, call[t].target, DeleteRowLock)
  <2> SUFFICES ASSUME s \in Blockers(t, call[t].target, DeleteRowLock) PROVE FALSE
    OBVIOUS
  <2>1. PairInv(t, s) /\ call[s].target = call[t].target /\ lock[s] # "none"
    BY BlockerHolds DEF DeleteRowLock
  <2>2. QED
    BY <1>1, <2>1 DEF PairInv, Conflicts
<1>4. /\ s \in Tx /\ s # t /\ call[s].target = call[t].target /\ ballot[s] # 0
      /\ votes[call[s].user][call[s].target] # 0
  BY <1>2, <1>3 DEF VoteRowWaits
<1>5. ~Conflicts(lock[t], lock[s])
  BY <1>4 DEF IInv, PairInv
<1>6. lock[s] = "none" /\ pc[s] = "tally"
  <2>1. Balloted(s) /\ pc[s] \in {"tally", "commit"}
    BY <1>4, VoterBallots
  <2>2. lock[s] = "none"
    BY <1>1, <1>5 DEF Conflicts
  <2>3. QED
    BY <1>4, <2>1, <2>2, Parts DEF LockOK, Balloted
<1>7. t \in WaitsFor(s)
  <2>1. t \in Blockers(s, call[s].target, UpdateRowLock)
    BY <1>1, <1>4 DEF Blockers, UpdateRowLock, Conflicts
  <2>2. QED
    BY <1>6, <2>1 DEF WaitsFor
<1>8. QED
  BY <1>4, <1>6, <1>7 DEF VoteAgainstDelete

(* The lock a soft delete needs is weaker than the one it has. *)
LEMMA BuryGranted == ASSUME IInv, NEW t \in Tx, pc[t] = "bury" PROVE WaitsFor(t) = {}
<1> SUFFICES ASSUME NEW s \in Blockers(t, call[t].target, UpdateRowLock) PROVE FALSE
  BY DEF WaitsFor
<1>1. lock[t] = "update"
  BY Parts DEF LockOK, InDelete, CallOK, OpsOfStep
<1>2. PairInv(t, s) /\ call[s].target = call[t].target /\ lock[s] # "none"
  BY BlockerHolds DEF UpdateRowLock
<1>3. QED
  BY <1>1, <1>2 DEF PairInv, Conflicts

(* A tally waits for a deletion or a commit on its comment; and when that   *)
(* deletion has to wait as well, it is for this tally.                     *)
LEMMA TallyWaits ==
  ASSUME IInv, NEW t \in Tx, pc[t] = "tally", NEW s \in WaitsFor(t)
  PROVE  /\ s \in Tx /\ pc[s] \in {"probe", "delete", "bury", "commit"}
         /\ pc[s] = "delete" /\ WaitsFor(s) # {} => VoteAgainstDelete(t, s) /\ t \in WaitsFor(s)
<1>1. s \in Blockers(t, call[t].target, UpdateRowLock)
  BY DEF WaitsFor
<1>2. /\ s \in Tx /\ s # t /\ call[s].target = call[t].target /\ lock[s] # "none"
      /\ PairInv(t, s) /\ pc[s] \in {"probe", "delete", "bury", "commit"}
  BY <1>1, BlockerHolds DEF UpdateRowLock
<1>3. ASSUME pc[s] = "delete", WaitsFor(s) # {}
      PROVE  VoteAgainstDelete(t, s) /\ t \in WaitsFor(s)
  <2>1. lock[s] = "update"
    BY <1>2, <1>3, Parts DEF LockOK, InDelete, CallOK, OpsOfStep
  <2>2. lock[t] = "none"
    BY <1>2, <2>1 DEF PairInv, Conflicts
  <2>3. votes[call[t].user][call[t].target] # 0 /\ ballot[t] # 0
    <3>1. LockOK(t) /\ WriteOK(t) /\ call[t].op = "vote"
      BY Parts DEF CallOK, OpsOfStep
    <3>2. call[t].vote \in {1, -1}
      BY <3>1, Parts DEF CallOK, Voting
    <3>3. QED
      BY <2>2, <3>1, <3>2 DEF LockOK, WriteOK, Balloted
  <2>4. WaitsFor(s) = Blockers(s, call[s].target, DeleteRowLock) \cup VoteRowWaits(s)
    BY <1>3 DEF WaitsFor
  <2>5. t \in WaitsFor(s)
    BY <1>2, <2>3, <2>4 DEF VoteRowWaits
  <2>6. QED
    BY <1>2, <1>3, <2>2, <2>5 DEF VoteAgainstDelete
<1>4. QED
  BY <1>2, <1>3

LEMMA UpsertWaits ==
  ASSUME IInv, NEW t \in Tx, pc[t] = "upsert", NEW s \in WaitsFor(t)
  PROVE  s \in Tx /\ pc[s] \in {"probe", "delete", "bury", "commit"}
<1>1. s \in Blockers(t, call[t].target, FKLock) \/ s \in CascadeWaits(t)
  BY DEF WaitsFor
<1>2. CASE s \in Blockers(t, call[t].target, FKLock)
  BY <1>2, BlockerHolds DEF FKLock
<1>3. CASE s \in CascadeWaits(t)
  <2>1. s \in Tx /\ write[s].id = call[t].target
    BY <1>3 DEF CascadeWaits
  <2>2. call[t].target # 0
    BY Parts, CallTypes DEF CallOK, OpsOfStep, Id
  <2>3. QED
    BY <2>1, <2>2, WriterCommits
<1>4. QED
  BY <1>1, <1>2, <1>3

(* Nobody waits for a transaction that has taken nothing yet. *)
Taking == {"insert", "prior", "upsert", "tally", "probe", "delete", "bury", "commit"}
LEMMA WaitedFor ==
  ASSUME IInv, NEW t \in Tx, NEW s \in WaitsFor(t)
  PROVE  s \in Tx /\ s # t /\ pc[s] \in Taking
<1>1. CASE \E m \in {"key_share", "no_key_update", "update"} : s \in Blockers(t, call[t].target, m)
  BY <1>1, BlockerHolds DEF Taking
<1>2. CASE s \in UniqueWaits(t)
  BY <1>2, WriterCommits DEF UniqueWaits, Id, Taking
<1>3. CASE s \in AdvisoryWaits(t)
  BY <1>3 DEF AdvisoryWaits, HoldsAdvisory, Taking
<1>4. CASE s \in VoteRowWaits(t)
  BY <1>4, VoterBallots DEF VoteRowWaits, Taking
<1>5. CASE pc[t] = "upsert" /\ s \in CascadeWaits(t)
  <2>1. s \in Tx /\ pc[s] \in {"probe", "delete", "bury", "commit"}
    <3>1. s \in Tx /\ write[s].id = call[t].target
      BY <1>5 DEF CascadeWaits
    <3>2. call[t].target # 0
      BY <1>5, Parts, CallTypes DEF CallOK, OpsOfStep, Id
    <3>3. QED
      BY <3>1, <3>2, WriterCommits
  <2>2. QED
    BY <1>5, <2>1 DEF Taking
<1>6. QED
  BY <1>1, <1>2, <1>3, <1>4, <1>5 DEF WaitsFor, ReplyParentLock, FKLock, LeafDeleteLock,
     DeleteRowLock, UpdateRowLock, EditLock

(* A set that holds those t waits for, is closed under waiting and leaves t *)
(* out shows that t is not deadlocked.                                     *)
LEMMA NotDeadlocked ==
  ASSUME NEW t \in Tx, NEW S \in SUBSET Tx, WaitsFor(t) \subseteq S,
         \A s \in S : WaitsFor(s) \subseteq S, t \notin S
  PROVE  ~Deadlocked(t)
  BY DEF Deadlocked

LEMMA DeadlockKnown ==
  ASSUME IInv, NEW t \in Tx, Deadlocked(t)
  PROVE  \E s \in WaitsFor(t) :
           t \in WaitsFor(s) /\ (VoteAgainstDelete(s, t) \/ VoteAgainstDelete(t, s))
<1> DEFINE Late == {s \in Tx : pc[s] \in {"tally", "probe", "delete", "bury", "commit"}}
<1>1. \A s \in Tx : pc[s] \in {"probe", "commit"} => WaitsFor(s) = {}
  BY DEF WaitsFor
<1>2. \A s \in Late : WaitsFor(s) \subseteq Late
  <2> SUFFICES ASSUME NEW s \in Late, NEW x \in WaitsFor(s) PROVE x \in Late
    OBVIOUS
  <2>1. CASE pc[s] = "tally"
    BY <2>1, TallyWaits
  <2>2. CASE pc[s] = "delete"
    BY <2>2, DeleteWaits DEF VoteAgainstDelete
  <2>3. QED
    BY <1>1, <2>1, <2>2, BuryGranted
<1>3. CASE pc[t] \notin Taking
  <2>1. \A s \in Tx : WaitsFor(s) \subseteq Tx \ {t}
    BY <1>3, WaitedFor
  <2>2. QED
    BY <2>1, NotDeadlocked
<1>4. CASE pc[t] \in {"prior", "upsert"}
  <2>1. WaitsFor(t) \subseteq Late
    BY <1>4, UpsertWaits DEF WaitsFor
  <2>2. t \notin Late /\ Late \in SUBSET Tx
    BY <1>4
  <2>3. QED
    BY ONLY <1>2, <2>1, <2>2, NotDeadlocked, Deadlocked(t), t \in Tx
<1>5. CASE pc[t] = "insert"
  <2> DEFINE S == {s \in Tx : pc[s] = "commit"}
  <2>1. WaitsFor(t) \subseteq S /\ t \notin S /\ S \in SUBSET Tx
    BY <1>5, InsertWaits
  <2>2. \A s \in S : WaitsFor(s) \subseteq S
    BY <1>1
  <2>3. QED
    BY ONLY <2>1, <2>2, NotDeadlocked, Deadlocked(t), t \in Tx
<1>6. CASE pc[t] \in {"probe", "bury", "commit"}
  BY <1>1, <1>6, BuryGranted, NotDeadlocked
<1>7. CASE pc[t] = "delete"
  <2>1. PICK s \in WaitsFor(t) : TRUE
    <3>1. WaitsFor(t) # {}
      BY NotDeadlocked
    <3>2. QED
      BY <3>1
  <2>2. QED
    BY <1>7, <2>1, DeleteWaits
<1>8. CASE pc[t] = "tally"
  <2>1. CASE \E s \in WaitsFor(t) : pc[s] = "delete" /\ WaitsFor(s) # {}
    BY <1>8, <2>1, TallyWaits
  <2>2. CASE \A s \in WaitsFor(t) : ~(pc[s] = "delete" /\ WaitsFor(s) # {})
    <3>1. \A s \in WaitsFor(t) : s \in Tx /\ s # t /\ WaitsFor(s) = {}
      BY <1>1, <1>8, <2>2, TallyWaits, BuryGranted, WaitedFor
    <3>2. WaitsFor(t) \in SUBSET Tx /\ t \notin WaitsFor(t)
      BY <3>1
    <3>3. \A s \in WaitsFor(t) : WaitsFor(s) \subseteq WaitsFor(t)
      BY <3>1
    <3>4. QED
      BY ONLY <3>2, <3>3, NotDeadlocked, Deadlocked(t), t \in Tx
  <2>3. QED
    BY <2>1, <2>2
<1>9. QED
  BY <1>3, <1>4, <1>5, <1>6, <1>7, <1>8 DEF Taking

(* The calls of the store block one another for good in one way only: a     *)
(* voter who changes a vote and the author who removes the comment.        *)
THEOREM OneDeadlock == Spec => []OnlyKnownDeadlock
<1>1. IInv => OnlyKnownDeadlock
  BY DeadlockKnown DEF OnlyKnownDeadlock
<1>2. QED
  BY <1>1, StoreSafe, PTL

-----------------------------------------------------------------------------
(* What the client is told *)

LEMMA OneMoves ==
  ASSUME IInv, NEW t \in Tx, Begin(t) \/ Work(t) \/ ConnectionLost(t) \/ DeadlockAbort(t)
  PROVE  OthersStay(t)
<1>1. TypeOK
  BY DEF IInv
<1>2. ASSUME NEW kind, Close(t, kind) PROVE OthersStay(t)
  BY <1>1, <1>2, CloseEffect
<1>3. ASSUME NEW kind, Rollback(t, kind) PROVE OthersStay(t)
  BY <1>2, <1>3 DEF Rollback
<1>4. CASE ConnectionLost(t) \/ DeadlockAbort(t)
  BY <1>3, <1>4 DEF ConnectionLost, DeadlockAbort
<1>5. CASE Begin(t)
  BY <1>1, <1>5 DEF Begin, Goto, TypeOK, OthersStay
<1>6. CASE Work(t)
  <2>1. CASE CountRoots(t)
    BY <1>1, <1>3, <2>1 DEF CountRoots, Goto, TypeOK, OthersStay
  <2>2. CASE LockParent(t)
    BY <1>1, <1>3, <2>2 DEF LockParent, Goto, Take, TypeOK, OthersStay
  <2>3. CASE Insert(t)
    BY <1>1, <1>3, <2>3 DEF Insert, Goto, Take, TypeOK, OthersStay
  <2>4. CASE LockTarget(t)
    BY <1>1, <1>3, <2>4 DEF LockTarget, Goto, Take, TypeOK, OthersStay
  <2>5. CASE Probe(t)
    BY <1>1, <2>5 DEF Probe, Goto, TypeOK, OthersStay
  <2>6. CASE DeleteLeaf(t)
    BY <1>1, <1>3, <2>6 DEF DeleteLeaf, Goto, Take, TypeOK, OthersStay
  <2>7. CASE SoftDelete(t)
    BY <1>1, <1>3, <2>7 DEF SoftDelete, Goto, Take, TypeOK, OthersStay
  <2>8. CASE UpdateComment(t)
    BY <1>2, <1>3, <2>8 DEF UpdateComment
  <2>9. CASE TakeAdvisory(t) \/ ReadPrior(t)
    BY <1>1, <1>3, <2>9 DEF TakeAdvisory, ReadPrior, Goto, TypeOK, OthersStay
  <2>10. CASE Upsert(t)
    BY <1>1, <1>3, <2>10 DEF Upsert, Goto, Take, TypeOK, OthersStay
  <2>11. CASE Tally(t)
    BY <1>1, <1>3, <2>11 DEF Tally, Goto, Take, TypeOK, OthersStay
  <2>12. CASE Commit(t)
    BY <1>2, <2>12 DEF Commit
  <2>13. QED
    BY <1>6, <2>1, <2>2, <2>3, <2>4, <2>5, <2>6, <2>7, <2>8, <2>9, <2>10, <2>11, <2>12 DEF Work
<1>7. QED
  BY <1>4, <1>5, <1>6

(* A delete that commits without a write found its comment deleted already. *)
DeletedBefore ==
  \A t \in Tx : call[t].op = "delete" /\ pc[t] = "commit" /\ write[t] = NoWrite =>
    comments[call[t].target].status = "deleted"

LEMMA DeleteTarget ==
  ASSUME IInv, NEW t \in Tx, call[t].op = "delete" PROVE call[t].target \in Id
<1>1. call[t] # NoCall
  BY DEF NoCall
<1>2. QED
  BY <1>1, Parts, CallTypes DEF CallOK

LEMMA DeletedBeforeStep == ASSUME IInv, DeletedBefore, [Next]_vars PROVE DeletedBefore'
<1> SUFFICES ASSUME NEW t \in Tx,
                    call'[t].op = "delete", pc'[t] = "commit", write'[t] = NoWrite
             PROVE  comments'[call'[t].target].status = "deleted"
  BY DEF DeletedBefore
<1>1. CASE pc'[t] = pc[t] /\ call'[t] = call[t] /\ write'[t] = write[t]
  <2>1. comments[call[t].target].status = "deleted" /\ call[t].target \in Id
    BY <1>1, DeleteTarget DEF DeletedBefore
  <2>2. QED
    BY <1>1, <2>1, BuriedStep
<1>2. CASE UNCHANGED vars
  BY <1>1, <1>2 DEF vars
<1>3. ASSUME NEW s \in Tx, s # t, Begin(s) \/ Work(s) \/ ConnectionLost(s) \/ DeadlockAbort(s)
      PROVE  comments'[call'[t].target].status = "deleted"
  BY <1>1, <1>3, OneMoves DEF OthersStay
<1>4. pc \in [Tx -> Steps] /\ call \in [Tx -> Calls \cup {NoCall}]
      /\ write \in [Tx -> [id : 0..MaxId, row : Row]]
  BY DEF IInv, TypeOK
<1>5. ASSUME NEW kind, Close(t, kind) PROVE FALSE
  BY <1>4, <1>5 DEF Close
<1>6. ASSUME Begin(t) PROVE FALSE
  BY <1>4, <1>6 DEF Begin, Goto, FirstStep, Calls
<1>7. ASSUME ConnectionLost(t) \/ DeadlockAbort(t) PROVE FALSE
  BY <1>5, <1>7 DEF ConnectionLost, DeadlockAbort, Rollback
<1>8. ASSUME CountRoots(t) \/ LockParent(t) \/ LockTarget(t) \/ Probe(t) \/ TakeAdvisory(t)
             \/ ReadPrior(t) \/ Upsert(t) \/ UpdateComment(t) \/ Commit(t)
      PROVE  FALSE
  <2>1. \A step \in Steps : Goto(t, step) => pc'[t] = step
    BY <1>4 DEF Goto
  <2>2. {"insert", "probe", "delete", "prior", "upsert", "tally"} \subseteq Steps
    BY DEF Steps
  <2>3. QED
    BY <1>5, <1>8, <2>1, <2>2 DEF CountRoots, LockParent, LockTarget, Probe, TakeAdvisory,
       ReadPrior, Upsert, UpdateComment, Commit, Rollback
<1>9. ASSUME Insert(t) \/ Tally(t) PROVE FALSE
  <2>1. call'[t] = call[t]
    BY <1>5, <1>9 DEF Insert, Tally, Rollback
  <2>2. call[t].op # "delete"
    BY <1>9, Parts DEF Insert, Tally, At, CallOK, OpsOfStep
  <2>3. QED
    BY <2>1, <2>2
<1>10. ASSUME SoftDelete(t) PROVE FALSE
  <2>1. call'[t] = call[t] /\ write'[t].id = call[t].target
    BY <1>4, <1>5, <1>10 DEF SoftDelete, Rollback
  <2>2. QED
    BY <2>1, DeleteTarget DEF NoWrite, Id
<1>11. ASSUME DeleteLeaf(t) PROVE comments'[call'[t].target].status = "deleted"
  <2> DEFINE i == call[t].target
             verdict == DeleteVerdict(seen[t].row, seen[t].kids, call[t])
  <2>1. call'[t] = call[t] /\ comments' = comments
    BY <1>5, <1>11 DEF DeleteLeaf, Rollback
  <2>2. seen[t].row = comments[i] /\ i \in Id
    <3>1. InDelete(t)
      BY <1>11, Parts DEF DeleteLeaf, At, CallOK, OpsOfStep, InDelete
    <3>2. QED
      BY <3>1, Parts, DeleteTarget DEF SeenOK, InDelete
  <2>3. ~Erasable(t)
    <3> SUFFICES ASSUME Erasable(t) PROVE FALSE
      OBVIOUS
    <3>1. write'[t].id = i
      BY <1>4, <1>11 DEF DeleteLeaf
    <3>2. QED
      BY <2>2, <3>1 DEF NoWrite, Id
  <2>4. verdict = "ok"
    <3>1. verdict \in {"ok", "bury"}
      BY <1>5, <1>11, <2>3 DEF DeleteLeaf, Rollback
    <3>2. verdict = "bury" => pc'[t] = "bury"
      BY <1>4, <1>11, <2>3 DEF DeleteLeaf, Goto
    <3>3. QED
      BY <3>1, <3>2
  <2>5. seen[t].row.status = "deleted"
    BY <2>4 DEF DeleteVerdict
  <2>6. QED
    BY <2>1, <2>2, <2>5
<1>12. QED
  BY <1>2, <1>3, <1>6, <1>7, <1>8, <1>9, <1>10, <1>11 DEF Next, Work

LEMMA DeletedBeforeSafe == Spec => []DeletedBefore
<1>1. Init => DeletedBefore
  BY DEF Init, DeletedBefore
<1>2. QED
  BY <1>1, DeletedBeforeStep, StoreSafe, PTL DEF Spec

(* The answer of t is true of the tables. *)
Honest(t) ==
  LET status == Answer(call[t].op, result'[t])
  IN /\ status < 300 => Done(t)
     /\ status \in 400..499 => UNCHANGED store /\ Reason(t, status)

LEMMA Refusal ==
  ASSUME IInv, NEW t \in Tx, call[t].op \in OpName, NEW kind \in Kinds, kind # "ok",
         Rollback(t, kind),
         opKindToHTTPStatus(kind) # 500 => Reason(t, opKindToHTTPStatus(kind))
  PROVE  Honest(t)
<1> DEFINE status == opKindToHTTPStatus(kind)
<1>1. result'[t] = kind
  BY CloseEffect DEF IInv, Rollback
<1>2. Answer(call[t].op, kind) = status
  BY DEF Answer, createComment, updateComment, deleteComment, OpName
<1>3. status \in {404, 400, 410, 409, 403, 422, 500}
  BY DEF opKindToHTTPStatus
<1>4. UNCHANGED store
  BY DEF Rollback
<1> HIDE DEF status
<1>5. status # 500 => Reason(t, status)
  BY DEF status
<1>6. QED
  BY <1>1, <1>2, <1>3, <1>4, <1>5 DEF Honest

LEMMA Statuses ==
  /\ opKindToHTTPStatus("not_found") = 404 /\ opKindToHTTPStatus("relation") = 400
  /\ opKindToHTTPStatus("invalid") = 400 /\ opKindToHTTPStatus("deleted") = 410
  /\ opKindToHTTPStatus("conflict") = 409 /\ opKindToHTTPStatus("permission") = 403
  /\ opKindToHTTPStatus("constraint") = 422 /\ opKindToHTTPStatus("corrupted") = 500
  /\ opKindToHTTPStatus("internal") = 500
  BY DEF opKindToHTTPStatus

LEMMA Reasons ==
  ASSUME NEW t
  PROVE  LET c == call[t]
             r == comments[c.target]
         IN /\ ~Exists(c.target) => Reason(t, 404)
            /\ r.status = "deleted" => Reason(t, 410)
            /\ Exists(c.target) /\ r.user # c.user => Reason(t, 403)
            /\ c.post \notin Post \/ (c.target # 0 /\ r.post # c.post) => Reason(t, 400)
            /\ (\E i \in Id : Rival(t, comments[i])) => Reason(t, 409)
            /\ c.op # "root" /\ r.user = c.user => Reason(t, 422)
  BY DEF Reason, Exists

LEMMA InternalHonest ==
  ASSUME IInv, NEW t \in Tx, call[t].op \in OpName, Close(t, "internal")
  PROVE  Honest(t)
<1>1. result'[t] = "internal"
  BY CloseEffect DEF IInv
<1>2. Answer(call[t].op, "internal") = 500
  BY DEF Answer, createComment, updateComment, deleteComment, opKindToHTTPStatus, OpName
<1>3. QED
  BY <1>1, <1>2 DEF Honest

LEMMA SuccessHonest ==
  ASSUME IInv, NEW t \in Tx, call[t].op \in OpName, Close(t, "ok"), Done(t)
  PROVE  Honest(t)
<1>1. result'[t] = "ok"
  BY CloseEffect DEF IInv
<1>2. Answer(call[t].op, "ok") \in {200, 204}
  BY DEF Answer, createComment, updateComment, deleteComment, OpName
<1>3. QED
  BY <1>1, <1>2 DEF Honest

LEMMA Underway ==
  ASSUME IInv, NEW t \in Tx, pc[t] # "idle"
  PROVE  call[t] \in Calls /\ call[t].op \in OpName /\ call[t].op \in OpsOfStep(pc[t])
  BY Parts, CallTypes DEF CallOK

LEMMA CountRootsHonest ==
  ASSUME IInv, NEW t \in Tx, CountRoots(t), pc'[t] = "idle" PROVE Honest(t)
<1>1. pc[t] = "count_roots" /\ pc \in [Tx -> Steps]
  BY Parts DEF CountRoots, At, TypeOK
<1>2. /\ RootCount(call[t].user, call[t].post) >= CommentMaxRootCountPerUser
      /\ Rollback(t, "constraint")
  BY <1>1 DEF CountRoots, Goto
<1>3. call[t].op = "root" /\ call[t].op \in OpName
  BY <1>1, Underway DEF OpsOfStep
<1>4. opKindToHTTPStatus("constraint") = 422
  BY DEF opKindToHTTPStatus
<1>5. Reason(t, 422)
  BY <1>2, <1>3 DEF Reason
<1>6. QED
  BY <1>2, <1>3, <1>4, <1>5, Refusal DEF Kinds

LEMMA LockParentHonest ==
  ASSUME IInv, NEW t \in Tx, LockParent(t), pc'[t] = "idle" PROVE Honest(t)
<1> DEFINE i == call[t].target
           verdict == ParentVerdict(comments[i], call[t])
<1>1. pc[t] = "lock_parent" /\ pc \in [Tx -> Steps]
  BY Parts DEF LockParent, At, TypeOK
<1>2. verdict # "ok" /\ Rollback(t, verdict)
  BY <1>1 DEF LockParent, Goto
<1>3. call[t].op = "reply" /\ call[t].op \in OpName /\ i \in Id
  BY <1>1, Underway, CallTypes DEF OpsOfStep
<1>4. verdict \in Kinds
  BY VerdictTypes
<1>5. CASE verdict = "constraint" /\ comments[i].user # call[t].user
  <2>1. Exists(i) /\ comments[i].depth + 1 >= CommentMaxNestingDepth
    BY <1>5 DEF ParentVerdict, Exists
  <2>2. WellPlaced(i)
    BY <1>3, <2>1 DEF IInv, StoreInv, TreeOK
  <2>3. comments[i].depth < CommentMaxNestingDepth /\ comments[i].depth \in Nat
    BY <1>3, <2>2, Parts DEF WellPlaced, TypeOK, Row
  <2>4. comments[i].depth + 1 = CommentMaxNestingDepth
    BY <2>1, <2>3, StoreAssumption
  <2>5. Reason(t, 422)
    BY <1>3, <2>4 DEF Reason
  <2>6. QED
    BY <1>2, <1>3, <1>4, <1>5, <2>5, Refusal DEF opKindToHTTPStatus
<1>6. CASE ~(verdict = "constraint" /\ comments[i].user # call[t].user)
  <2>1. i # 0
    BY <1>3 DEF Id
  <2>2. \/ verdict = "not_found" /\ ~Exists(i)
        \/ verdict = "relation" /\ comments[i].post # call[t].post
        \/ verdict = "deleted" /\ comments[i].status = "deleted"
        \/ verdict = "constraint" /\ comments[i].user = call[t].user
    BY <1>2, <1>6 DEF ParentVerdict, Exists
  <2>3. opKindToHTTPStatus(verdict) # 500 => Reason(t, opKindToHTTPStatus(verdict))
    BY <1>3, <2>1, <2>2, Statuses, Reasons
  <2>4. QED
    BY <1>2, <1>3, <1>4, <2>3, Refusal
<1>7. QED
  BY <1>5, <1>6

LEMMA InsertHonest ==
  ASSUME IInv, NEW t \in Tx, Insert(t), pc'[t] = "idle" PROVE Honest(t)
<1> DEFINE verdict == InsertVerdict(t)
<1>1. pc[t] = "insert" /\ pc \in [Tx -> Steps]
  BY Parts DEF Insert, At, TypeOK
<1>2. verdict # "ok" /\ Rollback(t, verdict)
  BY <1>1 DEF Insert, Goto
<1>3. call[t].op \in {"root", "reply"} /\ call[t].op \in OpName
  BY <1>1, Underway DEF OpsOfStep
<1>4. call[t].op = "reply" => Exists(call[t].target)
  BY <1>1, Parts DEF SeenOK, InReply
<1>5. \/ verdict = "conflict" /\ \E i \in Id : Rival(t, comments[i])
      \/ verdict = "relation" /\ call[t].post \notin Post
  BY <1>2, <1>4 DEF InsertVerdict
<1>6. opKindToHTTPStatus(verdict) # 500 => Reason(t, opKindToHTTPStatus(verdict))
  BY <1>5, Statuses, Reasons
<1>7. QED
  BY <1>2, <1>3, <1>6, InsertVerdictType, Refusal

LEMMA LockTargetHonest ==
  ASSUME IInv, NEW t \in Tx, LockTarget(t), pc'[t] = "idle" PROVE Honest(t)
<1>1. pc[t] = "lock_target" /\ pc \in [Tx -> Steps]
  BY Parts DEF LockTarget, At, TypeOK
<1>2. ~Exists(call[t].target) /\ Rollback(t, "not_found")
  BY <1>1 DEF LockTarget, Goto
<1>3. opKindToHTTPStatus("not_found") # 500 => Reason(t, opKindToHTTPStatus("not_found"))
  BY <1>2 DEF Reason, opKindToHTTPStatus
<1>4. QED
  BY <1>1, <1>2, <1>3, Underway, Refusal DEF Kinds

LEMMA DeleteLeafHonest ==
  ASSUME IInv, NEW t \in Tx, DeleteLeaf(t), pc'[t] = "idle" PROVE Honest(t)
<1> DEFINE i == call[t].target
           verdict == DeleteVerdict(seen[t].row, seen[t].kids, call[t])
<1>1. pc[t] = "delete" /\ pc \in [Tx -> Steps]
  BY Parts DEF DeleteLeaf, At, TypeOK
<1>2. verdict \notin {"ok", "bury"} /\ Rollback(t, verdict)
  BY <1>1 DEF DeleteLeaf, Goto
<1>3. call[t].op = "delete" /\ call[t].op \in OpName /\ i # 0
  BY <1>1, Underway, DeleteTarget DEF OpsOfStep, Id
<1>4. seen[t].row = comments[i] /\ Exists(i)
  BY <1>1, <1>3, Parts DEF SeenOK, InDelete
<1>5. \/ verdict = "permission" /\ comments[i].user # call[t].user
      \/ verdict = "relation" /\ comments[i].post # call[t].post
      \/ verdict = "corrupted"
  BY <1>2, <1>4 DEF DeleteVerdict
<1>6. opKindToHTTPStatus(verdict) # 500 => Reason(t, opKindToHTTPStatus(verdict))
  BY <1>3, <1>4, <1>5, Statuses, Reasons
<1>7. QED
  BY <1>2, <1>3, <1>5, <1>6, Refusal DEF Kinds

LEMMA EditHonest ==
  ASSUME IInv, NEW t \in Tx, UpdateComment(t) PROVE Honest(t)
<1> DEFINE i == call[t].target
           verdict == EditVerdict(comments[i], call[t])
<1>1. call[t].op = "edit" /\ call[t].op \in OpName /\ i \in Id
  BY Underway, CallTypes DEF UpdateComment, At, OpsOfStep
<1>2. CASE verdict # "ok"
  <2>1. Rollback(t, verdict)
    BY <1>2 DEF UpdateComment
  <2>2. i # 0
    BY <1>1 DEF Id
  <2>3. \/ verdict = "not_found" /\ ~Exists(i)
        \/ verdict = "permission" /\ Exists(i) /\ comments[i].user # call[t].user
        \/ verdict = "deleted" /\ comments[i].status = "deleted"
        \/ verdict = "relation" /\ comments[i].post # call[t].post
        \/ verdict = "internal"
    BY <1>2 DEF EditVerdict, Exists
  <2>4. opKindToHTTPStatus(verdict) # 500 => Reason(t, opKindToHTTPStatus(verdict))
    BY <2>2, <2>3, Statuses, Reasons
  <2>5. QED
    BY <1>1, <1>2, <2>1, <2>3, <2>4, Refusal DEF Kinds
<1>3. CASE verdict = "ok"
  <2>1. comments' = [comments EXCEPT ![i].body = call[t].body]
    BY <1>3 DEF UpdateComment
  <2>2. Done(t)
    BY <1>1, <2>1, Parts DEF Done, TypeOK
  <2>3. Close(t, "ok") \/ Close(t, "internal")
    BY <1>3 DEF UpdateComment
  <2>4. QED
    BY <1>1, <2>2, <2>3, SuccessHonest, InternalHonest
<1>4. QED
  BY <1>2, <1>3

LEMMA VoteHonest ==
  ASSUME IInv, NEW t \in Tx, TakeAdvisory(t) \/ Upsert(t) \/ Tally(t), pc'[t] = "idle"
  PROVE  Honest(t)
<1> DEFINE i == call[t].target
           u == call[t].user
<1>1. /\ pc \in [Tx -> Steps] /\ pc[t] \in {"advisory", "upsert", "tally"}
      /\ call[t].op = "vote" /\ call[t].op \in OpName /\ i \in Id /\ u \in User
  <2>1. pc[t] \in {"advisory", "upsert", "tally"}
    BY DEF TakeAdvisory, Upsert, Tally, At
  <2>2. QED
    BY <2>1, Underway, CallTypes, Parts DEF OpsOfStep, TypeOK
<1>2. CASE TakeAdvisory(t)
  <2>1. call[t].vote \notin {1, -1} /\ Rollback(t, "invalid")
    BY <1>1, <1>2 DEF TakeAdvisory, Goto
  <2>2. opKindToHTTPStatus("invalid") # 500 => Reason(t, opKindToHTTPStatus("invalid"))
    BY <1>1, <2>1 DEF Reason, opKindToHTTPStatus
  <2>3. QED
    BY <1>1, <2>1, <2>2, Refusal DEF Kinds
<1>3. CASE Upsert(t)
  <2>1. \/ ~Exists(i) /\ Rollback(t, "relation")
        \/ /\ ~(votes[u][i] = 0 /\ ~Exists(i)) /\ seen[t].prior = call[t].vote
           /\ Rollback(t, "conflict")
    BY <1>1, <1>3 DEF Upsert, Goto
  <2>2. CASE ~Exists(i) /\ Rollback(t, "relation")
    <3>1. opKindToHTTPStatus("relation") # 500 => Reason(t, opKindToHTTPStatus("relation"))
      BY <1>1, <2>2 DEF Reason, opKindToHTTPStatus
    <3>2. QED
      BY <1>1, <2>2, <3>1, Refusal DEF Kinds
  <2>3. CASE /\ ~(votes[u][i] = 0 /\ ~Exists(i)) /\ seen[t].prior = call[t].vote
             /\ Rollback(t, "conflict")
    <3>1. votes[u][i] # 0 => Exists(i)
      BY <1>1 DEF IInv, StoreInv, NoStrayVotes
    <3>2. seen[t].prior = votes[u][i]
      BY <1>3, <2>3, <3>1, Parts DEF SeenOK, Upsert, At
    <3>3. opKindToHTTPStatus("conflict") # 500 => Reason(t, opKindToHTTPStatus("conflict"))
      BY <1>1, <2>3, <3>2 DEF Reason, opKindToHTTPStatus
    <3>4. QED
      BY <1>1, <2>3, <3>3, Refusal DEF Kinds
  <2>4. QED
    BY <2>1, <2>2, <2>3
<1>4. CASE Tally(t)
  <2>1. comments[i].status # "live" /\ Rollback(t, "deleted")
    BY <1>1, <1>4 DEF Tally, Goto, Tallyable
  <2>2. Exists(i)
    BY <1>1, <1>4, Parts DEF SeenOK, Balloted, Tally, At
  <2>3. comments[i].status = "deleted"
    BY <1>1, <2>1, <2>2, Parts DEF TypeOK, Row, Status, Exists
  <2>4. opKindToHTTPStatus("deleted") # 500 => Reason(t, opKindToHTTPStatus("deleted"))
    BY <2>3 DEF Reason, opKindToHTTPStatus
  <2>5. QED
    BY <1>1, <2>1, <2>4, Refusal DEF Kinds
<1>5. QED
  BY <1>2, <1>3, <1>4

LEMMA CommitHonest ==
  ASSUME IInv, DeletedBefore, NEW t \in Tx, Commit(t) PROVE Honest(t)
<1> DEFINE i == call[t].target
<1>1. pc[t] = "commit" /\ call[t].op \in OpName
      /\ call[t].op \in {"root", "reply", "delete", "vote"}
  BY Underway DEF Commit, At, OpsOfStep
<1>2. Close(t, "ok") \/ Close(t, "internal")
  BY DEF Commit
<1>3. comments \in [Id -> Row] /\ votes \in [User -> [Id -> -1..1]]
  BY Parts DEF TypeOK
<1>4. UNCHANGED store \/ Changes(t)
  BY CommitChanges
<1>5. ASSUME call[t].op \in {"root", "reply"} PROVE Done(t)
  <2>1. Adds(t)
    <3>1. write[t].id \in Id
      BY <1>1, <1>5, Parts DEF WriteOK, Inserted
    <3>2. ~Exists(write[t].id)
      BY <1>1, <1>5, Parts DEF WriteOK, Inserted
    <3>3. comments'[write[t].id] = NewRow(t)
      <4>1. write[t].row = NewRow(t)
        BY <1>1, <1>5, Parts DEF WriteOK, Inserted
      <4>2. write[t].row.status # "absent"
        BY <4>1 DEF NewRow
      <4>3. QED
        BY <3>1, <4>1, <4>2 DEF Commit
    <3>4. comments' # comments
      BY <3>2, <3>3 DEF NewRow, Exists
    <3>5. QED
      BY <1>1, <1>4, <1>5, <3>4 DEF store, Changes, Erases, Erasing, Buries, Casts, Rewrites
  <2>2. write[t].id \in Id /\ ~Exists(write[t].id) /\ comments'[write[t].id] = NewRow(t)
    BY <1>3, <2>1, AddedRow DEF Adds
  <2>3. QED
    BY <1>5, <2>2 DEF Done
<1>6. ASSUME call[t].op = "delete" PROVE Done(t)
  <2>1. i \in Id
    BY <1>6, DeleteTarget
  <2>2. comments'[i].status # "live"
    <3>1. CASE write[t] = NoWrite
      <4>1. comments[i].status = "deleted"
        BY <1>1, <1>6, <3>1 DEF DeletedBefore
      <4>2. [Next]_vars
        BY DEF Next, Work
      <4>3. QED
        BY <2>1, <4>1, <4>2, BuriedStep
    <3>2. CASE write[t] # NoWrite
      <4>1. write[t].id = i /\ write[t].row \in {Absent, Buried(comments[i])}
        BY <1>1, <1>6, <3>2, Parts DEF WriteOK
      <4>2. write[t].row.status # "live"
        <5>1. Absent.status = "absent"
          BY DEF Absent
        <5>2. Buried(comments[i]).status = "deleted"
          BY <1>3, <2>1 DEF Buried, Row
        <5>3. QED
          BY <4>1, <5>1, <5>2
      <4>3. comments'[i] \in {Absent, write[t].row}
        BY <2>1, <4>1 DEF Commit
      <4>4. QED
        BY <4>2, <4>3 DEF Absent
    <3>3. QED
      BY <3>1, <3>2
  <2>3. QED
    BY <1>6, <2>2 DEF Done
<1>7. ASSUME call[t].op = "vote" PROVE Done(t)
  <2>1. i \in Id /\ call[t].user \in User
    BY <1>1, <1>7, Underway, CallTypes
  <2>2. /\ write[t] = [id |-> i, row |-> Tallied(comments[i], seen[t].prior, call[t].vote)]
        /\ comments[i].status = "live" /\ ballot[t] = call[t].vote /\ ballot[t] # 0
    <3>1. call[t].vote \in {1, -1}
      BY <1>1, <1>7, Parts DEF CallOK, Voting
    <3>2. QED
      BY <1>1, <1>7, <3>1, Parts DEF WriteOK, Balloted
  <2>3. write[t].row.status = "live"
    BY <1>3, <2>1, <2>2, TalliedFields
  <2>4. votes'[call[t].user][i] = call[t].vote
    BY <2>1, <2>2, <2>3 DEF Commit
  <2>5. QED
    BY <1>7, <2>4 DEF Done
<1>8. QED
  BY <1>1, <1>2, <1>5, <1>6, <1>7, SuccessHonest, InternalHonest

LEMMA AnswerStep ==
  ASSUME IInv, DeletedBefore, [Next]_vars, NEW t \in Tx, pc[t] # "idle", pc'[t] = "idle"
  PROVE  Honest(t)
<1>1. ~UNCHANGED vars
  BY DEF vars
<1>2. PICK s \in Tx : Begin(s) \/ Work(s) \/ ConnectionLost(s) \/ DeadlockAbort(s)
  BY <1>1 DEF Next
<1>3. s = t
  BY <1>2, OneMoves DEF OthersStay
<1>4. call[t].op \in OpName /\ pc \in [Tx -> Steps]
  BY Underway, Parts DEF TypeOK
<1>5. CASE ConnectionLost(t) \/ DeadlockAbort(t)
  BY <1>4, <1>5, InternalHonest DEF ConnectionLost, DeadlockAbort, Rollback
<1>6. ~Begin(t)
  BY DEF Begin, At
<1>7. ~Probe(t) /\ ~ReadPrior(t)
  BY <1>4 DEF Probe, ReadPrior, Goto
<1>8. CASE SoftDelete(t)
  <2>1. Rollback(t, "internal")
    BY <1>4, <1>8 DEF SoftDelete, Goto
  <2>2. QED
    BY <1>4, <2>1, InternalHonest DEF Rollback
<1>9. QED
  BY <1>2, <1>3, <1>5, <1>6, <1>7, <1>8, CountRootsHonest, LockParentHonest, InsertHonest,
     LockTargetHonest, DeleteLeafHonest, EditHonest, VoteHonest, CommitHonest DEF Work

(* What a client is told is true at that moment: success means that what    *)
(* was asked for is in the tables, and a refusal names a fault that the     *)
(* tables show, however long before the deciding row was read.             *)
THEOREM AnswersTrue == Spec => AnswersHonest
<1>1. IInv /\ DeletedBefore /\ [Next]_vars =>
        [\A t \in Tx : pc[t] # "idle" /\ pc'[t] = "idle" =>
           LET status == Answer(call[t].op, result'[t])
           IN /\ status < 300 => Done(t)
              /\ status \in 400..499 => UNCHANGED store /\ Reason(t, status)]_vars
  BY AnswerStep DEF Honest
<1>2. QED
  BY <1>1, StoreSafe, DeletedBeforeSafe, PTL DEF Spec, AnswersHonest
=============================================================================
