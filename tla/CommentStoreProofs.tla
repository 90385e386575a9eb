------------------------- MODULE CommentStoreProofs -------------------------
(***************************************************************************)
(* Proofs about CommentStore for every set of transactions, users, posts   *)
(* and ids and every setting of the limits: types, and IInv is inductive:  *)
(* what the transactions know of the rows they read and locked stays true  *)
(* until they use it, whatever the others do in between.  Most statements  *)
(* only change what one transaction holds and knows (QuietStep); the       *)
(* tables change in Commit and UpdateComment.                              *)
(***************************************************************************)
EXTENDS CommentStoreInv, TLAPS, FiniteSetTheorems

USE StoreAssumption

-----------------------------------------------------------------------------
(* Types *)

(* The constants of the model are values of their types. *)
LEMMA BasicTypes ==
  /\ Absent \in Row
  /\ NothingSeen \in [row : Row, kids : BOOLEAN, prior : -1..1]
  /\ NoWrite \in [id : 0..MaxId, row : Row]
  BY DEF Absent, Row, Status, NothingSeen, NoWrite

LEMMA CallTypes ==
  ASSUME NEW c \in Calls
  PROVE  /\ c.op \in OpName /\ c.user \in User /\ c.target \in 0..MaxId
         /\ c.op # "root" => c.target \in Id
         /\ c.op = "root" => c.target = 0
         /\ c.op # "vote" => c.post \in PostArg
         /\ c.op \in {"root", "reply", "edit"} => c.body \in Body
         /\ c.op = "vote" => c.vote \in VoteArg
  BY DEF Calls, OpName, Id

LEMMA InitType == Init => TypeOK
  BY BasicTypes DEF Init, TypeOK, Id, Steps, LockModes, Kinds

LEMMA CloseType ==
  ASSUME TypeOK, NEW t \in Tx, NEW kind \in Kinds, Close(t, kind)
  PROVE  /\ pc' \in [Tx -> Steps] /\ call' \in [Tx -> Calls \cup {NoCall}]
         /\ lock' \in [Tx -> LockModes]
         /\ seen' \in [Tx -> [row : Row, kids : BOOLEAN, prior : -1..1]]
         /\ write' \in [Tx -> [id : 0..MaxId, row : Row]]
         /\ ballot' \in [Tx -> -1..1] /\ result' \in [Tx -> Kinds]
  BY BasicTypes DEF TypeOK, Close, Steps, LockModes

LEMMA RollbackType ==
  ASSUME TypeOK, NEW t \in Tx, NEW kind \in Kinds, Rollback(t, kind), nextId' \in 1..MaxId + 1
  PROVE  TypeOK'
  BY CloseType DEF TypeOK, Rollback, store

LEMMA TakeType ==
  ASSUME TypeOK, NEW t \in Tx, NEW m \in LockModes, Take(t, m)
  PROVE  lock' \in [Tx -> LockModes]
  BY DEF TypeOK, Take, Raise

LEMMA GotoType ==
  ASSUME TypeOK, NEW t \in Tx, NEW s \in Steps, Goto(t, s)
  PROVE  pc' \in [Tx -> Steps]
  BY DEF TypeOK, Goto

(* What the verdicts of the calls range over. *)
LEMMA VerdictTypes ==
  ASSUME NEW r, NEW c, NEW k
  PROVE  /\ ParentVerdict(r, c) \in Kinds
         /\ DeleteVerdict(r, k, c) \in Kinds \cup {"bury"}
         /\ EditVerdict(r, c) \in Kinds
  BY DEF ParentVerdict, DeleteVerdict, EditVerdict, Kinds

LEMMA InsertVerdictType ==
  ASSUME NEW t PROVE InsertVerdict(t) \in Kinds
  BY DEF InsertVerdict, Kinds

(* The rows the calls write are rows. *)
LEMMA RowTypes ==
  ASSUME NEW r \in Row
  PROVE  /\ Buried(r) \in Row
         /\ \A o, n \in -1..1 : Tallied(r, o, n) \in Row
         /\ \A b \in Body : [r EXCEPT !.body = b] \in Row
<1>1. Buried(r) \in Row
  BY DEF Buried, Row, Status
<1>2. ASSUME NEW o \in -1..1, NEW n \in -1..1 PROVE Tallied(r, o, n) \in Row
  <2>1. \A x : Delta(x, o, n) \in Int
    BY DEF Delta
  <2>2. r.up + Delta(1, o, n) \in Int /\ r.down + Delta(-1, o, n) \in Int
    BY <2>1 DEF Row
  <2>3. QED
    BY <2>2 DEF Tallied, Row
<1>3. ASSUME NEW b \in Body PROVE [r EXCEPT !.body = b] \in Row
  BY DEF Row
<1>4. QED
  BY <1>1, <1>2, <1>3

LEMMA SeenRowType ==
  ASSUME TypeOK, NEW t \in Tx, NEW r \in Row
  PROVE  [seen EXCEPT ![t].row = r] \in [Tx -> [row : Row, kids : BOOLEAN, prior : -1..1]]
<1>1. seen \in [Tx -> [row : Row, kids : BOOLEAN, prior : -1..1]]
  BY DEF TypeOK
<1>2. [seen[t] EXCEPT !.row = r] \in [row : Row, kids : BOOLEAN, prior : -1..1]
  BY <1>1
<1>3. QED
  BY <1>1, <1>2

LEMMA NewRowType ==
  ASSUME TypeOK, NEW t \in Tx, call[t] \in Calls, call[t].op \in {"root", "reply"}
  PROVE  NewRow(t) \in Row
<1> DEFINE c == call[t]
           depth == IF c.op = "reply" THEN seen[t].row.depth + 1 ELSE 0
<1>1. c.user \in User /\ c.post \in PostArg /\ c.target \in 0..MaxId /\ c.body \in Body
  BY CallTypes DEF Id
<1>2. depth \in Nat
  <2>1. seen[t].row \in Row
    BY DEF TypeOK
  <2>2. QED
    BY <2>1 DEF Row
<1>3. NewRow(t) = [status |-> "live", user |-> c.user, post |-> c.post, parent |-> c.target,
                   depth |-> depth, up |-> 0, down |-> 0, body |-> c.body]
  BY DEF NewRow
<1> HIDE DEF c, depth
<1>4. QED
  BY <1>1, <1>2, <1>3 DEF Row, Status

LEMMA BeginType == ASSUME TypeOK, NEW t \in Tx, Begin(t) PROVE TypeOK'
<1>1. PICK c \in Calls : /\ c.op \in Ops
                         /\ Goto(t, FirstStep[c.op])
                         /\ call' = [call EXCEPT ![t] = c]
  BY DEF Begin
<1>2. FirstStep[c.op] \in Steps
  BY CallTypes DEF FirstStep, OpName, Steps
<1>3. pc' \in [Tx -> Steps]
  BY <1>1, <1>2, GotoType
<1>4. QED
  BY <1>1, <1>3 DEF Begin, TypeOK, Kinds

LEMMA CountRootsType == ASSUME TypeOK, NEW t \in Tx, CountRoots(t) PROVE TypeOK'
<1>1. CASE Rollback(t, "constraint") /\ UNCHANGED nextId
  BY <1>1, RollbackType DEF Kinds, TypeOK
<1>2. CASE /\ Goto(t, "insert")
           /\ UNCHANGED <<comments, votes, nextId, call, lock, seen, write, ballot, result>>
  BY <1>2, GotoType DEF TypeOK, Steps
<1>3. QED
  BY <1>1, <1>2 DEF CountRoots

LEMMA LockParentType ==
  ASSUME TypeOK, NEW t \in Tx, LockParent(t), call[t].target \in Id PROVE TypeOK'
<1> DEFINE parent  == comments[call[t].target]
           verdict == ParentVerdict(parent, call[t])
<1>1. CASE Rollback(t, verdict) /\ UNCHANGED nextId
  BY <1>1, RollbackType, VerdictTypes DEF TypeOK
<1>2. CASE /\ Take(t, ReplyParentLock)
           /\ seen' = [seen EXCEPT ![t].row = parent]
           /\ Goto(t, "insert")
           /\ UNCHANGED <<comments, votes, nextId, call, write, ballot, result>>
  <2>1. lock' \in [Tx -> LockModes]
    BY <1>2, TakeType DEF ReplyParentLock, LockModes
  <2>2. pc' \in [Tx -> Steps]
    BY <1>2, GotoType DEF Steps
  <2>3. parent \in Row
    BY DEF TypeOK
  <2>4. seen' \in [Tx -> [row : Row, kids : BOOLEAN, prior : -1..1]]
    BY <1>2, <2>3, SeenRowType
  <2>5. QED
    BY <1>2, <2>1, <2>2, <2>4 DEF TypeOK
<1>3. QED
  BY <1>1, <1>2 DEF LockParent

LEMMA InsertType ==
  ASSUME TypeOK, NEW t \in Tx, Insert(t), call[t] \in Calls,
         call[t].op \in {"root", "reply"}
  PROVE  TypeOK'
<1>1. nextId' \in 1..MaxId + 1 /\ nextId \in 0..MaxId
  BY DEF Insert, TypeOK
<1>2. CASE Rollback(t, InsertVerdict(t))
  BY <1>1, <1>2, RollbackType, InsertVerdictType
<1>3. CASE /\ write' = [write EXCEPT ![t] = [id |-> nextId, row |-> NewRow(t)]]
           /\ IF call[t].op = "reply" THEN Take(t, FKLock) ELSE UNCHANGED lock
           /\ Goto(t, "commit")
           /\ UNCHANGED <<comments, votes, call, seen, ballot, result>>
  <2>1. lock' \in [Tx -> LockModes]
    BY <1>3, TakeType DEF TypeOK, FKLock, LockModes
  <2>2. pc' \in [Tx -> Steps]
    BY <1>3, GotoType DEF Steps
  <2>3. write' \in [Tx -> [id : 0..MaxId, row : Row]]
    BY <1>1, <1>3, NewRowType DEF TypeOK
  <2>4. QED
    BY <1>1, <1>3, <2>1, <2>2, <2>3 DEF TypeOK
<1>4. QED
  BY <1>2, <1>3 DEF Insert

LEMMA LockTargetType ==
  ASSUME TypeOK, NEW t \in Tx, LockTarget(t), call[t].target \in Id PROVE TypeOK'
<1>1. CASE Rollback(t, "not_found") /\ UNCHANGED nextId
  BY <1>1, RollbackType DEF TypeOK, Kinds
<1>2. CASE /\ Take(t, LeafDeleteLock)
           /\ seen' = [seen EXCEPT ![t].row = comments[call[t].target]]
           /\ Goto(t, "probe")
           /\ UNCHANGED <<comments, votes, nextId, call, write, ballot, result>>
  <2>1. lock' \in [Tx -> LockModes]
    BY <1>2, TakeType DEF LeafDeleteLock, LockModes
  <2>2. pc' \in [Tx -> Steps]
    BY <1>2, GotoType DEF Steps
  <2>3. comments[call[t].target] \in Row
    BY DEF TypeOK
  <2>4. seen' \in [Tx -> [row : Row, kids : BOOLEAN, prior : -1..1]]
    BY <1>2, <2>3, SeenRowType
  <2>5. QED
    BY <1>2, <2>1, <2>2, <2>4 DEF TypeOK
<1>3. QED
  BY <1>1, <1>2 DEF LockTarget

LEMMA ProbeType == ASSUME TypeOK, NEW t \in Tx, Probe(t) PROVE TypeOK'
<1>1. pc' \in [Tx -> Steps]
  BY GotoType DEF Probe, Steps
<1>2. seen' \in [Tx -> [row : Row, kids : BOOLEAN, prior : -1..1]]
  <2>1. HasReplies(call[t].target) \in BOOLEAN
    BY DEF HasReplies
  <2>2. seen \in [Tx -> [row : Row, kids : BOOLEAN, prior : -1..1]]
    BY DEF TypeOK
  <2>3. seen' = [seen EXCEPT ![t].kids = HasReplies(call[t].target)]
    BY DEF Probe
  <2>4. QED
    BY <2>1, <2>2, <2>3
<1>3. QED
  BY <1>1, <1>2 DEF Probe, TypeOK

LEMMA DeleteLeafType ==
  ASSUME TypeOK, NEW t \in Tx, DeleteLeaf(t), call[t].target \in Id PROVE TypeOK'
<1> DEFINE verdict == DeleteVerdict(seen[t].row, seen[t].kids, call[t])
<1>1. CASE /\ Take(t, DeleteRowLock)
           /\ write' = [write EXCEPT ![t] = [id |-> call[t].target, row |-> Absent]]
           /\ Goto(t, "commit")
           /\ UNCHANGED <<comments, votes, call, seen, ballot, result>>
  <2>1. lock' \in [Tx -> LockModes]
    BY <1>1, TakeType DEF DeleteRowLock, LockModes
  <2>2. pc' \in [Tx -> Steps]
    BY <1>1, GotoType DEF Steps
  <2>3. write' \in [Tx -> [id : 0..MaxId, row : Row]]
    BY <1>1, BasicTypes DEF TypeOK, Id
  <2>4. QED
    BY <1>1, <2>1, <2>2, <2>3 DEF DeleteLeaf, TypeOK
<1>2. CASE /\ Goto(t, IF verdict = "ok" THEN "commit" ELSE "bury")
           /\ UNCHANGED <<comments, votes, call, lock, seen, write, ballot, result>>
  BY <1>2, GotoType DEF DeleteLeaf, TypeOK, Steps
<1>3. CASE verdict # "bury" /\ Rollback(t, verdict)
  BY <1>3, RollbackType, VerdictTypes DEF DeleteLeaf, TypeOK
<1>4. QED
  BY <1>1, <1>2, <1>3 DEF DeleteLeaf

LEMMA SoftDeleteType ==
  ASSUME TypeOK, NEW t \in Tx, SoftDelete(t), call[t].target \in Id PROVE TypeOK'
<1>1. CASE Rollback(t, "internal")
  BY <1>1, RollbackType DEF SoftDelete, TypeOK, Kinds
<1>2. CASE /\ Take(t, UpdateRowLock)
           /\ write' = [write EXCEPT ![t] = [id |-> call[t].target,
                                             row |-> Buried(comments[call[t].target])]]
           /\ Goto(t, "commit")
           /\ UNCHANGED <<comments, votes, call, seen, ballot, result>>
  <2>1. lock' \in [Tx -> LockModes]
    BY <1>2, TakeType DEF UpdateRowLock, LockModes
  <2>2. pc' \in [Tx -> Steps]
    BY <1>2, GotoType DEF Steps
  <2>3. Buried(comments[call[t].target]) \in Row
    BY RowTypes DEF TypeOK
  <2>4. write' \in [Tx -> [id : 0..MaxId, row : Row]]
    BY <1>2, <2>3 DEF TypeOK, Id
  <2>5. QED
    BY <1>2, <2>1, <2>2, <2>4 DEF SoftDelete, TypeOK
<1>3. QED
  BY <1>1, <1>2 DEF SoftDelete

LEMMA UpdateCommentType ==
  ASSUME TypeOK, NEW t \in Tx, UpdateComment(t), call[t].target \in Id,
         call[t].body \in Body
  PROVE  TypeOK'
<1> DEFINE verdict == EditVerdict(comments[call[t].target], call[t])
<1>1. CASE Rollback(t, verdict)
  BY <1>1, RollbackType, VerdictTypes DEF UpdateComment, TypeOK
<1>2. CASE /\ comments' = [comments EXCEPT ![call[t].target].body = call[t].body]
           /\ UNCHANGED votes
           /\ \E kind \in {"ok", "internal"} : Close(t, kind)
  <2>1. PICK kind \in Kinds : Close(t, kind)
    BY <1>2 DEF Kinds
  <2>2. comments' \in [Id -> Row]
    BY <1>2, RowTypes DEF TypeOK
  <2>3. QED
    BY <1>2, <2>1, <2>2, CloseType DEF UpdateComment, TypeOK
<1>3. QED
  BY <1>1, <1>2 DEF UpdateComment

LEMMA TakeAdvisoryType == ASSUME TypeOK, NEW t \in Tx, TakeAdvisory(t) PROVE TypeOK'
<1>1. CASE Rollback(t, "invalid")
  BY <1>1, RollbackType DEF TakeAdvisory, TypeOK, Kinds
<1>2. CASE /\ Goto(t, "prior")
           /\ UNCHANGED <<comments, votes, call, lock, seen, write, ballot, result>>
  BY <1>2, GotoType DEF TakeAdvisory, TypeOK, Steps
<1>3. QED
  BY <1>1, <1>2 DEF TakeAdvisory

LEMMA ReadPriorType ==
  ASSUME TypeOK, NEW t \in Tx, ReadPrior(t), call[t].target \in Id, call[t].user \in User
  PROVE  TypeOK'
<1>1. pc' \in [Tx -> Steps]
  BY GotoType DEF ReadPrior, Steps
<1>2. seen' \in [Tx -> [row : Row, kids : BOOLEAN, prior : -1..1]]
  <2>1. seen \in [Tx -> [row : Row, kids : BOOLEAN, prior : -1..1]]
    BY DEF TypeOK
  <2>2. votes[call[t].user][call[t].target] \in -1..1
    BY DEF TypeOK
  <2>3. [seen[t] EXCEPT !.prior = votes[call[t].user][call[t].target]]
          \in [row : Row, kids : BOOLEAN, prior : -1..1]
    BY <2>1, <2>2
  <2>4. seen' = [seen EXCEPT ![t].prior = votes[call[t].user][call[t].target]]
    BY DEF ReadPrior
  <2>5. QED
    BY <2>1, <2>3, <2>4
<1>3. QED
  BY <1>1, <1>2 DEF ReadPrior, TypeOK

LEMMA UpsertType ==
  ASSUME TypeOK, NEW t \in Tx, Upsert(t), call[t].vote \in {1, -1} PROVE TypeOK'
<1>1. CASE \E kind \in {"relation", "conflict"} : Rollback(t, kind)
  <2>1. PICK kind \in Kinds : Rollback(t, kind)
    BY <1>1 DEF Kinds
  <2>2. QED
    BY <2>1, RollbackType DEF Upsert, TypeOK
<1>2. CASE /\ ballot' = [ballot EXCEPT ![t] = call[t].vote]
           /\ Take(t, FKLock) \/ UNCHANGED lock
           /\ Goto(t, "tally")
           /\ UNCHANGED <<comments, votes, call, seen, write, result>>
  <2>1. lock' \in [Tx -> LockModes]
    BY <1>2, TakeType DEF TypeOK, FKLock, LockModes
  <2>2. ballot' \in [Tx -> -1..1]
    BY <1>2 DEF TypeOK
  <2>3. pc' \in [Tx -> Steps]
    BY <1>2, GotoType DEF Steps
  <2>4. QED
    BY <1>2, <2>1, <2>2, <2>3 DEF Upsert, TypeOK
<1>3. QED
  BY <1>1, <1>2 DEF Upsert

LEMMA TallyType ==
  ASSUME TypeOK, NEW t \in Tx, Tally(t), call[t].target \in Id, call[t].vote \in {1, -1}
  PROVE  TypeOK'
<1>1. CASE Rollback(t, "deleted")
  BY <1>1, RollbackType DEF Tally, TypeOK, Kinds
<1>2. CASE /\ Take(t, UpdateRowLock)
           /\ write' = [write EXCEPT ![t] =
                          [id |-> call[t].target,
                           row |-> Tallied(comments[call[t].target], seen[t].prior, call[t].vote)]]
           /\ Goto(t, "commit")
           /\ UNCHANGED <<comments, votes, call, seen, ballot, result>>
  <2>1. Tallied(comments[call[t].target], seen[t].prior, call[t].vote) \in Row
    BY RowTypes DEF TypeOK
  <2>2. lock' \in [Tx -> LockModes]
    BY <1>2, TakeType DEF UpdateRowLock, LockModes
  <2>3. pc' \in [Tx -> Steps]
    BY <1>2, GotoType DEF Steps
  <2>4. write' \in [Tx -> [id : 0..MaxId, row : Row]]
    BY <1>2, <2>1 DEF TypeOK, Id
  <2>5. QED
    BY <1>2, <2>1, <2>2, <2>3, <2>4 DEF Tally, TypeOK
<1>3. QED
  BY <1>1, <1>2 DEF Tally

LEMMA CommitType == ASSUME TypeOK, NEW t \in Tx, Commit(t) PROVE TypeOK'
<1>1. PICK kind \in Kinds : Close(t, kind)
  BY DEF Commit, Kinds
<1>2. comments' \in [Id -> Row]
  BY BasicTypes DEF Commit, TypeOK
<1>3. votes' \in [User -> [Id -> -1..1]]
  BY DEF Commit, TypeOK
<1>4. QED
  BY <1>1, <1>2, <1>3, CloseType DEF Commit, TypeOK

-----------------------------------------------------------------------------
(* Calls: which call a transaction may be running at each of its steps *)

CallInv == \A t \in Tx : CallOK(t)

LEMMA StepTypes ==
  ASSUME NEW t \in Tx, CallOK(t), pc[t] # "idle"
  PROVE  /\ call[t] \in Calls
         /\ pc[t] \in {"lock_parent", "lock_target", "probe", "delete", "bury", "edit",
                       "advisory", "prior", "upsert", "tally"} => call[t].target \in Id
         /\ pc[t] \in {"count_roots", "insert"} => call[t].op \in {"root", "reply"}
         /\ pc[t] = "edit" => call[t].body \in Body
         /\ pc[t] \in {"prior", "upsert", "tally"} => call[t].vote \in {1, -1}
         /\ call[t].user \in User
  BY CallTypes DEF CallOK, OpsOfStep, Voting

LEMMA CloseCall ==
  ASSUME TypeOK, CallInv, NEW t \in Tx, NEW kind, Close(t, kind)
  PROVE  CallInv'
<1> SUFFICES ASSUME NEW s \in Tx PROVE CallOK(s)'
  BY DEF CallInv
<1>1. CASE s = t
  BY <1>1 DEF Close, TypeOK, CallOK, OpsOfStep, NoCall, Voting
<1>2. CASE s # t
  <2>1. pc'[s] = pc[s] /\ call'[s] = call[s]
    BY <1>2 DEF Close, TypeOK
  <2>2. QED
    BY <2>1 DEF CallInv, CallOK, Voting
<1>3. QED
  BY <1>1, <1>2

LEMMA GotoCall ==
  ASSUME TypeOK, CallInv, NEW t \in Tx, NEW step \in Steps \ {"idle"}, pc[t] # "idle",
         Goto(t, step), UNCHANGED call, call[t].op \in OpsOfStep(step),
         (call[t].op = "vote" /\ step # "advisory") => call[t].vote \in {1, -1}
  PROVE  CallInv'
<1> SUFFICES ASSUME NEW s \in Tx PROVE CallOK(s)'
  BY DEF CallInv
<1>1. CASE s = t
  BY <1>1 DEF Goto, TypeOK, CallInv, CallOK, Voting
<1>2. CASE s # t
  <2>1. pc'[s] = pc[s] /\ call'[s] = call[s]
    BY <1>2 DEF Goto, TypeOK
  <2>2. QED
    BY <2>1 DEF CallInv, CallOK, Voting
<1>3. QED
  BY <1>1, <1>2

LEMMA BeginCall == ASSUME TypeOK, CallInv, NEW t \in Tx, Begin(t) PROVE CallInv'
<1> SUFFICES ASSUME NEW s \in Tx PROVE CallOK(s)'
  BY DEF CallInv
<1>1. PICK c \in Calls : /\ c.op \in Ops
                         /\ Goto(t, FirstStep[c.op])
                         /\ call' = [call EXCEPT ![t] = c]
  BY DEF Begin
<1>2. CASE s = t
  <2>1. pc'[s] = FirstStep[c.op] /\ call'[s] = c
    BY <1>1, <1>2 DEF Goto, TypeOK
  <2>2. c.op \in OpName
    BY CallTypes
  <2>3. c.op \in OpsOfStep(FirstStep[c.op]) /\ FirstStep[c.op] \notin {"idle", "prior", "upsert", "tally", "commit"}
    BY <2>2 DEF FirstStep, OpsOfStep, OpName
  <2>4. QED
    BY <2>1, <2>3 DEF CallOK, Voting
<1>3. CASE s # t
  <2>1. pc'[s] = pc[s] /\ call'[s] = call[s]
    BY <1>1, <1>3 DEF Goto, TypeOK
  <2>2. QED
    BY <2>1 DEF CallInv, CallOK, Voting
<1>4. QED
  BY <1>2, <1>3

(* Every statement leaves its call, ends it, or moves it to a later one. *)
LEMMA WorkCall == ASSUME TypeOK, CallInv, NEW t \in Tx, Work(t) PROVE CallInv'
<1> CallOK(t)
  BY DEF CallInv
<1>1. CASE CountRoots(t)
  BY <1>1, CloseCall, GotoCall DEF CountRoots, Rollback, At, CallOK, OpsOfStep, Steps
<1>2. CASE LockParent(t)
  BY <1>2, CloseCall, GotoCall DEF LockParent, Rollback, At, CallOK, OpsOfStep, Steps
<1>3. CASE Insert(t)
  BY <1>3, CloseCall, GotoCall DEF Insert, Rollback, At, CallOK, OpsOfStep, Steps
<1>4. CASE LockTarget(t)
  BY <1>4, CloseCall, GotoCall DEF LockTarget, Rollback, At, CallOK, OpsOfStep, Steps
<1>5. CASE Probe(t)
  BY <1>5, GotoCall DEF Probe, At, CallOK, OpsOfStep, Steps
<1>6. CASE DeleteLeaf(t)
  BY <1>6, CloseCall, GotoCall DEF DeleteLeaf, Rollback, At, CallOK, OpsOfStep, Steps
<1>7. CASE SoftDelete(t)
  BY <1>7, CloseCall, GotoCall DEF SoftDelete, Rollback, At, CallOK, OpsOfStep, Steps
<1>8. CASE UpdateComment(t)
  BY <1>8, CloseCall DEF UpdateComment, Rollback
<1>9. CASE TakeAdvisory(t)
  BY <1>9, CloseCall, GotoCall DEF TakeAdvisory, Rollback, At, CallOK, OpsOfStep, Steps
<1>10. CASE ReadPrior(t)
  BY <1>10, GotoCall DEF ReadPrior, At, CallOK, OpsOfStep, Steps, Voting
<1>11. CASE Upsert(t)
  BY <1>11, CloseCall, GotoCall DEF Upsert, Rollback, At, CallOK, OpsOfStep, Steps, Voting
<1>12. CASE Tally(t)
  BY <1>12, CloseCall, GotoCall DEF Tally, Rollback, At, CallOK, OpsOfStep, Steps, Voting
<1>13. CASE Commit(t)
  BY <1>13, CloseCall DEF Commit
<1>14. QED
  BY <1>1, <1>2, <1>3, <1>4, <1>5, <1>6, <1>7, <1>8, <1>9, <1>10, <1>11, <1>12, <1>13
  DEF Work

LEMMA WorkType == ASSUME TypeOK, CallInv, NEW t \in Tx, Work(t) PROVE TypeOK'
<1> CallOK(t)
  BY DEF CallInv
<1>1. CASE CountRoots(t)
  BY <1>1, CountRootsType
<1>2. CASE LockParent(t)
  BY <1>2, LockParentType, StepTypes DEF LockParent, At
<1>3. CASE Insert(t)
  BY <1>3, InsertType, StepTypes DEF Insert, At
<1>4. CASE LockTarget(t)
  BY <1>4, LockTargetType, StepTypes DEF LockTarget, At
<1>5. CASE Probe(t)
  BY <1>5, ProbeType
<1>6. CASE DeleteLeaf(t)
  BY <1>6, DeleteLeafType, StepTypes DEF DeleteLeaf, At
<1>7. CASE SoftDelete(t)
  BY <1>7, SoftDeleteType, StepTypes DEF SoftDelete, At
<1>8. CASE UpdateComment(t)
  BY <1>8, UpdateCommentType, StepTypes DEF UpdateComment, At
<1>9. CASE TakeAdvisory(t)
  BY <1>9, TakeAdvisoryType
<1>10. CASE ReadPrior(t)
  BY <1>10, ReadPriorType, StepTypes DEF ReadPrior, At
<1>11. CASE Upsert(t)
  BY <1>11, UpsertType, StepTypes DEF Upsert, At
<1>12. CASE Tally(t)
  BY <1>12, TallyType, StepTypes DEF Tally, At
<1>13. CASE Commit(t)
  BY <1>13, CommitType
<1>14. QED
  BY <1>1, <1>2, <1>3, <1>4, <1>5, <1>6, <1>7, <1>8, <1>9, <1>10, <1>11, <1>12, <1>13
  DEF Work

LEMMA AbortStep ==
  ASSUME TypeOK, CallInv, NEW t \in Tx, ConnectionLost(t) \/ DeadlockAbort(t)
  PROVE  TypeOK' /\ CallInv'
  BY RollbackType, CloseCall DEF ConnectionLost, DeadlockAbort, Rollback, Kinds, TypeOK

(* Every variable of the store keeps its type, in every interleaving. *)
THEOREM TypesCorrect == Spec => []TypeOK
<1>1. Init => TypeOK /\ CallInv
  BY InitType DEF Init, CallInv, CallOK, OpsOfStep, NoCall, Voting
<1>2. TypeOK /\ CallInv /\ [Next]_vars => TypeOK' /\ CallInv'
  <2> SUFFICES ASSUME TypeOK, CallInv, [Next]_vars PROVE TypeOK' /\ CallInv'
    OBVIOUS
  <2>1. CASE UNCHANGED vars
    BY <2>1 DEF vars, TypeOK, CallInv, CallOK, Voting
  <2>2. ASSUME NEW t \in Tx, Begin(t) PROVE TypeOK' /\ CallInv'
    BY <2>2, BeginType, BeginCall
  <2>3. ASSUME NEW t \in Tx, Work(t) PROVE TypeOK' /\ CallInv'
    BY <2>3, WorkType, WorkCall
  <2>4. ASSUME NEW t \in Tx, ConnectionLost(t) \/ DeadlockAbort(t) PROVE TypeOK' /\ CallInv'
    BY <2>4, AbortStep
  <2>5. QED
    BY <2>1, <2>2, <2>3, <2>4 DEF Next
<1>3. QED
  BY <1>1, <1>2, PTL DEF Spec

-----------------------------------------------------------------------------
(* Steps of one transaction *)

(* No transaction but t moves. *)
OthersStay(t) ==
  \A s \in Tx \ {t} :
    /\ pc'[s] = pc[s] /\ call'[s] = call[s] /\ lock'[s] = lock[s]
    /\ seen'[s] = seen[s] /\ write'[s] = write[s] /\ ballot'[s] = ballot[s]
    /\ result'[s] = result[s]

Closed(t) ==
  /\ pc'[t] = "idle" /\ call'[t] = NoCall /\ lock'[t] = "none"
  /\ seen'[t] = NothingSeen /\ write'[t] = NoWrite /\ ballot'[t] = 0

LEMMA CloseEffect ==
  ASSUME TypeOK, NEW t \in Tx, NEW kind, Close(t, kind)
  PROVE  Closed(t) /\ result'[t] = kind /\ OthersStay(t)
  BY DEF TypeOK, Close, Closed, OthersStay

LEMMA ClosedInv == ASSUME NEW t \in Tx, Closed(t) PROVE TxInv(t)'
<1>1. CallOK(t)'
  BY DEF Closed, CallOK, OpsOfStep, NoCall, Voting
<1>2. LockOK(t)'
  BY DEF Closed, LockOK, InReply, InDelete, Balloted, NoCall
<1>3. SeenOK(t)'
  BY DEF Closed, SeenOK, InReply, InDelete, Probed, Balloted, NoCall
<1>4. WriteOK(t)'
  BY DEF Closed, WriteOK, Inserted, Balloted, NoCall
<1>5. QED
  BY <1>1, <1>2, <1>3, <1>4 DEF TxInv

(* A transaction that holds no lock, no advisory lock and no write is in    *)
(* nobody's way.                                                           *)
Harmless(t) ==
  /\ lock[t] = "none" /\ ballot[t] = 0 /\ pc[t] # "upsert"
  /\ ~Inserted(t) /\ ~Voting(t) /\ ~Erasing(t)

LEMMA HarmlessPairs ==
  ASSUME NEW t \in Tx, Harmless(t)'
  PROVE  \A s \in Tx : PairInv(s, t)' /\ PairInv(t, s)'
  BY DEF Harmless, PairInv, Conflicts

LEMMA ClosedHarmless == ASSUME NEW t \in Tx, Closed(t) PROVE Harmless(t)'
  BY DEF Closed, Harmless, Inserted, Voting, Erasing, NoCall

LEMMA PairsOfOthers ==
  ASSUME IInv, NEW t \in Tx, OthersStay(t), UNCHANGED votes,
         NEW r \in Tx \ {t}, NEW s \in Tx \ {t}, r # s
  PROVE  PairInv(r, s)'
<1>1. PairInv(r, s)
  BY DEF IInv
<1>2. QED
  BY <1>1 DEF OthersStay, PairInv, Inserted, Voting, Erasing, SameBallot, Rival

(* A step of t that leaves the tables alone keeps IInv when it keeps what   *)
(* IInv says of t itself and of t and any other.                           *)
LEMMA QuietStep ==
  ASSUME IInv, TypeOK', NEW t \in Tx, OthersStay(t), UNCHANGED store, nextId <= nextId',
         TxInv(t)', \A s \in Tx \ {t} : PairInv(s, t)' /\ PairInv(t, s)'
  PROVE  IInv'
<1>1. StoreInv'
  <2>1. nextId \in Int /\ nextId' \in Int /\ Id \subseteq Int
    BY DEF IInv, TypeOK, Id
  <2>2. RowsOK'
    BY <2>1 DEF IInv, StoreInv, RowsOK, store, Exists, Id
  <2>3. TreeOK'
    BY DEF IInv, StoreInv, TreeOK, WellPlaced, store, Exists
  <2>4. CountersMatch'
    BY DEF IInv, StoreInv, CountersMatch, store, Exists, Voters
  <2>5. NoStrayVotes' /\ OneLiveReply'
    BY DEF IInv, StoreInv, NoStrayVotes, OneLiveReply, store, Exists
  <2>6. QED
    BY <2>2, <2>3, <2>4, <2>5 DEF StoreInv
<1>2. ASSUME NEW s \in Tx \ {t} PROVE TxInv(s)'
  <2>1. TxInv(s)
    BY DEF IInv
  <2>2. CallOK(s)'
    BY <2>1 DEF TxInv, CallOK, OthersStay, Voting
  <2>3. LockOK(s)'
    BY <2>1 DEF TxInv, LockOK, OthersStay, InReply, InDelete, Balloted, store
  <2>4. nextId \in Int /\ nextId' \in Int
    BY DEF IInv, TypeOK
  <2>5. SeenOK(s)'
    <3>1. /\ (InReply(s)' <=> InReply(s)) /\ (InDelete(s)' <=> InDelete(s))
          /\ (Probed(s)' <=> Probed(s)) /\ (Balloted(s)' <=> Balloted(s))
      BY DEF OthersStay, InReply, InDelete, Probed, Balloted
    <3>2. pc[s] = "upsert" => call[s].target \in Int
      BY <2>1, StepTypes DEF TxInv, Id
    <3>3. HasReplies(call[s].target)' <=> HasReplies(call[s].target)
      BY DEF OthersStay, HasReplies, Exists, store
    <3>4. SeenOK(s)
      BY <2>1 DEF TxInv
    <3>5. Exists(call[s].target)' <=> Exists(call[s].target)
      BY DEF OthersStay, Exists, store
    <3>6. QED
      BY <2>4, <3>1, <3>2, <3>3, <3>4, <3>5 DEF SeenOK, OthersStay, store
  <2>6. WriteOK(s)'
    <3>1. /\ (Inserted(s)' <=> Inserted(s)) /\ (Balloted(s)' <=> Balloted(s))
          /\ NewRow(s)' = NewRow(s) /\ (Owns(s)' <=> Owns(s))
          /\ (HasReplies(call[s].target)' <=> HasReplies(call[s].target))
          /\ \A j \in Id : (Rival(s, comments[j])' <=> Rival(s, comments[j]))
      BY DEF OthersStay, store, Inserted, Balloted, NewRow, Owns, HasReplies, Exists, Rival
    <3>2. WriteOK(s)
      BY <2>1 DEF TxInv
    <3>3. write'[s] = write[s] /\ call'[s] = call[s] /\ pc'[s] = pc[s] /\ ballot'[s] = ballot[s]
          /\ seen'[s] = seen[s] /\ comments' = comments
      BY DEF OthersStay, store
    <3>4. Inserted(s) => write[s].id < nextId'
      BY <2>4, <3>2 DEF WriteOK, Id
    <3>5. QED
      BY <3>1, <3>2, <3>3, <3>4 DEF WriteOK, Exists
  <2>7. QED
    BY <2>2, <2>3, <2>5, <2>6 DEF TxInv
<1>3. ASSUME NEW r \in Tx, NEW s \in Tx, r # s PROVE PairInv(r, s)'
  <2>1. CASE r = t \/ s = t
    BY <1>3, <2>1
  <2>2. CASE r # t /\ s # t
    BY <1>3, <2>2, PairsOfOthers DEF store
  <2>3. QED
    BY <2>1, <2>2
<1>4. QED
  BY <1>1, <1>2, <1>3 DEF IInv

(* A call that fails, however far it got, keeps IInv. *)
LEMMA RollbackInv ==
  ASSUME IInv, TypeOK', NEW t \in Tx, NEW kind, Rollback(t, kind), nextId <= nextId'
  PROVE  IInv'
<1>1. Closed(t) /\ OthersStay(t)
  BY CloseEffect DEF IInv, Rollback
<1>2. TxInv(t)' /\ (\A s \in Tx : PairInv(s, t)' /\ PairInv(t, s)')
  BY <1>1, ClosedInv, ClosedHarmless, HarmlessPairs
<1>3. QED
  BY <1>1, <1>2, QuietStep DEF Rollback

-----------------------------------------------------------------------------
(* Statements that change nothing but what their own transaction holds *)

(* IInv of the parts a step is proved from. *)
LEMMA Parts ==
  ASSUME IInv, NEW t \in Tx
  PROVE  /\ TypeOK /\ CallInv /\ CallOK(t) /\ LockOK(t) /\ SeenOK(t) /\ WriteOK(t)
         /\ nextId \in 1..MaxId + 1
  BY DEF IInv, TxInv, CallInv, TypeOK

LEMMA WorkTypes == ASSUME IInv, NEW t \in Tx, Work(t) PROVE TypeOK'
  BY Parts, WorkType

(* Before it has locked anything a transaction has nothing to keep. *)
LEMMA UnlockedInv ==
  ASSUME NEW t \in Tx, CallOK(t)', lock'[t] = "none", write'[t] = NoWrite, ballot'[t] = 0,
         \/ pc'[t] \in {"count_roots", "lock_parent", "lock_target", "edit", "advisory"}
         \/ pc'[t] = "insert" /\ call'[t].op = "root"
  PROVE  TxInv(t)' /\ Harmless(t)'
<1>1. call'[t].op \in {"root", "reply", "delete", "edit", "vote"}
  BY DEF CallOK, OpsOfStep
<1>2. LockOK(t)'
  BY <1>1 DEF LockOK, InReply, InDelete, Balloted
<1>3. SeenOK(t)'
  BY <1>1 DEF SeenOK, InReply, InDelete, Probed, Balloted
<1>4. WriteOK(t)'
  BY <1>1 DEF WriteOK, Inserted, Balloted
<1>5. Harmless(t)'
  BY <1>1 DEF Harmless, Inserted, Voting, Erasing, NoWrite
<1>6. QED
  BY <1>2, <1>3, <1>4, <1>5 DEF TxInv

LEMMA BeginInv == ASSUME IInv, NEW t \in Tx, Begin(t) PROVE IInv'
<1>1. TypeOK' /\ CallInv'
  BY Parts, BeginType, BeginCall
<1>2. PICK c \in Calls : /\ Goto(t, FirstStep[c.op])
                         /\ call' = [call EXCEPT ![t] = c]
  BY DEF Begin
<1>3. OthersStay(t) /\ pc'[t] = FirstStep[c.op]
  BY <1>2, Parts DEF Begin, Goto, TypeOK, OthersStay
<1>4. pc'[t] \in {"count_roots", "lock_parent", "lock_target", "edit", "advisory"}
  BY <1>3, CallTypes DEF FirstStep, OpName
<1>5. lock'[t] = "none" /\ write'[t] = NoWrite /\ ballot'[t] = 0
  BY Parts DEF Begin, At, CallOK, LockOK, WriteOK, InReply, InDelete, Balloted, NoCall
<1>6. TxInv(t)' /\ Harmless(t)'
  BY <1>1, <1>4, <1>5, UnlockedInv DEF CallInv
<1>7. UNCHANGED store /\ nextId <= nextId'
  BY Parts DEF Begin, store
<1>8. QED
  BY <1>1, <1>3, <1>6, <1>7, HarmlessPairs, QuietStep

LEMMA CountRootsInv == ASSUME IInv, NEW t \in Tx, CountRoots(t) PROVE IInv'
<1>1. TypeOK' /\ CallInv' /\ nextId <= nextId'
  BY Parts, WorkType, WorkCall DEF Work, CountRoots
<1>2. CASE Rollback(t, "constraint")
  BY <1>1, <1>2, RollbackInv
<1>3. CASE /\ Goto(t, "insert")
           /\ UNCHANGED <<comments, votes, nextId, call, lock, seen, write, ballot, result>>
  <2>1. OthersStay(t) /\ pc'[t] = "insert" /\ UNCHANGED store
    BY <1>3, Parts DEF Goto, TypeOK, OthersStay, store
  <2>2. call'[t].op = "root"
    BY <1>3, Parts DEF CountRoots, At, CallOK, OpsOfStep
  <2>3. lock'[t] = "none" /\ write'[t] = NoWrite /\ ballot'[t] = 0
    BY <1>3, Parts DEF CountRoots, At, LockOK, WriteOK, InReply, InDelete, Balloted
  <2>4. TxInv(t)' /\ Harmless(t)'
    BY <1>1, <2>1, <2>2, <2>3, UnlockedInv DEF CallInv
  <2>5. QED
    BY <1>1, <2>1, <2>4, HarmlessPairs, QuietStep
<1>4. QED
  BY <1>2, <1>3 DEF CountRoots

(* Taking a lock that is granted conflicts with no lock held. *)
LEMMA GrantedPairs ==
  ASSUME TypeOK, NEW t \in Tx, NEW m \in LockModes, OthersStay(t), UNCHANGED call,
         Blockers(t, call[t].target, m) = {},
         lock'[t] \in {m, lock[t]}, \A s \in Tx \ {t} : PairInv(s, t)
  PROVE  \A s \in Tx \ {t} : call[s].target = call[t].target =>
           ~Conflicts(lock[s], lock[t])' /\ ~Conflicts(lock[t], lock[s])'
<1> SUFFICES ASSUME NEW s \in Tx \ {t}, call[s].target = call[t].target
             PROVE  ~Conflicts(lock[s], lock[t])' /\ ~Conflicts(lock[t], lock[s])'
  OBVIOUS
<1>1. ~Conflicts(m, lock[s])
  BY DEF Blockers
<1>2. ~Conflicts(lock[s], lock[t])
  BY DEF PairInv
<1>3. lock'[s] = lock[s] /\ lock[s] \in LockModes /\ lock[t] \in LockModes
  BY DEF OthersStay, TypeOK
<1>4. QED
  BY <1>1, <1>2, <1>3 DEF Conflicts, LockModes

(* A statement that neither makes t an inserter or an eraser nor gives it an *)
(* advisory lock leaves only the row locks to compare.                      *)
LEMMA LockPairs ==
  ASSUME IInv, NEW t \in Tx, OthersStay(t), UNCHANGED <<votes, call, ballot>>,
         ~Inserted(t)', ~Erasing(t)', Voting(t)' => Voting(t),
         pc'[t] = "upsert" => seen'[t].prior = votes[call[t].user][call[t].target],
         \A s \in Tx \ {t} : call[s].target = call[t].target =>
           ~Conflicts(lock[s], lock[t])' /\ ~Conflicts(lock[t], lock[s])'
  PROVE  \A s \in Tx \ {t} : PairInv(s, t)' /\ PairInv(t, s)'
<1> SUFFICES ASSUME NEW s \in Tx \ {t} PROVE PairInv(s, t)' /\ PairInv(t, s)'
  OBVIOUS
<1>1. PairInv(s, t) /\ PairInv(t, s)
  BY DEF IInv
<1>2. /\ pc'[s] = pc[s] /\ call'[s] = call[s] /\ write'[s] = write[s] /\ ballot'[s] = ballot[s]
      /\ seen'[s] = seen[s]
  BY DEF OthersStay
<1>3. (Voting(s)' <=> Voting(s)) /\ (Erasing(s)' <=> Erasing(s))
  BY <1>2 DEF Voting, Erasing
<1>4. SameBallot(s, t)' = SameBallot(s, t) /\ SameBallot(t, s)' = SameBallot(t, s)
  BY <1>2 DEF SameBallot
<1>5. PairInv(s, t)'
  BY <1>1, <1>3, <1>4 DEF PairInv
<1>6. PairInv(t, s)'
  BY <1>1, <1>2, <1>3, <1>4 DEF PairInv
<1>7. QED
  BY <1>5, <1>6

LEMMA LockParentInv == ASSUME IInv, NEW t \in Tx, LockParent(t) PROVE IInv'
<1> DEFINE i       == call[t].target
           parent  == comments[i]
           verdict == ParentVerdict(parent, call[t])
<1>1. TypeOK' /\ CallInv' /\ nextId <= nextId'
  BY Parts, WorkType, WorkCall DEF Work, LockParent
<1>2. CASE Rollback(t, verdict)
  BY <1>1, <1>2, RollbackInv
<1>3. CASE /\ verdict = "ok"
           /\ Take(t, ReplyParentLock)
           /\ seen' = [seen EXCEPT ![t].row = parent]
           /\ Goto(t, "insert")
           /\ UNCHANGED <<comments, votes, nextId, call, write, ballot, result>>
  <2>1. /\ OthersStay(t) /\ pc'[t] = "insert" /\ UNCHANGED store
        /\ seen'[t].row = parent /\ lock'[t] = Raise(lock[t], "key_share")
    BY <1>3, Parts DEF Goto, Take, TypeOK, OthersStay, store, ReplyParentLock
  <2>2. pc[t] = "lock_parent" /\ call[t].op = "reply" /\ call[t] \in Calls /\ i \in Id
    BY Parts, StepTypes DEF LockParent, At, CallOK, OpsOfStep
  <2>3. lock[t] = "none" /\ write[t] = NoWrite /\ ballot[t] = 0
    BY <2>2, Parts DEF LockOK, WriteOK, InReply, InDelete, Balloted
  <2>4. lock'[t] = "key_share"
    BY <2>1, <2>3 DEF Raise
  <2>5. Blockers(t, i, "key_share") = {}
    BY <2>2 DEF LockParent, Granted, WaitsFor, ReplyParentLock
  <2>6. TxInv(t)'
    <3>1. LockOK(t)'
      BY <1>3, <2>1, <2>2, <2>4 DEF LockOK, InReply, InDelete, Balloted
    <3>2. SeenOK(t)'
      <4>1. /\ parent.status # "absent" /\ parent.post = call[t].post /\ parent.status # "deleted"
            /\ ~(parent.depth + 1 >= CommentMaxNestingDepth) /\ parent.user # call[t].user
        BY <1>3 DEF ParentVerdict
      <4>2. parent.status = "live" /\ parent.depth \in Nat
        BY <4>1, <2>2, Parts DEF TypeOK, Row, Status
      <4>3. parent.depth + 1 < CommentMaxNestingDepth
        BY <4>1, <4>2
      <4>4. QED
        BY <1>3, <2>1, <2>2, <4>1, <4>2, <4>3
        DEF SeenOK, InReply, InDelete, Probed, Balloted, Exists
    <3>3. WriteOK(t)'
      BY <1>3, <2>1, <2>2, <2>3 DEF WriteOK, Inserted, Balloted
    <3>4. QED
      BY <1>1, <3>1, <3>2, <3>3 DEF TxInv, CallInv
  <2>7. \A s \in Tx \ {t} : PairInv(s, t)' /\ PairInv(t, s)'
    <3>1. ~Inserted(t)' /\ ~Erasing(t)' /\ ~Voting(t)'
      BY <2>1, <2>2, <1>3 DEF Inserted, Erasing, Voting
    <3>2. \A s \in Tx \ {t} : PairInv(s, t)
      BY DEF IInv
    <3>3. \A s \in Tx \ {t} : call[s].target = call[t].target =>
            ~Conflicts(lock[s], lock[t])' /\ ~Conflicts(lock[t], lock[s])'
      BY <1>3, <2>1, <2>4, <2>5, <3>2, Parts, GrantedPairs DEF LockModes
    <3>4. QED
      BY <1>3, <2>1, <3>1, <3>3, LockPairs
  <2>8. QED
    BY <1>1, <2>1, <2>6, <2>7, QuietStep
<1>4. QED
  BY <1>2, <1>3 DEF LockParent

LEMMA LockTargetInv == ASSUME IInv, NEW t \in Tx, LockTarget(t) PROVE IInv'
<1> DEFINE i == call[t].target
<1>1. TypeOK' /\ CallInv' /\ nextId <= nextId'
  BY Parts, WorkType, WorkCall DEF Work, LockTarget
<1>2. CASE Rollback(t, "not_found")
  BY <1>1, <1>2, RollbackInv
<1>3. CASE /\ Exists(i)
           /\ Take(t, LeafDeleteLock)
           /\ seen' = [seen EXCEPT ![t].row = comments[i]]
           /\ Goto(t, "probe")
           /\ UNCHANGED <<comments, votes, nextId, call, write, ballot, result>>
  <2>1. /\ OthersStay(t) /\ pc'[t] = "probe" /\ UNCHANGED store
        /\ seen'[t].row = comments[i] /\ lock'[t] = Raise(lock[t], "update")
    BY <1>3, Parts DEF Goto, Take, TypeOK, OthersStay, store, LeafDeleteLock
  <2>2. pc[t] = "lock_target" /\ call[t].op = "delete" /\ call[t] \in Calls /\ i \in Id
    BY Parts, StepTypes DEF LockTarget, At, CallOK, OpsOfStep
  <2>3. write[t] = NoWrite /\ ballot[t] = 0
    BY <2>2, Parts DEF WriteOK, Balloted
  <2>4. lock'[t] = "update"
    BY <2>1 DEF Raise
  <2>5. Blockers(t, i, "update") = {}
    BY <2>2 DEF LockTarget, Granted, WaitsFor, LeafDeleteLock
  <2>6. TxInv(t)'
    <3>1. LockOK(t)'
      BY <1>3, <2>1, <2>2, <2>4 DEF LockOK, InReply, InDelete, Balloted
    <3>2. SeenOK(t)'
      BY <1>3, <2>1, <2>2 DEF SeenOK, InReply, InDelete, Probed, Balloted, Exists
    <3>3. WriteOK(t)'
      BY <1>3, <2>1, <2>2, <2>3 DEF WriteOK, Inserted, Balloted
    <3>4. QED
      BY <1>1, <3>1, <3>2, <3>3 DEF TxInv, CallInv
  <2>7. \A s \in Tx \ {t} : PairInv(s, t)' /\ PairInv(t, s)'
    <3>1. ~Inserted(t)' /\ ~Erasing(t)' /\ ~Voting(t)'
      BY <2>1, <2>2, <1>3 DEF Inserted, Erasing, Voting
    <3>2. \A s \in Tx \ {t} : PairInv(s, t)
      BY DEF IInv
    <3>3. \A s \in Tx \ {t} : call[s].target = call[t].target =>
            ~Conflicts(lock[s], lock[t])' /\ ~Conflicts(lock[t], lock[s])'
      BY <1>3, <2>1, <2>4, <2>5, <3>2, Parts, GrantedPairs DEF LockModes
    <3>4. QED
      BY <1>3, <2>1, <3>1, <3>3, LockPairs
  <2>8. QED
    BY <1>1, <2>1, <2>6, <2>7, QuietStep
<1>4. QED
  BY <1>2, <1>3 DEF LockTarget

(* With its lock unchanged t conflicts with nobody, as before. *)
LEMMA SameLockPairs ==
  ASSUME IInv, NEW t \in Tx, OthersStay(t), lock'[t] = lock[t]
  PROVE  \A s \in Tx \ {t} : call[s].target = call[t].target =>
           ~Conflicts(lock[s], lock[t])' /\ ~Conflicts(lock[t], lock[s])'
  BY DEF IInv, PairInv, OthersStay, Conflicts

LEMMA ProbeInv == ASSUME IInv, NEW t \in Tx, Probe(t) PROVE IInv'
<1> DEFINE i == call[t].target
<1>1. TypeOK' /\ CallInv' /\ nextId <= nextId'
  <2>1. TypeOK' /\ CallInv'
    BY Parts, WorkType, WorkCall DEF Work
  <2>2. QED
    BY <2>1, Parts DEF Probe
<1>2. /\ OthersStay(t) /\ pc'[t] = "delete" /\ UNCHANGED <<store, call, votes, write, ballot>>
      /\ seen'[t].row = seen[t].row /\ seen'[t].kids = HasReplies(i) /\ lock'[t] = lock[t]
  BY Parts DEF Probe, Goto, TypeOK, OthersStay, store
<1>3. pc[t] = "probe" /\ call[t].op = "delete"
  BY Parts DEF Probe, At, CallOK, OpsOfStep
<1>4. LockOK(t)'
  BY <1>2, <1>3, Parts DEF LockOK, InReply, InDelete, Balloted
<1>5. SeenOK(t)'
  <2>1. HasReplies(i)' <=> HasReplies(i)
    BY <1>2 DEF HasReplies, Exists, store
  <2>2. Exists(i) /\ seen[t].row = comments[i]
    BY <1>3, Parts DEF SeenOK, InDelete
  <2>3. (Exists(i) <=> Exists(i)') /\ comments' = comments
    BY <1>2 DEF Exists, store
  <2>4. QED
    BY <1>2, <1>3, <2>1, <2>2, <2>3 DEF SeenOK, InReply, InDelete, Probed, Balloted
<1>6. WriteOK(t)'
  BY <1>2, <1>3, Parts DEF WriteOK, Inserted, Balloted
<1>7. TxInv(t)'
  BY <1>1, <1>4, <1>5, <1>6 DEF TxInv, CallInv
<1>8. ~Inserted(t)' /\ ~Erasing(t)' /\ ~Voting(t)'
  BY <1>2, <1>3 DEF Inserted, Erasing, Voting
<1>9. \A s \in Tx \ {t} : PairInv(s, t)' /\ PairInv(t, s)'
  BY <1>2, <1>8, SameLockPairs, LockPairs
<1>10. QED
  BY <1>1, <1>2, <1>7, <1>9, QuietStep

(* An erased comment's vote rows are not being changed by anybody. *)
LEMMA EraseUnvoted ==
  ASSUME IInv, NEW t \in Tx, InDelete(t), VoteRowWaits(t) = {},
         NEW s \in Tx \ {t}, call[s].target = call[t].target
  PROVE  ballot[s] = 0
<1> SUFFICES ASSUME ballot[s] # 0 PROVE FALSE
  OBVIOUS
<1>1. votes[call[s].user][call[s].target] = 0
  BY DEF VoteRowWaits
<1>2. Balloted(s) /\ LockOK(s)
  BY Parts DEF WriteOK
<1>3. lock[s] \in {"key_share", "no_key_update"}
  BY <1>1, <1>2 DEF LockOK, Balloted
<1>4. lock[t] = "update"
  BY Parts DEF LockOK
<1>5. ~Conflicts(lock[s], lock[t])
  BY DEF IInv, PairInv
<1>6. QED
  BY <1>3, <1>4, <1>5 DEF Conflicts

LEMMA DeleteLeafInv == ASSUME IInv, NEW t \in Tx, DeleteLeaf(t) PROVE IInv'
<1> DEFINE i       == call[t].target
           verdict == DeleteVerdict(seen[t].row, seen[t].kids, call[t])
<1>1. TypeOK' /\ CallInv' /\ nextId <= nextId'
  BY Parts, WorkType, WorkCall DEF Work, DeleteLeaf
<1>2. pc[t] = "delete" /\ call[t].op = "delete" /\ call[t] \in Calls /\ i \in Id
  BY Parts, StepTypes DEF DeleteLeaf, At, CallOK, OpsOfStep
<1>3. /\ InDelete(t) /\ Probed(t) /\ lock[t] = "update" /\ write[t] = NoWrite /\ ballot[t] = 0
      /\ Exists(i) /\ seen[t].row = comments[i] /\ (seen[t].kids \/ ~HasReplies(i))
  BY <1>2, Parts DEF LockOK, SeenOK, WriteOK, InDelete, Probed, Balloted
<1>4. CASE verdict \notin {"ok", "bury"} /\ Rollback(t, verdict)
  BY <1>1, <1>4, RollbackInv
<1>5. CASE /\ Erasable(t)
           /\ Take(t, DeleteRowLock)
           /\ write' = [write EXCEPT ![t] = [id |-> i, row |-> Absent]]
           /\ Goto(t, "commit")
           /\ UNCHANGED <<comments, votes, call, seen, ballot, result>>
  <2>1. /\ OthersStay(t) /\ pc'[t] = "commit" /\ UNCHANGED store
        /\ write'[t] = [id |-> i, row |-> Absent] /\ lock'[t] = Raise(lock[t], "update")
    BY <1>5, Parts DEF Goto, Take, TypeOK, OthersStay, store, DeleteRowLock
  <2>2. lock'[t] = lock[t]
    BY <1>3, <2>1 DEF Raise
  <2>3. LockOK(t)'
    BY <1>2, <1>3, <1>5, <2>1, <2>2 DEF LockOK, InReply, InDelete, Balloted
  <2>4. SeenOK(t)'
    BY <1>2, <1>3, <1>5, <2>1 DEF SeenOK, InReply, InDelete, Probed, Balloted, Exists, HasReplies
  <2>5. WriteOK(t)'
    <3>1. Owns(t) /\ ~HasReplies(i)
      BY <1>3, <1>5 DEF Erasable, Owns
    <3>2. Owns(t)' /\ ~HasReplies(i)'
      BY <3>1, <1>5 DEF Owns, HasReplies, Exists
    <3>3. QED
      BY <1>2, <1>3, <1>5, <2>1, <3>2 DEF WriteOK, Inserted, Balloted
  <2>6. VoteRowWaits(t) = {}
    BY <1>2, <1>5 DEF DeleteLeaf, Granted, WaitsFor
  <2>7. ASSUME NEW s \in Tx \ {t} PROVE PairInv(s, t)' /\ PairInv(t, s)'
    <3>1. ~Inserted(t)' /\ ~Voting(t)'
      BY <1>2, <1>5, <2>1 DEF Inserted, Voting
    <3>2. call[s].target = call[t].target =>
            ~Conflicts(lock[s], lock[t])' /\ ~Conflicts(lock[t], lock[s])'
      BY <2>1, <2>2, SameLockPairs
    <3>3. call[s].target = call[t].target => ballot[s] = 0
      BY <1>3, <2>6, EraseUnvoted
    <3>4. PairInv(s, t)'
      BY <1>5, <2>1, <3>1, <3>2, <3>3 DEF PairInv, OthersStay
    <3>5. PairInv(t, s)'
      BY <1>3, <1>5, <2>1, <3>1, <3>2 DEF PairInv, OthersStay
    <3>6. QED
      BY <3>4, <3>5
  <2>8. QED
    BY <1>1, <2>1, <2>3, <2>4, <2>5, <2>7, QuietStep DEF TxInv, CallInv
<1>6. CASE /\ ~Erasable(t) /\ verdict \in {"ok", "bury"}
           /\ Goto(t, IF verdict = "ok" THEN "commit" ELSE "bury")
           /\ UNCHANGED <<comments, votes, call, lock, seen, write, ballot, result>>
  <2>1. /\ OthersStay(t) /\ pc'[t] \in {"commit", "bury"} /\ UNCHANGED store /\ lock'[t] = lock[t]
        /\ pc'[t] = "bury" => verdict = "bury"
    BY <1>6, Parts DEF Goto, TypeOK, OthersStay, store
  <2>2. LockOK(t)'
    BY <1>2, <1>3, <1>6, <2>1 DEF LockOK, InReply, InDelete, Balloted
  <2>3. SeenOK(t)'
    BY <1>2, <1>3, <1>6, <2>1 DEF SeenOK, InReply, InDelete, Probed, Balloted, Exists, HasReplies
  <2>4. WriteOK(t)'
    <3>1. verdict = "bury" => Owns(t)
      <4>1. verdict = "bury" => /\ comments[i].user = call[t].user
                                /\ comments[i].post = call[t].post
                                /\ comments[i].status # "deleted"
        <5>1. seen[t].row = comments[i]
          BY <1>3
        <5>2. QED
          BY <5>1 DEF DeleteVerdict
      <4>2. comments[i].status \in {"live", "deleted"}
        BY <1>2, <1>3, Parts DEF Exists, TypeOK, Row, Status
      <4>3. QED
        BY <4>1, <4>2 DEF Owns
    <3>2. pc'[t] = "bury" => Owns(t)'
      BY <1>6, <2>1, <3>1 DEF Owns
    <3>3. QED
      BY <1>2, <1>3, <1>6, <2>1, <3>2 DEF WriteOK, Inserted, Balloted
  <2>5. ~Inserted(t)' /\ ~Erasing(t)' /\ ~Voting(t)'
    BY <1>2, <1>3, <1>6, <2>1 DEF Inserted, Erasing, Voting, NoWrite
  <2>6. \A s \in Tx \ {t} : PairInv(s, t)' /\ PairInv(t, s)'
    BY <1>6, <2>1, <2>5, SameLockPairs, LockPairs
  <2>7. QED
    BY <1>1, <2>1, <2>2, <2>3, <2>4, <2>6, QuietStep DEF TxInv, CallInv
<1>7. QED
  BY <1>4, <1>5, <1>6 DEF DeleteLeaf

LEMMA SoftDeleteInv == ASSUME IInv, NEW t \in Tx, SoftDelete(t) PROVE IInv'
<1> DEFINE i == call[t].target
<1>1. TypeOK' /\ CallInv' /\ nextId <= nextId'
  BY Parts, WorkType, WorkCall DEF Work, SoftDelete
<1>2. pc[t] = "bury" /\ call[t].op = "delete" /\ call[t] \in Calls /\ i \in Id
  BY Parts, StepTypes DEF SoftDelete, At, CallOK, OpsOfStep
<1>3. /\ lock[t] = "update" /\ ballot[t] = 0 /\ Owns(t)
      /\ Exists(i) /\ seen[t].row = comments[i] /\ (seen[t].kids \/ ~HasReplies(i))
  BY <1>2, Parts DEF LockOK, SeenOK, WriteOK, InDelete, Probed, Balloted
<1>4. /\ Take(t, UpdateRowLock)
      /\ write' = [write EXCEPT ![t] = [id |-> i, row |-> Buried(comments[i])]]
      /\ Goto(t, "commit")
      /\ UNCHANGED <<comments, votes, call, seen, ballot, result>>
  BY <1>3 DEF SoftDelete
<1>5. /\ OthersStay(t) /\ pc'[t] = "commit" /\ UNCHANGED store
      /\ write'[t] = [id |-> i, row |-> Buried(comments[i])]
      /\ lock'[t] = Raise(lock[t], "no_key_update")
  BY <1>4, Parts DEF Goto, Take, TypeOK, OthersStay, store, UpdateRowLock
<1>6. lock'[t] = lock[t]
  BY <1>3, <1>5 DEF Raise
<1>7. LockOK(t)'
  BY <1>2, <1>3, <1>4, <1>5, <1>6 DEF LockOK, InReply, InDelete, Balloted
<1>8. SeenOK(t)'
  BY <1>2, <1>3, <1>4, <1>5 DEF SeenOK, InReply, InDelete, Probed, Balloted, Exists, HasReplies
<1>9. WriteOK(t)'
  <2>1. Owns(t)'
    BY <1>3, <1>4 DEF Owns
  <2>2. QED
    BY <1>2, <1>3, <1>4, <1>5, <2>1 DEF WriteOK, Inserted, Balloted
<1>10. ~Inserted(t)' /\ ~Erasing(t)' /\ ~Voting(t)'
  <2>1. Buried(comments[i]).status = "deleted"
    BY <1>2, Parts DEF Buried, TypeOK, Row
  <2>2. QED
    BY <1>2, <1>4, <1>5, <2>1 DEF Inserted, Erasing, Voting
<1>11. \A s \in Tx \ {t} : PairInv(s, t)' /\ PairInv(t, s)'
  BY <1>4, <1>5, <1>6, <1>10, SameLockPairs, LockPairs
<1>12. QED
  BY <1>1, <1>5, <1>7, <1>8, <1>9, <1>11, QuietStep DEF TxInv, CallInv

LEMMA TakeAdvisoryInv == ASSUME IInv, NEW t \in Tx, TakeAdvisory(t) PROVE IInv'
<1>1. TypeOK' /\ CallInv' /\ nextId <= nextId'
  BY Parts, WorkType, WorkCall DEF Work, TakeAdvisory
<1>2. CASE Rollback(t, "invalid")
  BY <1>1, <1>2, RollbackInv
<1>3. CASE /\ Granted(t)
           /\ Goto(t, "prior")
           /\ UNCHANGED <<comments, votes, call, lock, seen, write, ballot, result>>
  <2>1. OthersStay(t) /\ pc'[t] = "prior" /\ UNCHANGED store
    BY <1>3, Parts DEF Goto, TypeOK, OthersStay, store
  <2>2. pc[t] = "advisory" /\ call[t].op = "vote"
    BY Parts DEF TakeAdvisory, At, CallOK, OpsOfStep
  <2>3. lock[t] = "none" /\ write[t] = NoWrite /\ ballot[t] = 0
    BY <2>2, Parts DEF LockOK, WriteOK, InReply, InDelete, Balloted
  <2>4. LockOK(t)' /\ SeenOK(t)' /\ WriteOK(t)'
    BY <1>3, <2>1, <2>2, <2>3
    DEF LockOK, SeenOK, WriteOK, InReply, InDelete, Probed, Inserted, Balloted
  <2>5. ASSUME NEW s \in Tx \ {t} PROVE PairInv(s, t)' /\ PairInv(t, s)'
    <3>1. AdvisoryWaits(t) = {}
      BY <1>3, <2>2 DEF Granted, WaitsFor
    <3>2. Voting(s) => ~SameBallot(s, t) /\ ~SameBallot(t, s)
      BY <3>1 DEF AdvisoryWaits, Voting, HoldsAdvisory, SameBallot
    <3>3. lock'[t] = "none" /\ ballot'[t] = 0 /\ ~Inserted(t)' /\ ~Erasing(t)'
      BY <1>3, <2>1, <2>2, <2>3 DEF Inserted, Erasing
    <3>4. (Voting(s)' <=> Voting(s)) /\ (SameBallot(s, t)' <=> SameBallot(s, t))
          /\ (SameBallot(t, s)' <=> SameBallot(t, s))
      BY <1>3, <2>1 DEF OthersStay, Voting, SameBallot
    <3>5. QED
      BY <2>1, <3>2, <3>3, <3>4 DEF PairInv, Conflicts
  <2>6. QED
    BY <1>1, <2>1, <2>4, <2>5, QuietStep DEF TxInv, CallInv
<1>4. QED
  BY <1>2, <1>3 DEF TakeAdvisory

LEMMA ReadPriorInv == ASSUME IInv, NEW t \in Tx, ReadPrior(t) PROVE IInv'
<1> DEFINE i == call[t].target
<1>1. TypeOK' /\ CallInv' /\ nextId <= nextId'
  <2>1. TypeOK' /\ CallInv'
    BY Parts, WorkType, WorkCall DEF Work
  <2>2. QED
    BY <2>1, Parts DEF ReadPrior
<1>2. /\ OthersStay(t) /\ pc'[t] = "upsert" /\ UNCHANGED store /\ lock'[t] = lock[t]
      /\ seen'[t].prior = votes[call[t].user][i]
  BY Parts DEF ReadPrior, Goto, TypeOK, OthersStay, store
<1>3. pc[t] = "prior" /\ call[t].op = "vote"
  BY Parts DEF ReadPrior, At, CallOK, OpsOfStep
<1>4. lock[t] = "none" /\ write[t] = NoWrite /\ ballot[t] = 0
  BY <1>3, Parts DEF LockOK, WriteOK, InReply, InDelete, Balloted
<1>5. UNCHANGED <<comments, votes, call, write, ballot>>
  BY DEF ReadPrior
<1>6. LockOK(t)' /\ SeenOK(t)' /\ WriteOK(t)'
  BY <1>2, <1>3, <1>4, <1>5
  DEF LockOK, SeenOK, WriteOK, InReply, InDelete, Probed, Inserted, Balloted
<1>7. ~Inserted(t)' /\ ~Erasing(t)' /\ Voting(t)
  BY <1>2, <1>3 DEF Inserted, Erasing, Voting
<1>8. \A s \in Tx \ {t} : PairInv(s, t)' /\ PairInv(t, s)'
  BY <1>2, <1>5, <1>7, SameLockPairs, LockPairs
<1>9. QED
  BY <1>1, <1>2, <1>6, <1>8, QuietStep DEF TxInv, CallInv

LEMMA UpsertInv == ASSUME IInv, NEW t \in Tx, Upsert(t) PROVE IInv'
<1> DEFINE i     == call[t].target
           u     == call[t].user
           fresh == votes[u][i] = 0
<1>1. TypeOK' /\ CallInv' /\ nextId <= nextId'
  <2>1. TypeOK' /\ CallInv'
    BY Parts, WorkType, WorkCall DEF Work
  <2>2. QED
    BY <2>1, Parts DEF Upsert
<1>2. CASE \E kind \in {"relation", "conflict"} : Rollback(t, kind)
  BY <1>1, <1>2, RollbackInv
<1>3. CASE /\ Granted(t)
           /\ ~(fresh /\ ~Exists(i))
           /\ seen[t].prior # call[t].vote
           /\ ballot' = [ballot EXCEPT ![t] = call[t].vote]
           /\ IF fresh THEN Take(t, FKLock) ELSE UNCHANGED lock
           /\ Goto(t, "tally")
           /\ UNCHANGED <<comments, votes, call, seen, write, result>>
  <2>1. /\ pc[t] = "upsert" /\ call[t].op = "vote" /\ call[t] \in Calls /\ i \in Id /\ u \in User
        /\ call[t].vote \in {1, -1}
    BY Parts, StepTypes DEF Upsert, At, CallOK, OpsOfStep
  <2>2. lock[t] = "none" /\ write[t] = NoWrite
    BY <2>1, Parts DEF LockOK, WriteOK, InReply, InDelete, Balloted
  <2>3. lock'[t] = IF fresh THEN "key_share" ELSE "none"
    <3>1. CASE fresh
      <4>1. lock'[t] = Raise(lock[t], "key_share")
        BY <1>3, <3>1, Parts DEF Take, FKLock, TypeOK
      <4>2. QED
        BY <2>2, <3>1, <4>1 DEF Raise
    <3>2. CASE ~fresh
      BY <1>3, <2>2, <3>2
    <3>3. QED
      BY <3>1, <3>2
  <2>4. OthersStay(t) /\ pc'[t] = "tally" /\ UNCHANGED store /\ ballot'[t] = call[t].vote
    <3>1. \A s \in Tx \ {t} : lock'[s] = lock[s]
      BY <1>3, Parts DEF Take, TypeOK
    <3>2. QED
      BY <1>3, <3>1, Parts DEF Goto, TypeOK, OthersStay, store
  <2>5. LockOK(t)'
    BY <1>3, <2>1, <2>3, <2>4 DEF LockOK, InReply, InDelete, Balloted
  <2>6. Exists(i) /\ seen[t].prior = votes[u][i]
    <3>1. Exists(i)
      BY <1>3, <2>1 DEF IInv, StoreInv, NoStrayVotes
    <3>2. QED
      BY <2>1, <3>1, Parts DEF SeenOK
  <2>7. SeenOK(t)'
    BY <1>3, <2>1, <2>4, <2>6 DEF SeenOK, InReply, InDelete, Probed, Balloted, Exists
  <2>8. WriteOK(t)'
    BY <1>3, <2>1, <2>2, <2>4 DEF WriteOK, Inserted, Balloted
  <2>9. ASSUME NEW s \in Tx \ {t} PROVE PairInv(s, t)' /\ PairInv(t, s)'
    <3>1. PairInv(s, t) /\ PairInv(t, s)
      BY DEF IInv
    <3>2. call[s].target = i => ~Conflicts(lock[s], lock[t])' /\ ~Conflicts(lock[t], lock[s])'
      <4>1. CASE fresh
        <5>1. Blockers(t, i, "key_share") = {}
          BY <1>3, <2>1, <4>1 DEF Granted, WaitsFor, FKLock
        <5>2. "key_share" \in LockModes /\ lock'[t] \in {"key_share", lock[t]}
          BY <2>3, <4>1 DEF LockModes
        <5>3. \A r \in Tx \ {t} : PairInv(r, t)
          BY DEF IInv
        <5>4. QED
          BY <1>3, <2>4, <5>1, <5>2, <5>3, Parts, GrantedPairs
      <4>2. CASE ~fresh
        BY <1>3, <2>2, <2>3, <2>4, <4>2, SameLockPairs
      <4>3. QED
        BY <4>1, <4>2
    <3>3. Erasing(s) => call[s].target # i
      <4> SUFFICES ASSUME Erasing(s), call[s].target = i PROVE FALSE
        OBVIOUS
      <4>1. lock[s] = "update" /\ write[s].id = i
        <5>1. lock[s] = "update"
          BY Parts DEF LockOK, InDelete, Erasing
        <5>2. WriteOK(s) /\ call[s].op = "delete" /\ pc[s] = "commit" /\ write[s] # NoWrite
          BY Parts DEF Erasing, NoWrite
        <5>3. write[s].id = i
          BY <5>2 DEF WriteOK
        <5>4. QED
          BY <5>1, <5>3
      <4>2. CASE fresh
        <5>1. Blockers(t, i, "key_share") = {}
          BY <1>3, <2>1, <4>2 DEF Granted, WaitsFor, FKLock
        <5>2. QED
          BY <4>1, <5>1 DEF Blockers, Conflicts
      <4>3. CASE ~fresh
        <5>1. CascadeWaits(t) = {}
          BY <1>3, <2>1, <4>3 DEF Granted, WaitsFor
        <5>2. QED
          BY <4>1, <5>1 DEF CascadeWaits, Erasing
      <4>4. QED
        BY <4>2, <4>3
    <3>4. ~Inserted(t)' /\ ~Erasing(t)' /\ Voting(t)
      BY <1>3, <2>1, <2>4 DEF Inserted, Erasing, Voting
    <3>5. /\ (Voting(s)' <=> Voting(s)) /\ (Erasing(s)' <=> Erasing(s))
          /\ (SameBallot(s, t)' <=> SameBallot(s, t)) /\ (SameBallot(t, s)' <=> SameBallot(t, s))
      BY <1>3, <2>4 DEF OthersStay, Voting, SameBallot, Erasing
    <3>6. PairInv(s, t)'
      BY <1>3, <2>4, <3>1, <3>2, <3>3, <3>4, <3>5 DEF PairInv
    <3>7. PairInv(t, s)'
      BY <1>3, <2>4, <3>1, <3>2, <3>3, <3>4, <3>5 DEF PairInv
    <3>8. QED
      BY <3>6, <3>7
  <2>10. QED
    BY <1>1, <2>4, <2>5, <2>7, <2>8, <2>9, QuietStep DEF TxInv, CallInv
<1>4. QED
  BY <1>2, <1>3 DEF Upsert

LEMMA TallyInv == ASSUME IInv, NEW t \in Tx, Tally(t) PROVE IInv'
<1> DEFINE i == call[t].target
           r == Tallied(comments[i], seen[t].prior, call[t].vote)
<1>1. TypeOK' /\ CallInv' /\ nextId <= nextId'
  <2>1. TypeOK' /\ CallInv'
    BY Parts, WorkType, WorkCall DEF Work
  <2>2. QED
    BY <2>1, Parts DEF Tally
<1>2. CASE Rollback(t, "deleted")
  BY <1>1, <1>2, RollbackInv
<1>3. CASE /\ Granted(t)
           /\ Tallyable(comments[i])
           /\ Take(t, UpdateRowLock)
           /\ write' = [write EXCEPT ![t] = [id |-> i, row |-> r]]
           /\ Goto(t, "commit")
           /\ UNCHANGED <<comments, votes, call, seen, ballot, result>>
  <2>1. pc[t] = "tally" /\ call[t].op = "vote" /\ call[t] \in Calls /\ i \in Id
    BY Parts, StepTypes DEF Tally, At, CallOK, OpsOfStep
  <2>2. /\ OthersStay(t) /\ pc'[t] = "commit" /\ UNCHANGED store
        /\ write'[t] = [id |-> i, row |-> r] /\ lock'[t] = Raise(lock[t], "no_key_update")
    BY <1>3, Parts DEF Goto, Take, TypeOK, OthersStay, store, UpdateRowLock
  <2>3. lock[t] \in {"key_share", "none"} /\ ballot[t] = call[t].vote
    BY <2>1, Parts DEF LockOK, WriteOK, Balloted
  <2>4. lock'[t] = "no_key_update"
    BY <2>2, <2>3 DEF Raise
  <2>5. LockOK(t)'
    BY <1>3, <2>1, <2>2, <2>4 DEF LockOK, InReply, InDelete, Balloted
  <2>6. seen[t].prior = votes[call[t].user][i] /\ seen[t].prior # call[t].vote /\ Exists(i)
    BY <2>1, Parts DEF SeenOK, Balloted
  <2>7. SeenOK(t)'
    BY <1>3, <2>1, <2>2, <2>6 DEF SeenOK, InReply, InDelete, Probed, Balloted, Exists
  <2>8. WriteOK(t)'
    BY <1>3, <2>1, <2>2, <2>3 DEF WriteOK, Inserted, Balloted, Tallyable
  <2>9. Blockers(t, i, "no_key_update") = {}
    BY <1>3, <2>1 DEF Granted, WaitsFor, UpdateRowLock
  <2>10. \A s \in Tx \ {t} : PairInv(s, t)' /\ PairInv(t, s)'
    <3>1. ~Inserted(t)' /\ ~Erasing(t)' /\ Voting(t)
      BY <1>3, <2>1, <2>2 DEF Inserted, Erasing, Voting
    <3>2. \A s \in Tx \ {t} : PairInv(s, t)
      BY DEF IInv
    <3>3. \A s \in Tx \ {t} : call[s].target = call[t].target =>
            ~Conflicts(lock[s], lock[t])' /\ ~Conflicts(lock[t], lock[s])'
      BY <1>3, <2>2, <2>4, <2>9, <3>2, Parts, GrantedPairs DEF LockModes
    <3>4. QED
      BY <1>3, <2>2, <3>1, <3>3, LockPairs
  <2>11. QED
    BY <1>1, <2>2, <2>5, <2>7, <2>8, <2>10, QuietStep DEF TxInv, CallInv
<1>4. QED
  BY <1>2, <1>3 DEF Tally

LEMMA InsertInv == ASSUME IInv, NEW t \in Tx, Insert(t) PROVE IInv'
<1> DEFINE i == call[t].target
<1>1. TypeOK' /\ CallInv' /\ nextId <= nextId'
  <2>1. TypeOK' /\ CallInv'
    BY Parts, WorkType, WorkCall DEF Work
  <2>2. QED
    BY <2>1, Parts DEF Insert
<1>2. CASE Rollback(t, InsertVerdict(t))
  BY <1>1, <1>2, RollbackInv
<1>3. CASE /\ Granted(t) /\ nextId <= MaxId /\ nextId' = nextId + 1
           /\ InsertVerdict(t) = "ok"
           /\ write' = [write EXCEPT ![t] = [id |-> nextId, row |-> NewRow(t)]]
           /\ IF call[t].op = "reply" THEN Take(t, FKLock) ELSE UNCHANGED lock
           /\ Goto(t, "commit")
           /\ UNCHANGED <<comments, votes, call, seen, ballot, result>>
  <2>1. pc[t] = "insert" /\ call[t].op \in {"root", "reply"} /\ call[t] \in Calls
    BY Parts, StepTypes DEF Insert, At, CallOK, OpsOfStep
  <2>2. /\ ballot[t] = 0
        /\ lock[t] = IF call[t].op = "reply" THEN "key_share" ELSE "none"
    BY <2>1, Parts DEF LockOK, WriteOK, InReply, InDelete, Balloted
  <2>3. lock'[t] = lock[t] /\ \A s \in Tx \ {t} : lock'[s] = lock[s]
    BY <1>3, <2>2, Parts DEF Take, FKLock, Raise, TypeOK
  <2>4. /\ OthersStay(t) /\ pc'[t] = "commit" /\ UNCHANGED store
        /\ write'[t] = [id |-> nextId, row |-> NewRow(t)]
    BY <1>3, <2>3, Parts DEF Goto, TypeOK, OthersStay, store
  <2>5. nextId \in Id /\ nextId < nextId' /\ ~Exists(nextId)
    BY <1>3, Parts DEF IInv, StoreInv, RowsOK, Id
  <2>6. call[t].post \in Post /\ \A j \in Id : ~Rival(t, comments[j])
    BY <1>3 DEF InsertVerdict
  <2>7. LockOK(t)'
    BY <1>3, <2>1, <2>2, <2>3, <2>4 DEF LockOK, InReply, InDelete, Balloted
  <2>8. SeenOK(t)'
    BY <1>3, <2>1, <2>4, Parts DEF SeenOK, InReply, InDelete, Probed, Balloted, Exists
  <2>9. WriteOK(t)'
    <3>1. NewRow(t)' = NewRow(t) /\ (\A j \in Id : Rival(t, comments[j])' <=> Rival(t, comments[j]))
      BY <1>3 DEF NewRow, Rival
    <3>2. QED
      BY <1>3, <2>1, <2>2, <2>4, <2>5, <2>6, <3>1 DEF WriteOK, Inserted, Balloted, Exists
  <2>10. ASSUME NEW s \in Tx \ {t} PROVE PairInv(s, t)' /\ PairInv(t, s)'
    <3>1. call[s].target = call[t].target =>
            ~Conflicts(lock[s], lock[t])' /\ ~Conflicts(lock[t], lock[s])'
      BY <2>3, <2>4, SameLockPairs
    <3>2. ~Voting(t)' /\ ~Erasing(t)' /\ pc'[t] = "commit"
      BY <1>3, <2>1, <2>4 DEF Voting, Erasing
    <3>3. Inserted(s)' => Inserted(s) /\ write[s].id < nextId /\ write[s].row = NewRow(s)
                          /\ write[s].id \in Id
      BY <2>4, Parts DEF Inserted, OthersStay, WriteOK
    <3>4. Inserted(s) => ~Rival(t, write[s].row)
      BY <1>3, <2>1, <3>3, Parts DEF Granted, WaitsFor, UniqueWaits, WriteOK
    <3>5. Inserted(s) /\ call[s].op = "reply" => ~Rival(s, NewRow(t))
      <4> SUFFICES ASSUME Inserted(s), call[s].op = "reply", Rival(s, NewRow(t)) PROVE FALSE
        OBVIOUS
      <4>1. call[t].user = call[s].user /\ call[t].target = call[s].target
        BY DEF Rival, NewRow
      <4>2. call[s] \in Calls
        BY Parts DEF Inserted, CallOK
      <4>3. call[s].target \in Id /\ (call[t].op = "root" => call[t].target = 0)
        BY <2>1, <4>2, CallTypes
      <4>4. call[t].op = "reply"
        BY <2>1, <4>1, <4>3 DEF Id
      <4>5. write[s].row = NewRow(s)
        BY Parts DEF WriteOK
      <4>6. Rival(t, write[s].row)
        BY <4>1, <4>4, <4>5 DEF Rival, NewRow
      <4>7. QED
        BY <3>4, <4>6
    <3>6. pc[s] = "upsert" /\ seen[s].prior # votes[call[s].user][call[s].target]
            => call[s].target # nextId
      <4>1. pc[s] = "upsert" => call[s].target \in Int
        BY Parts, StepTypes DEF Id
      <4>2. QED
        BY <4>1, Parts DEF SeenOK
    <3>7. nextId \in Int
      BY Parts
    <3>8. (Erasing(s)' <=> Erasing(s)) /\ ballot'[t] = 0
      BY <1>3, <2>2, <2>4 DEF Erasing, OthersStay
    <3>9. PairInv(s, t)'
      <4>1. Inserted(s)' => write'[s].id # write'[t].id
        BY <2>4, <3>3, <3>7 DEF OthersStay, Id
      <4>2. Inserted(s)' /\ call'[s].op = "reply" => ~Rival(s, write[t].row)'
        BY <1>3, <2>4, <3>3, <3>5 DEF OthersStay, Rival, Inserted
      <4>3. QED
        BY <1>3, <2>4, <3>1, <3>2, <3>6, <4>1, <4>2 DEF PairInv, OthersStay
    <3>10. PairInv(t, s)'
      <4>1. Inserted(s)' => write'[s].id # write'[t].id
        BY <2>4, <3>3, <3>7 DEF OthersStay, Id
      <4>2. Inserted(s)' => ~Rival(t, write[s].row)'
        BY <1>3, <2>4, <3>3, <3>4 DEF OthersStay, Rival
      <4>3. QED
        BY <1>3, <2>4, <3>1, <3>2, <3>8, <4>1, <4>2 DEF PairInv, OthersStay
    <3>11. QED
      BY <3>9, <3>10
  <2>11. QED
    BY <1>1, <2>4, <2>7, <2>8, <2>9, <2>10, QuietStep DEF TxInv, CallInv
<1>4. QED
  BY <1>2, <1>3 DEF Insert

-----------------------------------------------------------------------------
(* Steps that change the tables: t ends its call, and what every other      *)
(* transaction s relies on is kept.                                         *)

(* Fields that no statement changes while somebody holds a lock on the row. *)
SameRow(i) ==
  /\ comments'[i].status = comments[i].status /\ comments'[i].user = comments[i].user
  /\ comments'[i].post = comments[i].post /\ comments'[i].depth = comments[i].depth

Kept(s) ==
  LET i == call[s].target
      u == call[s].user IN
  /\ InReply(s) => SameRow(i)
  /\ lock[s] \in {"no_key_update", "update"} => comments'[i] = comments[i]
  /\ Probed(s) /\ ~HasReplies(i) => ~HasReplies(i)'
  /\ Balloted(s) => Exists(i)' /\ votes'[u][i] = votes[u][i]
  /\ pc[s] = "upsert" =>
       \/ votes'[u][i] = votes[u][i] /\ (Exists(i)' => Exists(i) \/ seen[s].prior = votes[u][i])
       \/ Exists(i) /\ ~Exists(i)' /\ i < nextId /\ votes'[u][i] = 0
  /\ Inserted(s) => /\ ~Exists(write[s].id)'
                    /\ call[s].op = "reply" => \A j \in Id : ~Rival(s, comments'[j])

LEMMA KeptInv ==
  ASSUME IInv, NEW t \in Tx, OthersStay(t), UNCHANGED nextId, NEW s \in Tx \ {t}, Kept(s)
  PROVE  TxInv(s)'
<1> DEFINE i == call[s].target
           u == call[s].user
<1>1. /\ pc'[s] = pc[s] /\ call'[s] = call[s] /\ lock'[s] = lock[s] /\ seen'[s] = seen[s]
      /\ write'[s] = write[s] /\ ballot'[s] = ballot[s]
  BY DEF OthersStay
<1>2. /\ (InReply(s)' <=> InReply(s)) /\ (InDelete(s)' <=> InDelete(s))
      /\ (Probed(s)' <=> Probed(s)) /\ (Balloted(s)' <=> Balloted(s))
      /\ (Inserted(s)' <=> Inserted(s)) /\ (Voting(s)' <=> Voting(s)) /\ NewRow(s)' = NewRow(s)
  BY <1>1 DEF InReply, InDelete, Probed, Balloted, Inserted, Voting, NewRow
<1>3. CallOK(s) /\ LockOK(s) /\ SeenOK(s) /\ WriteOK(s)
  BY Parts
<1>4. CallOK(s)'
  BY <1>1, <1>2, <1>3 DEF CallOK
<1>5. LockOK(s)'
  <2>1. pc[s] = "tally" => Balloted(s)
    BY <1>3 DEF CallOK, OpsOfStep, Balloted
  <2>2. pc[s] = "tally" => votes'[u][i] = votes[u][i]
    BY <2>1 DEF Kept
  <2>3. QED
    BY <1>1, <1>2, <1>3, <2>2 DEF LockOK
<1>6. SeenOK(s)'
  <2>1. InReply(s) => SameRow(i)
    BY DEF Kept
  <2>2. InDelete(s) => comments'[i] = comments[i]
    BY <1>3 DEF Kept, LockOK
  <2>3. Probed(s) => seen[s].kids \/ ~HasReplies(i)'
    BY <1>3 DEF Kept, SeenOK
  <2>4. Balloted(s) => Exists(i)' /\ votes'[u][i] = votes[u][i]
    BY DEF Kept
  <2>5. pc[s] = "upsert" =>
          seen[s].prior = votes'[u][i] \/ (seen[s].prior # 0 /\ ~Exists(i)' /\ i < nextId)
    <3> SUFFICES ASSUME pc[s] = "upsert", seen[s].prior # votes'[u][i]
                 PROVE  seen[s].prior # 0 /\ ~Exists(i)' /\ i < nextId
      OBVIOUS
    <3>1. seen[s].prior = votes[u][i] \/ (seen[s].prior # 0 /\ ~Exists(i) /\ i < nextId)
      BY <1>3 DEF SeenOK
    <3>2. \/ votes'[u][i] = votes[u][i] /\ (Exists(i)' => Exists(i) \/ seen[s].prior = votes[u][i])
          \/ Exists(i) /\ ~Exists(i)' /\ i < nextId /\ votes'[u][i] = 0
      BY DEF Kept
    <3>3. QED
      BY <3>1, <3>2
  <2>6. (Exists(i) /\ comments'[i].status = comments[i].status) => Exists(i)'
    BY <1>1 DEF Exists
  <2>7. InReply(s)' => /\ comments'[i].status = "live" /\ comments'[i].post = call[s].post
                       /\ comments'[i].user # u /\ seen[s].row.depth = comments'[i].depth
                       /\ comments'[i].depth + 1 < CommentMaxNestingDepth /\ Exists(i)'
    BY <1>2, <1>3, <2>1, <2>6 DEF SeenOK, SameRow
  <2>8. InDelete(s)' => Exists(i)' /\ seen[s].row = comments'[i]
    BY <1>2, <1>3, <2>2, <2>6 DEF SeenOK
  <2>9. Balloted(s)' => /\ seen[s].prior = votes'[u][i] /\ seen[s].prior # call[s].vote /\ Exists(i)'
    BY <1>2, <1>3, <2>4 DEF SeenOK
  <2>10. QED
    BY <1>1, <1>2, <2>3, <2>5, <2>7, <2>8, <2>9 DEF SeenOK
<1>7. WriteOK(s)'
  <2>1. InDelete(s) \/ (call[s].op = "vote" /\ pc[s] = "commit") => comments'[i] = comments[i]
    BY <1>3 DEF Kept, LockOK
  <2>2. pc[s] = "bury" => InDelete(s)
    BY <1>3 DEF CallOK, OpsOfStep, InDelete
  <2>3. comments'[i] = comments[i] => (Owns(s)' <=> Owns(s))
    BY <1>1 DEF Owns
  <2>4. pc[s] = "bury" => Owns(s)'
    BY <1>3, <2>1, <2>2, <2>3 DEF WriteOK
  <2>5. Inserted(s) => ~Exists(write[s].id)' /\
                       (call[s].op = "reply" => \A j \in Id : ~Rival(s, comments[j])')
    BY <1>1 DEF Kept, Rival
  <2>6. call[s].op = "delete" /\ pc[s] = "commit" =>
          \/ write[s] = NoWrite
          \/ write[s].id = i /\ write[s].row = Absent /\ Owns(s)' /\ ~HasReplies(i)'
          \/ write[s].id = i /\ write[s].row = Buried(comments'[i]) /\ Owns(s)'
    <3> SUFFICES ASSUME call[s].op = "delete", pc[s] = "commit"
                 PROVE  \/ write[s] = NoWrite
                        \/ write[s].id = i /\ write[s].row = Absent /\ Owns(s)' /\ ~HasReplies(i)'
                        \/ write[s].id = i /\ write[s].row = Buried(comments'[i]) /\ Owns(s)'
      OBVIOUS
    <3>1. comments'[i] = comments[i] /\ (Owns(s)' <=> Owns(s))
      BY <2>1, <2>3 DEF InDelete
    <3>2. ~HasReplies(i) => ~HasReplies(i)'
      BY DEF Kept, Probed
    <3>3. QED
      BY <1>3, <3>1, <3>2 DEF WriteOK
  <2>7. call[s].op = "vote" /\ pc[s] = "commit" =>
          /\ write[s] = [id |-> i, row |-> Tallied(comments'[i], seen[s].prior, call[s].vote)]
          /\ comments'[i].status = "live"
    BY <1>3, <2>1 DEF WriteOK
  <2>8. /\ pc[s] # "commit" => write[s] = NoWrite
        /\ ballot[s] = IF Balloted(s) THEN call[s].vote ELSE 0
        /\ Inserted(s) => /\ write[s].id \in Id /\ write[s].id < nextId /\ write[s].row = NewRow(s)
                          /\ call[s].post \in Post
    BY <1>3 DEF WriteOK
  <2>9. QED
    BY <1>1, <1>2, <2>4, <2>5, <2>6, <2>7, <2>8 DEF WriteOK
<1>8. QED
  BY <1>4, <1>5, <1>6, <1>7 DEF TxInv

LEMMA TableStep ==
  ASSUME IInv, TypeOK', NEW t \in Tx, Closed(t), OthersStay(t), UNCHANGED nextId, StoreInv',
         \A s \in Tx \ {t} : Kept(s)
  PROVE  IInv'
<1>1. TxInv(t)' /\ \A s \in Tx : PairInv(s, t)' /\ PairInv(t, s)'
  BY ClosedInv, ClosedHarmless, HarmlessPairs
<1>2. ASSUME NEW s \in Tx \ {t} PROVE TxInv(s)'
  BY <1>2, KeptInv
<1>3. ASSUME NEW r \in Tx \ {t}, NEW s \in Tx \ {t}, r # s PROVE PairInv(r, s)'
  <2>1. PairInv(r, s)
    BY <1>3 DEF IInv
  <2>2. /\ pc'[r] = pc[r] /\ call'[r] = call[r] /\ lock'[r] = lock[r] /\ seen'[r] = seen[r]
        /\ write'[r] = write[r] /\ ballot'[r] = ballot[r]
        /\ pc'[s] = pc[s] /\ call'[s] = call[s] /\ lock'[s] = lock[s] /\ seen'[s] = seen[s]
        /\ write'[s] = write[s] /\ ballot'[s] = ballot[s]
    BY DEF OthersStay
  <2>3. /\ (Inserted(r)' <=> Inserted(r)) /\ (Inserted(s)' <=> Inserted(s))
        /\ (Voting(r)' <=> Voting(r)) /\ (Voting(s)' <=> Voting(s))
        /\ (Erasing(s)' <=> Erasing(s)) /\ (SameBallot(r, s)' <=> SameBallot(r, s))
        /\ (Rival(r, write[s].row)' <=> Rival(r, write[s].row))
    BY <2>2 DEF Inserted, Voting, Erasing, SameBallot, Rival
  <2>4. /\ Inserted(s) /\ pc[r] = "upsert"
        /\ seen[r].prior # votes'[call[r].user][call[r].target]
        => write[s].id # call[r].target
    <3> SUFFICES ASSUME Inserted(s), pc[r] = "upsert", write[s].id = call[r].target,
                        seen[r].prior # votes'[call[r].user][call[r].target]
                 PROVE  FALSE
      OBVIOUS
    <3>1. ~Exists(call[r].target)
      BY Parts DEF WriteOK
    <3>2. votes'[call[r].user][call[r].target] = votes[call[r].user][call[r].target]
      BY <3>1 DEF Kept
    <3>3. QED
      BY <2>1, <3>2 DEF PairInv
  <2>5. QED
    BY <2>1, <2>2, <2>3, <2>4 DEF PairInv
<1>4. ASSUME NEW r \in Tx, NEW s \in Tx, r # s PROVE PairInv(r, s)'
  BY <1>1, <1>3, <1>4
<1>5. QED
  BY <1>1, <1>2, <1>4 DEF IInv

(* Nobody has locked a row that one transaction holds FOR UPDATE. *)
LEMMA AloneOnRow ==
  ASSUME IInv, NEW t \in Tx, lock[t] = "update", NEW s \in Tx \ {t},
         call[s].target = call[t].target
  PROVE  lock[s] = "none" /\ ~InReply(s) /\ ~InDelete(s) /\ ~Probed(s)
<1>1. ~Conflicts(lock[s], lock[t])
  BY DEF IInv, PairInv
<1>2. lock[s] = "none"
  BY <1>1 DEF Conflicts
<1>3. ~InReply(s) /\ ~InDelete(s)
  BY <1>2, Parts DEF LockOK
<1>4. QED
  BY <1>2, <1>3 DEF Probed, InDelete

(* A row that somebody has locked exists. *)
LEMMA LockedExists ==
  ASSUME IInv, NEW s \in Tx, lock[s] # "none" \/ Balloted(s)
  PROVE  Exists(call[s].target) /\ call[s].target \in Id
<1>1. InReply(s) \/ InDelete(s) \/ Balloted(s)
  BY Parts DEF LockOK
<1>2. Exists(call[s].target)
  BY <1>1, Parts DEF SeenOK
<1>3. call[s] \in Calls /\ call[s].op # "root"
  BY <1>1, Parts DEF CallOK, OpsOfStep, InReply, InDelete, Balloted
<1>4. QED
  BY <1>2, <1>3, CallTypes

(* A step that only changes the text of a comment its author holds alone, or *)
(* marks it deleted, keeps what the others rely on.                          *)
LEMMA RewriteKept ==
  ASSUME IInv, NEW t \in Tx, UNCHANGED votes, NEW i \in Id, OthersStay(t),
         NEW row \in Row, comments' = [comments EXCEPT ![i] = row],
         Exists(i), row.status \in {comments[i].status, "deleted"}, row.user = comments[i].user,
         row.post = comments[i].post, row.parent = comments[i].parent,
         row.depth = comments[i].depth,
         \A s \in Tx \ {t} : call[s].target = i =>
           lock[s] = "none" /\ ~InReply(s) /\ ~InDelete(s) /\ ~Probed(s)
  PROVE  \A s \in Tx \ {t} : Kept(s)
<1> SUFFICES ASSUME NEW s \in Tx \ {t} PROVE Kept(s)
  OBVIOUS
<1>1. \A k \in Id : k # i => comments'[k] = comments[k]
  BY DEF IInv, TypeOK
<1>2. comments'[i] = row
  BY DEF IInv, TypeOK
<1>3. \A k \in Id : (Exists(k)' <=> Exists(k)) /\ comments'[k].parent = comments[k].parent
  BY <1>1, <1>2 DEF Exists
<1>4. call'[s] = call[s] /\ write'[s] = write[s]
  BY DEF OthersStay
<1>5. lock[s] # "none" => call[s].target \in Id /\ call[s].target # i
  BY LockedExists
<1>6. InReply(s) => SameRow(call[s].target)
  BY <1>1, <1>5, Parts DEF SameRow, LockOK
<1>7. lock[s] \in {"no_key_update", "update"} => comments'[call[s].target] = comments[call[s].target]
  BY <1>1, <1>5
<1>8. ~HasReplies(call[s].target) => ~HasReplies(call[s].target)'
  BY <1>3, <1>4 DEF HasReplies
<1>9. Balloted(s) => Exists(call[s].target)'
  BY <1>3, <1>4, LockedExists DEF Exists
<1>10. pc[s] = "upsert" => call[s].target \in Id
  BY Parts, StepTypes
<1>11. pc[s] = "upsert" => (Exists(call[s].target)' => Exists(call[s].target))
  BY <1>3, <1>4, <1>10 DEF Exists
<1>12. Inserted(s) => ~Exists(write[s].id)'
  <2>1. Inserted(s) => write[s].id \in Id /\ ~Exists(write[s].id)
    BY Parts DEF WriteOK
  <2>2. Inserted(s) => ~(comments'[write[s].id].status # "absent")
    BY <1>3, <2>1 DEF Exists
  <2>3. QED
    BY <1>4, <2>2 DEF Exists
<1>13. \A k \in Id : Rival(s, comments'[k]) => Rival(s, comments[k])
  BY <1>1, <1>2 DEF Rival
<1>14. Inserted(s) /\ call[s].op = "reply" => \A k \in Id : ~Rival(s, comments'[k])
  BY <1>13, Parts DEF WriteOK
<1>15. QED
  BY <1>6, <1>7, <1>8, <1>9, <1>11, <1>12, <1>14 DEF Kept

LEMMA RewriteStore ==
  ASSUME IInv, UNCHANGED <<votes, nextId>>, NEW i \in Id,
         NEW row \in Row, comments' = [comments EXCEPT ![i] = row],
         Exists(i), row.status \in {comments[i].status, "deleted"}, row.user = comments[i].user,
         row.post = comments[i].post, row.parent = comments[i].parent,
         row.depth = comments[i].depth, row.up = comments[i].up, row.down = comments[i].down
  PROVE  StoreInv'
<1>1. \A k \in Id : k # i => comments'[k] = comments[k]
  BY DEF IInv, TypeOK
<1>2. comments'[i] = row
  BY DEF IInv, TypeOK
<1>3. \A k \in Id :
        /\ (Exists(k)' <=> Exists(k)) /\ comments'[k].parent = comments[k].parent
        /\ comments'[k].user = comments[k].user /\ comments'[k].post = comments[k].post
        /\ comments'[k].depth = comments[k].depth
        /\ comments'[k].up = comments[k].up /\ comments'[k].down = comments[k].down
        /\ (comments'[k].status = "live" => comments[k].status = "live")
        /\ comments[k].parent \in 0..MaxId
  BY <1>1, <1>2 DEF Exists, IInv, TypeOK, Row
<1>4. RowsOK'
  BY <1>1, <1>3 DEF RowsOK, IInv, StoreInv, Exists
<1>5. TreeOK'
  <2> SUFFICES ASSUME NEW k \in Id, Exists(k) PROVE WellPlaced(k)'
    BY <1>3 DEF TreeOK
  <2>1. WellPlaced(k)
    BY DEF IInv, StoreInv, TreeOK
  <2>2. comments[k].parent # 0 => comments[k].parent \in Id
    BY <1>3 DEF Id
  <2>3. comments[k].parent # 0 =>
          Exists(comments[k].parent) /\ comments'[comments[k].parent].status # "absent"
    BY <1>3, <2>1, <2>2 DEF WellPlaced, Exists
  <2>4. QED
    BY <1>3, <2>1, <2>2, <2>3 DEF WellPlaced, Exists
<1>6. CountersMatch'
  <2>1. \A k, x : Voters(k, x)' = Voters(k, x)
    BY DEF Voters
  <2>2. QED
    BY <1>3, <2>1 DEF CountersMatch, IInv, StoreInv
<1>7. NoStrayVotes'
  BY <1>3 DEF NoStrayVotes, IInv, StoreInv
<1>8. OneLiveReply'
  BY <1>3 DEF OneLiveReply, IInv, StoreInv
<1>9. QED
  BY <1>4, <1>5, <1>6, <1>7, <1>8 DEF StoreInv

LEMMA UpdateCommentInv == ASSUME IInv, NEW t \in Tx, UpdateComment(t) PROVE IInv'
<1> DEFINE i       == call[t].target
           row     == [comments[i] EXCEPT !.body = call[t].body]
           verdict == EditVerdict(comments[i], call[t])
<1>1. TypeOK' /\ CallInv'
  BY Parts, WorkType, WorkCall DEF Work
<1>2. UNCHANGED nextId /\ nextId <= nextId'
  BY Parts DEF UpdateComment
<1>3. CASE Rollback(t, verdict)
  BY <1>1, <1>2, <1>3, RollbackInv
<1>4. CASE /\ Granted(t)
           /\ verdict = "ok"
           /\ comments' = [comments EXCEPT ![i].body = call[t].body]
           /\ UNCHANGED votes
           /\ \E kind \in {"ok", "internal"} : Close(t, kind)
  <2>1. pc[t] = "edit" /\ call[t] \in Calls /\ i \in Id /\ call[t].body \in Body
    BY Parts, StepTypes DEF UpdateComment, At
  <2>2. Closed(t) /\ OthersStay(t)
    BY <1>4, Parts, CloseEffect
  <2>3. Exists(i) /\ comments[i] \in Row
    BY <1>4, <2>1, Parts DEF EditVerdict, Exists, TypeOK
  <2>4. /\ row \in Row /\ comments' = [comments EXCEPT ![i] = row]
        /\ row.status = comments[i].status /\ row.user = comments[i].user
        /\ row.post = comments[i].post /\ row.parent = comments[i].parent
        /\ row.depth = comments[i].depth /\ row.up = comments[i].up /\ row.down = comments[i].down
    <3>1. row \in Row
      BY <2>1, <2>3, RowTypes
    <3>2. comments' = [comments EXCEPT ![i] = row]
      BY <1>4
    <3>3. QED
      BY <2>3, <3>1, <3>2 DEF Row
  <2>5. ASSUME NEW s \in Tx \ {t}, call[s].target = i
        PROVE  lock[s] = "none" /\ ~InReply(s) /\ ~InDelete(s) /\ ~Probed(s)
    <3>1. Blockers(t, i, "update") = {}
      BY <1>4, <2>1 DEF Granted, WaitsFor, EditLock
    <3>2. lock[s] = "none"
      BY <2>5, <3>1 DEF Blockers, Conflicts
    <3>3. ~InReply(s) /\ ~InDelete(s)
      BY <3>2, Parts DEF LockOK
    <3>4. QED
      BY <3>2, <3>3 DEF Probed, InDelete
  <2>6. \A s \in Tx \ {t} : Kept(s)
    BY <1>4, <2>1, <2>2, <2>3, <2>4, <2>5, RewriteKept
  <2>7. StoreInv'
    BY <1>2, <1>4, <2>1, <2>3, <2>4, RewriteStore
  <2>8. QED
    BY <1>1, <1>2, <2>2, <2>6, <2>7, TableStep
<1>5. QED
  BY <1>3, <1>4 DEF UpdateComment

-----------------------------------------------------------------------------
(* Commit, for each kind of write *)

(* With nothing below it a comment is all that its deletion takes away. *)
LEMMA LeafSubtree ==
  ASSUME NEW i \in Id, ~HasReplies(i) PROVE Subtree(i) = {i}
<1>1. i \in Subtree(i)
  BY DEF Subtree
<1>2. ASSUME NEW j \in Subtree(i) PROVE j = i
  <2>1. {i} \in SUBSET Id /\ \A k \in Id : Exists(k) /\ comments[k].parent \in {i} => k \in {i}
    BY DEF HasReplies
  <2>2. QED
    BY <2>1 DEF Subtree
<1>3. QED
  BY <1>1, <1>2

(* A tally changes nothing of a row but its counters. *)
LEMMA TalliedFields ==
  ASSUME NEW r \in Row, NEW old, NEW new
  PROVE  LET n == Tallied(r, old, new) IN
         /\ n.status = r.status /\ n.user = r.user /\ n.post = r.post
         /\ n.parent = r.parent /\ n.depth = r.depth /\ n.body = r.body
         /\ n.up = r.up + Delta(1, old, new) /\ n.down = r.down + Delta(-1, old, new)
  BY DEF Tallied, Row

(* What a commit does to the tables. *)
LEMMA CommitEffect ==
  ASSUME IInv, NEW t \in Tx, Commit(t)
  PROVE  /\ TypeOK' /\ Closed(t) /\ OthersStay(t) /\ UNCHANGED nextId
         /\ \/ UNCHANGED store
            \/ /\ Inserted(t)
               /\ comments' = [comments EXCEPT ![write[t].id] = NewRow(t)]
               /\ UNCHANGED votes
            \/ /\ Erasing(t) /\ call[t].target \in Id
               /\ comments' = [comments EXCEPT ![call[t].target] = Absent]
               /\ votes' = [u \in User |-> [votes[u] EXCEPT ![call[t].target] = 0]]
            \/ /\ call[t].op = "delete" /\ pc[t] = "commit" /\ Owns(t) /\ call[t].target \in Id
               /\ comments' = [comments EXCEPT ![call[t].target] = Buried(comments[call[t].target])]
               /\ UNCHANGED votes
            \/ /\ call[t].op = "vote" /\ pc[t] = "commit" /\ call[t].target \in Id
               /\ comments' = [comments EXCEPT ![call[t].target] =
                                  Tallied(@, seen[t].prior, call[t].vote)]
               /\ votes' = [votes EXCEPT ![call[t].user][call[t].target] = call[t].vote]
<1> DEFINE w    == write[t]
           i    == call[t].target
           gone == IF w.id \in Id /\ w.row.status = "absent" THEN Subtree(w.id) ELSE {}
<1>1. TypeOK'
  BY Parts, WorkType DEF Work
<1>2. Closed(t) /\ OthersStay(t) /\ UNCHANGED nextId
  BY Parts, CloseEffect DEF Commit
<1>3. pc[t] = "commit" /\ call[t] \in Calls /\ call[t].op \in {"root", "reply", "delete", "vote"}
  BY Parts DEF Commit, At, CallOK, OpsOfStep
<1>4. /\ comments' = [k \in Id |-> IF k \in gone THEN Absent
                                    ELSE IF k = w.id THEN w.row ELSE comments[k]]
      /\ votes' = [u \in User |-> [k \in Id |->
                     IF k \in gone THEN 0
                     ELSE IF ballot[t] # 0 /\ u = call[t].user /\ k = i THEN ballot[t]
                     ELSE votes[u][k]]]
  BY DEF Commit
<1>5. /\ comments = [k \in Id |-> comments[k]]
      /\ votes = [u \in User |-> [k \in Id |-> votes[u][k]]]
      /\ \A k \in Id : comments[k] \in Row
  BY Parts DEF TypeOK
<1>6. CASE call[t].op \in {"root", "reply"}
  <2>1. Inserted(t) /\ w.id \in Id /\ w.row = NewRow(t) /\ ballot[t] = 0
    <3>1. Inserted(t) /\ ~Balloted(t)
      BY <1>3, <1>6 DEF Inserted, Balloted
    <3>2. QED
      BY <3>1, Parts DEF WriteOK
  <2>2. gone = {}
    BY <2>1 DEF NewRow
  <2>3. comments' = [comments EXCEPT ![w.id] = NewRow(t)]
    BY <1>4, <1>5, <2>1, <2>2
  <2>4. votes' = votes
    BY <1>4, <1>5, <2>1, <2>2
  <2>5. QED
    BY <1>1, <1>2, <2>1, <2>3, <2>4
<1>7. CASE call[t].op = "delete"
  <2>1. i \in Id /\ ballot[t] = 0
    BY <1>3, <1>7, Parts, CallTypes DEF WriteOK, Balloted
  <2>2. \/ w = NoWrite
        \/ w.id = i /\ w.row = Absent /\ Owns(t) /\ ~HasReplies(i)
        \/ w.id = i /\ w.row = Buried(comments[i]) /\ Owns(t)
    BY <1>3, <1>7, Parts DEF WriteOK
  <2>3. CASE w = NoWrite
    <3>1. gone = {} /\ w.id \notin Id
      BY <2>3 DEF NoWrite, Id
    <3>2. comments' = comments
      BY <1>4, <1>5, <3>1
    <3>3. votes' = votes
      BY <1>4, <1>5, <2>1, <3>1
    <3>4. QED
      BY <1>1, <1>2, <3>2, <3>3 DEF store
  <2>4. CASE w.id = i /\ w.row = Absent /\ Owns(t) /\ ~HasReplies(i)
    <3>1. gone = {i}
      BY <2>1, <2>4, LeafSubtree DEF Absent
    <3>2. comments' = [comments EXCEPT ![i] = Absent]
      BY <1>4, <1>5, <2>4, <3>1
    <3>3. votes' = [u \in User |-> [votes[u] EXCEPT ![i] = 0]]
      <4>1. \A u \in User : [k \in Id |-> IF k \in gone THEN 0
                               ELSE IF ballot[t] # 0 /\ u = call[t].user /\ k = i THEN ballot[t]
                               ELSE votes[u][k]] = [votes[u] EXCEPT ![i] = 0]
        BY <2>1, <3>1, Parts DEF TypeOK
      <4>2. QED
        BY <1>4, <4>1
    <3>4. Erasing(t)
      BY <1>3, <1>7, <2>1, <2>4 DEF Erasing, Absent, Id
    <3>5. QED
      BY <1>1, <1>2, <2>1, <3>2, <3>3, <3>4
  <2>5. CASE w.id = i /\ w.row = Buried(comments[i]) /\ Owns(t)
    <3>1. gone = {}
      BY <1>5, <2>1, <2>5 DEF Buried, Row
    <3>2. comments' = [comments EXCEPT ![i] = Buried(comments[i])]
      BY <1>4, <1>5, <2>1, <2>5, <3>1
    <3>3. votes' = votes
      BY <1>4, <1>5, <2>1, <3>1
    <3>4. QED
      BY <1>1, <1>2, <1>3, <1>7, <2>1, <2>5, <3>2, <3>3
  <2>6. QED
    BY <2>2, <2>3, <2>4, <2>5
<1>8. CASE call[t].op = "vote"
  <2>1. i \in Id /\ call[t].user \in User /\ Balloted(t) /\ call[t].vote \in {1, -1}
    <3>1. call[t].vote \in {1, -1}
      BY <1>3, <1>8, Parts DEF CallOK, Voting
    <3>2. i \in Id /\ call[t].user \in User
      BY <1>3, <1>8, CallTypes
    <3>3. QED
      BY <1>3, <1>8, <3>1, <3>2 DEF Balloted
  <2>2. /\ w = [id |-> i, row |-> Tallied(comments[i], seen[t].prior, call[t].vote)]
        /\ comments[i].status = "live" /\ ballot[t] = call[t].vote
    BY <1>3, <1>8, <2>1, Parts DEF WriteOK
  <2>3. w.row.status = "live"
    BY <1>5, <2>1, <2>2, TalliedFields
  <2>4. gone = {}
    BY <2>3
  <2> DEFINE row == Tallied(comments[i], seen[t].prior, call[t].vote)
  <2>5. comments' = [comments EXCEPT ![i] = Tallied(@, seen[t].prior, call[t].vote)]
    <3>1. w.id = i /\ w.row = row
      BY <2>2
    <3> HIDE DEF row
    <3>2. comments' = [k \in Id |-> IF k = i THEN row ELSE comments[k]]
      BY <1>4, <2>4, <3>1
    <3>3. comments' = [comments EXCEPT ![i] = row]
      BY <1>5, <2>1, <3>2
    <3>4. QED
      BY <3>3 DEF row
  <2>6. votes' = [votes EXCEPT ![call[t].user][i] = call[t].vote]
    <3>1. votes' = [u \in User |-> [k \in Id |->
                      IF u = call[t].user /\ k = i THEN call[t].vote ELSE votes[u][k]]]
      BY <1>4, <2>1, <2>2, <2>4
    <3>2. QED
      BY <1>5, <2>1, <3>1
  <2>7. QED
    BY <1>1, <1>2, <1>3, <1>8, <2>1, <2>5, <2>6
<1>9. QED
  BY <1>3, <1>6, <1>7, <1>8

LEMMA ParentType ==
  ASSUME TypeOK, NEW k \in Id
  PROVE  comments[k].parent = 0 \/ comments[k].parent \in Id
<1>1. comments[k] \in Row
  BY DEF TypeOK
<1>2. comments[k].parent \in 0..MaxId
  BY <1>1 DEF Row
<1>3. QED
  BY <1>2 DEF Id

LEMMA CommitInsertInv ==
  ASSUME IInv, NEW t \in Tx, TypeOK', Closed(t), OthersStay(t), UNCHANGED nextId, Inserted(t),
         comments' = [comments EXCEPT ![write[t].id] = NewRow(t)], UNCHANGED votes
  PROVE  IInv'
<1> DEFINE n == write[t].id
           i == call[t].target
           r == NewRow(t)
<1>1. /\ n \in Id /\ n < nextId /\ ~Exists(n) /\ call[t].post \in Post
      /\ call[t].op = "reply" => \A j \in Id : ~Rival(t, comments[j])
      /\ call[t] \in Calls /\ call[t].op \in {"root", "reply"}
  BY Parts DEF WriteOK, CallOK, Inserted
<1>2. (\A k \in Id : k # n => comments'[k] = comments[k]) /\ comments'[n] = r
  BY <1>1, Parts DEF TypeOK
<1>3. /\ r.status = "live" /\ r.user = call[t].user /\ r.post = call[t].post /\ r.parent = i
      /\ r.up = 0 /\ r.down = 0
      /\ r.depth = IF call[t].op = "reply" THEN seen[t].row.depth + 1 ELSE 0
      /\ call[t].user \in User
      /\ call[t].op = "root" => i = 0
      /\ call[t].op = "reply" => i \in Id
  BY <1>1, CallTypes DEF NewRow
<1>4. \A k \in Id : (Exists(k)' <=> Exists(k) \/ k = n)
  BY <1>2, <1>3 DEF Exists
<1>5. call[t].op = "reply" =>
        /\ Exists(i) /\ i # n /\ comments[i].status = "live" /\ comments[i].post = call[t].post
        /\ comments[i].user # call[t].user /\ seen[t].row.depth = comments[i].depth
        /\ comments[i].depth + 1 < CommentMaxNestingDepth
  BY <1>1, Parts DEF SeenOK, InReply, Inserted
<1>6. StoreInv'
  <2>1. RowsOK'
    BY <1>1, <1>2, <1>3, <1>4 DEF RowsOK, IInv, StoreInv
  <2>2. TreeOK'
    <3> SUFFICES ASSUME NEW k \in Id, Exists(k) \/ k = n PROVE WellPlaced(k)'
      BY <1>4 DEF TreeOK
    <3>1. CASE k = n /\ call[t].op = "root"
      BY <1>1, <1>2, <1>3, <3>1 DEF WellPlaced
    <3>2. CASE k = n /\ call[t].op = "reply"
      <4>1. comments'[i] = comments[i] /\ comments'[k] = r /\ (Exists(i) => comments'[i].status # "absent")
        BY <1>2, <1>3, <1>5, <3>2 DEF Exists
      <4>2. r.parent = i /\ i # 0 /\ r.depth = comments[i].depth + 1
        BY <1>3, <1>5, <3>2 DEF Id
      <4>3. QED
        BY <1>1, <1>3, <1>5, <3>2, <4>1, <4>2 DEF WellPlaced, Exists
    <3>3. CASE k # n
      <4>1. WellPlaced(k) /\ comments'[k] = comments[k]
        BY <1>2, <3>3 DEF IInv, StoreInv, TreeOK
      <4>2. comments[k].parent # 0 => comments[k].parent \in Id
        BY Parts, ParentType
      <4>3. comments[k].parent # 0 =>
              /\ comments'[comments[k].parent] = comments[comments[k].parent]
              /\ comments'[comments[k].parent].status # "absent"
        BY <1>1, <1>2, <4>1, <4>2 DEF WellPlaced, Exists
      <4>4. QED
        BY <4>1, <4>3 DEF WellPlaced, Exists
    <3>4. QED
      BY <1>1, <3>1, <3>2, <3>3
  <2>3. CountersMatch'
    <3>1. \A k, x : Voters(k, x)' = Voters(k, x)
      BY DEF Voters
    <3>2. Voters(n, 1) = {} /\ Voters(n, -1) = {}
      BY <1>1 DEF IInv, StoreInv, NoStrayVotes, Voters
    <3>3. Cardinality({}) = 0
      BY FS_EmptySet
    <3>4. ASSUME NEW k \in Id, Exists(k)'
          PROVE  /\ comments'[k].up = Cardinality(Voters(k, 1)')
                 /\ comments'[k].down = Cardinality(Voters(k, -1)')
      <4>1. CASE k = n
        BY <1>2, <1>3, <3>1, <3>2, <3>3, <4>1
      <4>2. CASE k # n
        BY <1>2, <1>4, <3>1, <3>4, <4>2 DEF CountersMatch, IInv, StoreInv
      <4>3. QED
        BY <4>1, <4>2
    <3>5. QED
      BY <3>4 DEF CountersMatch
  <2>4. NoStrayVotes'
    BY <1>4 DEF NoStrayVotes, IInv, StoreInv
  <2>5. OneLiveReply'
    <3>1. \A k \in Id : ~(/\ comments[k].status = "live" /\ comments[k].parent = r.parent
                         /\ r.parent # 0 /\ comments[k].user = r.user)
      BY <1>1, <1>3 DEF Rival
    <3>2. QED
      BY <1>1, <1>2, <1>3, <3>1 DEF OneLiveReply, IInv, StoreInv
  <2>6. QED
    BY <2>1, <2>2, <2>3, <2>4, <2>5 DEF StoreInv
<1>7. ASSUME NEW s \in Tx \ {t} PROVE Kept(s)
  <2> DEFINE j == call[s].target
  <2>1. call'[s] = call[s] /\ write'[s] = write[s] /\ PairInv(s, t) /\ PairInv(t, s)
    BY DEF OthersStay, IInv
  <2>2. lock[s] # "none" => j \in Id /\ Exists(j) /\ comments'[j] = comments[j]
    BY <1>1, <1>2, LockedExists
  <2>3. InReply(s) => SameRow(j)
    BY <2>2, Parts DEF SameRow, LockOK
  <2>4. Probed(s) /\ ~HasReplies(j) => ~HasReplies(j)'
    <3> SUFFICES ASSUME Probed(s), ~HasReplies(j) PROVE \A k \in Id : Exists(k)' => comments'[k].parent # j
      BY <2>1 DEF HasReplies
    <3>1. lock[s] = "update" /\ j \in Id
      BY <2>2, Parts DEF LockOK, Probed, InDelete
    <3>2. j # i
      <4>1. CASE call[t].op = "root"
        BY <1>3, <3>1, <4>1 DEF Id
      <4>2. CASE call[t].op = "reply"
        <5>1. lock[t] = "key_share"
          BY <4>2, Parts DEF LockOK, InReply, Inserted
        <5>2. QED
          BY <2>1, <3>1, <5>1 DEF PairInv, Conflicts
      <4>3. QED
        BY <1>1, <4>1, <4>2
    <3>3. QED
      BY <1>2, <1>3, <1>4, <3>2 DEF HasReplies
  <2>5. Balloted(s) => Exists(j)'
    BY <1>4, <2>1, LockedExists DEF Exists
  <2>6. pc[s] = "upsert" => (Exists(j)' => Exists(j) \/ seen[s].prior = votes[call[s].user][j])
    <3>1. pc[s] = "upsert" => j \in Id
      BY Parts, StepTypes
    <3>2. pc[s] = "upsert" /\ j = n => seen[s].prior = votes[call[s].user][j]
      BY <2>1 DEF PairInv
    <3>3. QED
      BY <1>4, <2>1, <3>1, <3>2 DEF Exists
  <2>7. Inserted(s) => ~Exists(write[s].id)'
    <3>1. Inserted(s) => write[s].id # n /\ write[s].id \in Id /\ ~Exists(write[s].id)
      BY <2>1, Parts DEF PairInv, WriteOK
    <3>2. QED
      BY <1>2, <2>1, <3>1 DEF Exists
  <2>8. Inserted(s) /\ call[s].op = "reply" => \A k \in Id : ~Rival(s, comments'[k])
    <3>1. write[t].row = r
      BY Parts DEF WriteOK
    <3>2. Inserted(s) /\ call[s].op = "reply" => ~Rival(s, r)
      BY <2>1, <3>1 DEF PairInv
    <3>3. Inserted(s) /\ call[s].op = "reply" => \A k \in Id : ~Rival(s, comments[k])
      BY Parts DEF WriteOK
    <3>4. QED
      BY <1>2, <3>2, <3>3
  <2>9. QED
    BY <2>2, <2>3, <2>4, <2>5, <2>6, <2>7, <2>8 DEF Kept
<1>8. QED
  BY <1>6, <1>7, TableStep

LEMMA CommitEraseInv ==
  ASSUME IInv, NEW t \in Tx, TypeOK', Closed(t), OthersStay(t), UNCHANGED nextId, Erasing(t),
         call[t].target \in Id, comments' = [comments EXCEPT ![call[t].target] = Absent],
         votes' = [u \in User |-> [votes[u] EXCEPT ![call[t].target] = 0]]
  PROVE  IInv'
<1> DEFINE i == call[t].target
<1>1. ~HasReplies(i) /\ Owns(t) /\ lock[t] = "update"
  <2>1. call[t].op = "delete" /\ pc[t] = "commit" /\ write[t] # NoWrite
        /\ write[t].row.status = "absent"
    BY DEF Erasing, NoWrite
  <2>2. Buried(comments[i]).status # "absent"
    BY Parts DEF Buried, TypeOK, Row
  <2>3. QED
    BY <2>1, <2>2, Parts DEF WriteOK, LockOK, InDelete
<1>2. Exists(i) /\ i < nextId
  BY <1>1 DEF Owns, Exists, IInv, StoreInv, RowsOK
<1>3. (\A k \in Id : k # i => comments'[k] = comments[k]) /\ comments'[i] = Absent
  BY Parts DEF TypeOK
<1>4. \A u \in User : votes'[u][i] = 0 /\ \A k \in Id : k # i => votes'[u][k] = votes[u][k]
  BY Parts DEF TypeOK
<1>5. \A k \in Id : (Exists(k)' <=> Exists(k) /\ k # i)
  BY <1>3 DEF Exists, Absent
<1>6. StoreInv'
  <2>1. RowsOK'
    BY <1>2, <1>3, <1>5 DEF RowsOK, IInv, StoreInv
  <2>2. TreeOK'
    <3> SUFFICES ASSUME NEW k \in Id, Exists(k), k # i PROVE WellPlaced(k)'
      BY <1>5 DEF TreeOK
    <3>1. WellPlaced(k) /\ comments'[k] = comments[k]
      BY <1>3 DEF IInv, StoreInv, TreeOK
    <3>2. comments[k].parent = 0 \/ comments[k].parent \in Id
      BY Parts, ParentType
    <3>3. comments[k].parent # i
      BY <1>1 DEF HasReplies
    <3>4. comments[k].parent # 0 =>
            /\ comments'[comments[k].parent] = comments[comments[k].parent]
            /\ comments'[comments[k].parent].status # "absent"
      BY <1>3, <3>1, <3>2, <3>3 DEF WellPlaced, Exists
    <3>5. QED
      BY <3>1, <3>4 DEF WellPlaced, Exists
  <2>3. CountersMatch'
    <3>1. ASSUME NEW k \in Id, Exists(k)'
          PROVE  /\ comments'[k].up = Cardinality(Voters(k, 1)')
                 /\ comments'[k].down = Cardinality(Voters(k, -1)')
      <4>1. k # i /\ Exists(k) /\ comments'[k] = comments[k]
        BY <1>3, <1>5, <3>1
      <4>2. Voters(k, 1)' = Voters(k, 1) /\ Voters(k, -1)' = Voters(k, -1)
        BY <1>4, <4>1 DEF Voters
      <4>3. QED
        BY <4>1, <4>2 DEF CountersMatch, IInv, StoreInv
    <3>2. QED
      BY <3>1 DEF CountersMatch
  <2>4. NoStrayVotes'
    BY <1>4, <1>5 DEF NoStrayVotes, IInv, StoreInv
  <2>5. OneLiveReply'
    BY <1>3 DEF OneLiveReply, IInv, StoreInv, Absent
  <2>6. QED
    BY <2>1, <2>2, <2>3, <2>4, <2>5 DEF StoreInv
<1>7. ASSUME NEW s \in Tx \ {t} PROVE Kept(s)
  <2> DEFINE j == call[s].target
             u == call[s].user
  <2>1. call'[s] = call[s] /\ write'[s] = write[s]
    BY DEF OthersStay
  <2>2. j = i => lock[s] = "none" /\ ~InReply(s) /\ ~InDelete(s) /\ ~Probed(s)
    BY <1>1, AloneOnRow
  <2>3. lock[s] # "none" => j \in Id /\ comments'[j] = comments[j]
    BY <1>3, <2>2, LockedExists
  <2>4. InReply(s) => SameRow(j)
    BY <2>3, Parts DEF SameRow, LockOK
  <2>5. ~HasReplies(j) => ~HasReplies(j)'
    BY <1>3, <1>5, <2>1 DEF HasReplies
  <2>6. Balloted(s) => Exists(j)' /\ votes'[u][j] = votes[u][j]
    <3> SUFFICES ASSUME Balloted(s) PROVE Exists(j)' /\ votes'[u][j] = votes[u][j]
      OBVIOUS
    <3>1. ballot[s] = call[s].vote /\ call[s].vote \in {1, -1} /\ u \in User
      BY Parts, StepTypes DEF WriteOK, CallOK, Voting, Balloted, OpsOfStep
    <3>2. j # i
      BY <3>1 DEF IInv, PairInv
    <3>3. Exists(j) /\ j \in Id
      BY LockedExists
    <3>4. QED
      BY <1>4, <1>5, <2>1, <3>1, <3>2, <3>3 DEF Exists
  <2>7. pc[s] = "upsert" =>
          \/ votes'[u][j] = votes[u][j] /\ (Exists(j)' => Exists(j))
          \/ Exists(j) /\ ~Exists(j)' /\ j < nextId /\ votes'[u][j] = 0
    <3>1. pc[s] = "upsert" => j \in Id /\ u \in User
      BY Parts, StepTypes
    <3>2. j = i => ~Exists(j)'
      BY <1>3, <2>1 DEF Exists, Absent
    <3>3. j # i /\ j \in Id => (Exists(j)' => Exists(j))
      BY <1>5, <2>1 DEF Exists
    <3>4. QED
      BY <1>2, <1>4, <3>1, <3>2, <3>3
  <2>8. Inserted(s) => ~Exists(write[s].id)'
    <3>1. Inserted(s) => write[s].id \in Id /\ ~Exists(write[s].id)
      BY Parts DEF WriteOK
    <3>2. QED
      BY <1>3, <2>1, <3>1 DEF Exists, Absent
  <2>9. Inserted(s) /\ call[s].op = "reply" => \A k \in Id : ~Rival(s, comments'[k])
    <3>1. Inserted(s) /\ call[s].op = "reply" => \A k \in Id : ~Rival(s, comments[k])
      BY Parts DEF WriteOK
    <3>2. ~Rival(s, Absent)
      BY DEF Rival, Absent
    <3>3. QED
      BY <1>3, <3>1, <3>2
  <2>10. QED
    BY <2>3, <2>4, <2>5, <2>6, <2>7, <2>8, <2>9 DEF Kept
<1>8. QED
  BY <1>6, <1>7, TableStep

LEMMA CommitBuryInv ==
  ASSUME IInv, NEW t \in Tx, TypeOK', Closed(t), OthersStay(t), UNCHANGED <<votes, nextId>>,
         call[t].op = "delete", pc[t] = "commit", Owns(t), call[t].target \in Id,
         comments' = [comments EXCEPT ![call[t].target] = Buried(comments[call[t].target])]
  PROVE  IInv'
<1> DEFINE i   == call[t].target
           row == Buried(comments[i])
<1>1. Exists(i) /\ comments[i] \in Row
  BY Parts DEF Owns, Exists, TypeOK
<1>2. /\ row \in Row /\ row.status = "deleted" /\ row.user = comments[i].user
      /\ row.post = comments[i].post /\ row.parent = comments[i].parent
      /\ row.depth = comments[i].depth /\ row.up = comments[i].up /\ row.down = comments[i].down
  BY <1>1, RowTypes DEF Buried, Row
<1>3. \A s \in Tx \ {t} : call[s].target = i =>
        lock[s] = "none" /\ ~InReply(s) /\ ~InDelete(s) /\ ~Probed(s)
  <2>1. lock[t] = "update"
    BY Parts DEF LockOK, InDelete
  <2>2. QED
    BY <2>1, AloneOnRow
<1>4. \A s \in Tx \ {t} : Kept(s)
  BY <1>1, <1>2, <1>3, RewriteKept
<1>5. StoreInv'
  BY <1>1, <1>2, RewriteStore
<1>6. QED
  BY <1>4, <1>5, TableStep

(* The deltas VoteCommentTx adds are what one voter's change of mind does to *)
(* the number of votes of either value.                                      *)
LEMMA TallyCount ==
  ASSUME TypeOK, NEW u \in User, NEW i \in Id, NEW v \in {1, -1}, votes[u][i] # v,
         NEW x \in {1, -1}
  PROVE  Cardinality({w \in User : (IF w = u THEN v ELSE votes[w][i]) = x}) =
           Cardinality(Voters(i, x)) + Delta(x, votes[u][i], v)
<1> DEFINE old == Voters(i, x)
           new == {w \in User : (IF w = u THEN v ELSE votes[w][i]) = x}
<1>1. IsFiniteSet(old)
  BY FS_Subset DEF Voters
<1>2. Cardinality(old) \in Nat
  BY <1>1, FS_CardinalityType
<1>3. CASE x = v
  <2>1. new = old \cup {u} /\ u \notin old
    BY <1>3 DEF Voters
  <2>2. Cardinality(new) = Cardinality(old) + 1
    BY <1>1, <2>1, FS_AddElement
  <2>3. Delta(x, votes[u][i], v) = 1
    BY <1>3 DEF Delta
  <2>4. QED
    BY <2>2, <2>3
<1>4. CASE x # v /\ votes[u][i] = x
  <2>1. new = old \ {u} /\ u \in old
    BY <1>4 DEF Voters
  <2>2. Delta(x, votes[u][i], v) = -1
    BY <1>4 DEF Delta
  <2> HIDE DEF old, new
  <2>3. Cardinality(new) = Cardinality(old) - 1
    BY <1>1, <2>1, FS_RemoveElement
  <2>4. Cardinality(new) = Cardinality(old) + Delta(x, votes[u][i], v)
    BY <1>2, <2>2, <2>3
  <2>5. QED
    BY <2>4 DEF old, new
<1>5. CASE x # v /\ votes[u][i] # x
  <2>1. new = old
    BY <1>5 DEF Voters
  <2>2. Delta(x, votes[u][i], v) = 0
    BY <1>5 DEF Delta
  <2>3. Cardinality(old) = Cardinality(old) + 0
    BY <1>2
  <2>4. QED
    BY <2>1, <2>2, <2>3
<1>6. QED
  BY <1>3, <1>4, <1>5

LEMMA CommitVoteInv ==
  ASSUME IInv, NEW t \in Tx, TypeOK', Closed(t), OthersStay(t), UNCHANGED nextId,
         call[t].op = "vote", pc[t] = "commit", call[t].target \in Id,
         comments' = [comments EXCEPT ![call[t].target] =
                        Tallied(@, seen[t].prior, call[t].vote)],
         votes' = [votes EXCEPT ![call[t].user][call[t].target] = call[t].vote]
  PROVE  IInv'
<1> DEFINE i   == call[t].target
           u   == call[t].user
           row == Tallied(comments[i], seen[t].prior, call[t].vote)
<1>1. call[t].vote \in {1, -1} /\ u \in User
  BY Parts, StepTypes DEF CallOK, Voting
<1>2. /\ seen[t].prior = votes[u][i] /\ seen[t].prior # call[t].vote
      /\ comments[i].status = "live" /\ lock[t] = "no_key_update"
  BY Parts DEF SeenOK, WriteOK, LockOK, Balloted
<1>3. /\ comments[i] \in Row
      /\ row.status = comments[i].status /\ row.user = comments[i].user
      /\ row.post = comments[i].post /\ row.parent = comments[i].parent
      /\ row.depth = comments[i].depth
      /\ row.up = comments[i].up + Delta(1, votes[u][i], call[t].vote)
      /\ row.down = comments[i].down + Delta(-1, votes[u][i], call[t].vote)
  <2>1. comments[i] \in Row
    BY Parts DEF TypeOK
  <2>2. row = Tallied(comments[i], votes[u][i], call[t].vote)
    BY <1>2
  <2>3. QED
    BY ONLY <2>1, <2>2, TalliedFields
<1>4. (\A k \in Id : k # i => comments'[k] = comments[k]) /\ comments'[i] = row
  BY Parts DEF TypeOK
<1>5. \A w \in User, k \in Id :
        votes'[w][k] = IF w = u /\ k = i THEN call[t].vote ELSE votes[w][k]
  BY <1>1, Parts DEF TypeOK
<1>6. \A k \in Id :
        /\ (Exists(k)' <=> Exists(k)) /\ SameRow(k) /\ comments'[k].parent = comments[k].parent
  BY <1>3, <1>4 DEF SameRow, Exists
<1>7. StoreInv'
  <2>1. RowsOK'
    <3> SUFFICES ASSUME NEW k \in Id
                 PROVE  /\ ~Exists(k)' => comments'[k] = Absent
                        /\ Exists(k)' => k < nextId' /\ comments'[k].user \in User
      BY DEF RowsOK
    <3>1. /\ ~Exists(k) => comments[k] = Absent
          /\ Exists(k) => k < nextId /\ comments[k].user \in User
      BY DEF RowsOK, IInv, StoreInv
    <3>2. nextId' = nextId /\ (~Exists(k) => k # i)
      BY <1>2 DEF Exists
    <3>3. QED
      BY <1>4, <1>6, <3>1, <3>2 DEF SameRow
  <2>2. TreeOK'
    <3> SUFFICES ASSUME NEW k \in Id, Exists(k) PROVE WellPlaced(k)'
      BY <1>6 DEF TreeOK
    <3>1. WellPlaced(k)
      BY DEF IInv, StoreInv, TreeOK
    <3>2. comments[k].parent = 0 \/ comments[k].parent \in Id
      BY Parts, ParentType
    <3>3. comments[k].parent # 0 => /\ SameRow(comments[k].parent)
                                   /\ comments'[comments[k].parent].status # "absent"
      BY <1>6, <3>1, <3>2 DEF WellPlaced, Exists, SameRow
    <3>4. SameRow(k) /\ comments'[k].parent = comments[k].parent
      BY <1>6
    <3> DEFINE p == comments[k].parent
    <3>5. p # 0 => /\ Exists(p)'
                   /\ comments'[p].post = comments'[k].post
                   /\ comments'[p].user # comments'[k].user
                   /\ comments'[p].depth + 1 = comments'[k].depth
      BY <3>1, <3>3, <3>4 DEF WellPlaced, Exists, SameRow
    <3>6. /\ comments'[k].post \in Post
          /\ comments'[k].depth < CommentMaxNestingDepth
          /\ p = 0 => comments'[k].depth = 0
      BY <3>1, <3>4 DEF WellPlaced, SameRow
    <3>7. QED
      BY <3>4, <3>5, <3>6 DEF WellPlaced
  <2>3. CountersMatch'
    <3>1. ASSUME NEW k \in Id, Exists(k)'
          PROVE  /\ comments'[k].up = Cardinality(Voters(k, 1)')
                 /\ comments'[k].down = Cardinality(Voters(k, -1)')
      <4>1. comments[k].up = Cardinality(Voters(k, 1)) /\ comments[k].down = Cardinality(Voters(k, -1))
        BY <1>6, <3>1 DEF CountersMatch, IInv, StoreInv
      <4>2. CASE k = i
        <5>1. votes[u][k] # call[t].vote
          BY <1>2, <4>2
        <5>2. ASSUME NEW x \in {1, -1}
              PROVE  Cardinality(Voters(k, x)') =
                       Cardinality(Voters(k, x)) + Delta(x, votes[u][k], call[t].vote)
          <6>1. Voters(k, x)' =
                  {w \in User : (IF w = u THEN call[t].vote ELSE votes[w][k]) = x}
            BY <1>5, <4>2 DEF Voters
          <6> DEFINE ballotNow == call[t].vote
                     voter     == call[t].user
          <6>2. TypeOK /\ voter \in User /\ ballotNow \in {1, -1} /\ votes[voter][k] # ballotNow
            BY <1>1, <5>1, Parts
          <6>3. Voters(k, x)' =
                  {w \in User : (IF w = voter THEN ballotNow ELSE votes[w][k]) = x}
            BY <6>1
          <6> HIDE DEF ballotNow, voter
          <6>4. Cardinality({w \in User : (IF w = voter THEN ballotNow ELSE votes[w][k]) = x}) =
                  Cardinality(Voters(k, x)) + Delta(x, votes[voter][k], ballotNow)
            BY ONLY StoreAssumption, <6>2, k \in Id, x \in {1, -1}, TallyCount
          <6>5. QED
            BY <6>3, <6>4 DEF ballotNow, voter
        <5>3. /\ comments'[k].up = comments[k].up + Delta(1, votes[u][k], call[t].vote)
              /\ comments'[k].down = comments[k].down + Delta(-1, votes[u][k], call[t].vote)
          BY <1>3, <1>4, <4>2
        <5>4. QED
          BY <4>1, <5>2, <5>3
      <4>3. CASE k # i
        <5>1. Voters(k, 1)' = Voters(k, 1) /\ Voters(k, -1)' = Voters(k, -1)
          BY <1>5, <4>3 DEF Voters
        <5>2. QED
          BY <1>4, <4>1, <4>3, <5>1
      <4>4. QED
        BY <4>2, <4>3
    <3>2. QED
      BY <3>1 DEF CountersMatch
  <2>4. NoStrayVotes'
    <3>1. Exists(i)
      BY <1>2 DEF Exists
    <3>2. QED
      BY <1>5, <1>6, <3>1 DEF NoStrayVotes, IInv, StoreInv
  <2>5. OneLiveReply'
    <3>1. OneLiveReply
      BY DEF IInv, StoreInv
    <3>2. \A k \in Id : /\ comments'[k].status = comments[k].status
                       /\ comments'[k].user = comments[k].user
                       /\ comments'[k].parent = comments[k].parent
      BY <1>6 DEF SameRow
    <3>3. QED
      BY <3>1, <3>2 DEF OneLiveReply
  <2>6. QED
    BY <2>1, <2>2, <2>3, <2>4, <2>5 DEF StoreInv
<1>8. ASSUME NEW s \in Tx \ {t} PROVE Kept(s)
  <2> DEFINE j == call[s].target
             v == call[s].user
  <2>1. call'[s] = call[s] /\ write'[s] = write[s] /\ PairInv(s, t) /\ PairInv(t, s)
    BY DEF OthersStay, IInv
  <2>2. lock[s] # "none" => j \in Id /\ SameRow(j)
    BY <1>6, LockedExists
  <2>3. InReply(s) => SameRow(j)
    BY <2>2, Parts DEF LockOK
  <2>4. lock[s] \in {"no_key_update", "update"} => comments'[j] = comments[j]
    <3> SUFFICES ASSUME lock[s] \in {"no_key_update", "update"} PROVE comments'[j] = comments[j]
      OBVIOUS
    <3>1. j # i
      BY <1>2, <2>1 DEF PairInv, Conflicts
    <3>2. QED
      BY <1>4, <2>2, <3>1
  <2>5. ~HasReplies(j) => ~HasReplies(j)'
    BY <1>6, <2>1 DEF HasReplies
  <2>6. Voting(s) => v \in User /\ j \in Id /\ votes'[v][j] = votes[v][j]
    <3> SUFFICES ASSUME Voting(s) PROVE v \in User /\ j \in Id /\ votes'[v][j] = votes[v][j]
      OBVIOUS
    <3>1. call[s] \in Calls /\ call[s].op = "vote"
      BY Parts DEF Voting, CallOK
    <3>2. v \in User /\ j \in Id
      BY <3>1, CallTypes
    <3>3. ~(v = u /\ j = i)
      BY <2>1 DEF PairInv, Voting, SameBallot
    <3>4. QED
      BY <1>5, <3>2, <3>3
  <2>7. Balloted(s) => Exists(j)' /\ votes'[v][j] = votes[v][j]
    <3>1. Balloted(s) => Voting(s) /\ Exists(j)
      BY LockedExists DEF Balloted, Voting
    <3>2. QED
      BY <1>6, <2>1, <2>6, <3>1 DEF Exists
  <2>8. pc[s] = "upsert" => votes'[v][j] = votes[v][j] /\ (Exists(j)' => Exists(j))
    <3>1. pc[s] = "upsert" => Voting(s)
      BY Parts DEF CallOK, OpsOfStep, Voting
    <3>2. QED
      BY <1>6, <2>1, <2>6, <3>1 DEF Exists
  <2>9. Inserted(s) => ~Exists(write[s].id)'
    <3>1. Inserted(s) => write[s].id \in Id /\ ~Exists(write[s].id)
      BY Parts DEF WriteOK
    <3>2. QED
      BY <1>6, <2>1, <3>1 DEF Exists
  <2>10. Inserted(s) /\ call[s].op = "reply" => \A k \in Id : ~Rival(s, comments'[k])
    <3>1. Inserted(s) /\ call[s].op = "reply" => \A k \in Id : ~Rival(s, comments[k])
      BY Parts DEF WriteOK
    <3>2. QED
      BY <1>6, <3>1 DEF Rival, SameRow
  <2>11. QED
    BY <2>3, <2>4, <2>5, <2>7, <2>8, <2>9, <2>10 DEF Kept
<1>9. QED
  BY <1>7, <1>8, TableStep

LEMMA CommitInv == ASSUME IInv, NEW t \in Tx, Commit(t) PROVE IInv'
<1>1. TypeOK' /\ Closed(t) /\ OthersStay(t) /\ UNCHANGED nextId
  BY CommitEffect
<1>2. CASE UNCHANGED store
  <2>1. TxInv(t)' /\ \A s \in Tx : PairInv(s, t)' /\ PairInv(t, s)'
    BY <1>1, ClosedInv, ClosedHarmless, HarmlessPairs
  <2>2. nextId <= nextId'
    BY <1>1, Parts
  <2>3. QED
    BY <1>1, <1>2, <2>1, <2>2, QuietStep
<1>3. QED
  BY <1>1, <1>2, CommitEffect, CommitInsertInv, CommitEraseInv, CommitBuryInv, CommitVoteInv

-----------------------------------------------------------------------------
(* Every step *)

LEMMA WorkInv == ASSUME IInv, NEW t \in Tx, Work(t) PROVE IInv'
<1>1. CASE CountRoots(t) \/ LockParent(t) \/ Insert(t)
  BY <1>1, CountRootsInv, LockParentInv, InsertInv
<1>2. CASE LockTarget(t) \/ Probe(t) \/ DeleteLeaf(t) \/ SoftDelete(t)
  BY <1>2, LockTargetInv, ProbeInv, DeleteLeafInv, SoftDeleteInv
<1>3. CASE UpdateComment(t)
  BY <1>3, UpdateCommentInv
<1>4. CASE TakeAdvisory(t) \/ ReadPrior(t) \/ Upsert(t) \/ Tally(t)
  BY <1>4, TakeAdvisoryInv, ReadPriorInv, UpsertInv, TallyInv
<1>5. CASE Commit(t)
  BY <1>5, CommitInv
<1>6. QED
  BY <1>1, <1>2, <1>3, <1>4, <1>5 DEF Work

LEMMA AbortInv ==
  ASSUME IInv, NEW t \in Tx, ConnectionLost(t) \/ DeadlockAbort(t) PROVE IInv'
<1>1. TypeOK'
  BY Parts, AbortStep
<1>2. Rollback(t, "internal") /\ nextId <= nextId'
  BY Parts DEF ConnectionLost, DeadlockAbort
<1>3. QED
  BY <1>1, <1>2, RollbackInv

LEMMA StutterInv == ASSUME IInv, UNCHANGED vars PROVE IInv'
<1>1. TypeOK'
  BY DEF IInv, vars, TypeOK
<1>2. StoreInv'
  <2>1. comments' = comments /\ votes' = votes /\ nextId' = nextId
    BY DEF vars
  <2>2. StoreInv
    BY DEF IInv
  <2>3. RowsOK'
    BY <2>1, <2>2 DEF StoreInv, RowsOK, Exists
  <2>4. TreeOK'
    BY <2>1, <2>2 DEF StoreInv, TreeOK, WellPlaced, Exists
  <2>5. CountersMatch'
    BY <2>1, <2>2 DEF StoreInv, CountersMatch, Voters, Exists
  <2>6. NoStrayVotes'
    BY <2>1, <2>2 DEF StoreInv, NoStrayVotes, Exists
  <2>7. OneLiveReply'
    BY <2>1, <2>2 DEF StoreInv, OneLiveReply
  <2>8. QED
    BY <2>3, <2>4, <2>5, <2>6, <2>7 DEF StoreInv
<1>3. ASSUME NEW t \in Tx PROVE TxInv(t)'
  <2>1. TxInv(t)
    BY DEF IInv
  <2>2. CallOK(t)' /\ LockOK(t)'
    BY <2>1 DEF vars, TxInv, CallOK, LockOK, Voting, InReply, InDelete, Balloted
  <2>3. SeenOK(t)'
    BY <2>1 DEF vars, TxInv, SeenOK, InReply, InDelete, Probed, Balloted, Exists, HasReplies
  <2>4. WriteOK(t)'
    BY <2>1 DEF vars, TxInv, WriteOK, Inserted, Balloted, Owns, HasReplies, Exists, Rival, NewRow
  <2>5. QED
    BY <2>2, <2>3, <2>4 DEF TxInv
<1>4. ASSUME NEW s \in Tx, NEW t \in Tx, s # t PROVE PairInv(s, t)'
  <2>1. PairInv(s, t)
    BY <1>4 DEF IInv
  <2>2. QED
    BY <2>1 DEF vars, PairInv, Inserted, Voting, Erasing, SameBallot, Rival
<1>5. QED
  BY <1>1, <1>2, <1>3, <1>4 DEF IInv

LEMMA InitInv == Init => IInv
<1> SUFFICES ASSUME Init PROVE IInv
  OBVIOUS
<1>1. TypeOK
  BY InitType
<1>2. \A i \in Id : comments[i] = Absent /\ ~Exists(i)
  BY DEF Init, Exists, Absent
<1>3. StoreInv
  <2>1. RowsOK /\ TreeOK /\ CountersMatch
    BY <1>2 DEF RowsOK, TreeOK, CountersMatch
  <2>2. NoStrayVotes
    BY DEF NoStrayVotes, Init
  <2>3. OneLiveReply
    BY <1>2 DEF OneLiveReply, Absent
  <2>4. QED
    BY <2>1, <2>2, <2>3 DEF StoreInv
<1>4. ASSUME NEW t \in Tx
      PROVE  /\ pc[t] = "idle" /\ call[t] = NoCall /\ lock[t] = "none"
             /\ write[t] = NoWrite /\ ballot[t] = 0
  BY DEF Init
<1>5. ASSUME NEW t \in Tx PROVE TxInv(t)
  BY <1>4 DEF TxInv, CallOK, OpsOfStep, LockOK, SeenOK, WriteOK, Voting, InReply, InDelete,
              Probed, Balloted, Inserted, NoCall
<1>6. ASSUME NEW s \in Tx, NEW t \in Tx PROVE PairInv(s, t)
  BY <1>4 DEF PairInv, Conflicts, Inserted, Voting, Erasing, NoCall
<1>7. QED
  BY <1>1, <1>3, <1>5, <1>6 DEF IInv

LEMMA NextInv == IInv /\ [Next]_vars => IInv'
<1> SUFFICES ASSUME IInv, [Next]_vars PROVE IInv'
  OBVIOUS
<1>1. CASE UNCHANGED vars
  BY <1>1, StutterInv
<1>2. ASSUME NEW t \in Tx, Begin(t) \/ Work(t) \/ ConnectionLost(t) \/ DeadlockAbort(t)
      PROVE  IInv'
  BY <1>2, BeginInv, WorkInv, AbortInv
<1>3. QED
  BY <1>1, <1>2 DEF Next

(* In every interleaving of any number of calls, each transaction's picture *)
(* of the rows it has locked stays true and the tables stay consistent.    *)
THEOREM StoreSafe == Spec => []IInv
  BY InitInv, NextInv, PTL DEF Spec

(* Replies hang under existing comments of their post at the right depth,   *)
(* one live one per user and comment, for any number of concurrent calls.  *)
THEOREM ThreadsSafe == Spec => []ThreadsOK
<1>1. IInv => ThreadsOK
  BY DEF IInv, StoreInv, ThreadsOK
<1>2. QED
  BY <1>1, StoreSafe, PTL

(* The vote counters are the stored votes, whatever voters, authors and     *)
(* deletions do at once.                                                   *)
THEOREM CountersSafe == Spec => []CountersMatch
<1>1. IInv => CountersMatch
  BY DEF IInv, StoreInv
<1>2. QED
  BY <1>1, StoreSafe, PTL
=============================================================================
