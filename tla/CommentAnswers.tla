---------------------------- MODULE CommentAnswers ----------------------------
(***************************************************************************)
(* What a client is told: the handlers createComment, updateComment and    *)
(* deleteComment of src/api on top of CommentStore.  The handler returns   *)
(* the outcome of the one store call it makes as an HTTP status.  (No      *)
(* route leads to VoteCommentTx; its outcomes go by the same table.)       *)
(***************************************************************************)
EXTENDS CommentStore

(* opKindToHTTPStatus; corrupted and internal are the default. *)
opKindToHTTPStatus(kind) ==
  CASE kind = "not_found"              -> 404
    [] kind \in {"relation", "invalid"} -> 400
    [] kind = "deleted"                -> 410
    [] kind = "conflict"               -> 409
    [] kind = "permission"             -> 403
    [] kind = "constraint"             -> 422
    [] OTHER                           -> 500

createComment(kind) == IF kind = "ok" THEN 200 ELSE opKindToHTTPStatus(kind)
updateComment(kind) == IF kind = "ok" THEN 200 ELSE opKindToHTTPStatus(kind)
deleteComment(kind) == IF kind = "ok" THEN 204 ELSE opKindToHTTPStatus(kind)

Answer(op, kind) ==
  CASE op \in {"root", "reply"} -> createComment(kind)
    [] op = "edit"              -> updateComment(kind)
    [] op = "delete"            -> deleteComment(kind)
    [] op = "vote"              -> createComment(kind)

-----------------------------------------------------------------------------
(* Properties *)

(* What t was asked for is what the tables say after this step. *)
Done(t) ==
  LET c == call[t] IN
  CASE c.op \in {"root", "reply"} ->
         \E i \in Id : ~Exists(i) /\ comments'[i] = NewRow(t)
    [] c.op = "delete" -> comments'[c.target].status # "live"
    [] c.op = "edit"   -> comments'[c.target] = [comments[c.target] EXCEPT !.body = c.body]
    [] c.op = "vote"   -> votes'[c.user][c.target] = c.vote

(* What a status says of the comment that was asked for. *)
Reason(t, status) ==
  LET c == call[t]
      r == comments[c.target]
  IN CASE status = 404 -> ~Exists(c.target)
       [] status = 410 -> r.status = "deleted"
       [] status = 403 -> r.status # "absent" /\ r.user # c.user
       [] status = 400 -> \/ c.post \notin Post
                          \/ c.target # 0 /\ r.post # c.post
                          \/ c.op = "vote" /\ (c.vote \notin {1, -1} \/ ~Exists(c.target))
       [] status = 409 -> \/ \E i \in Id : Rival(t, comments[i])
                          \/ c.op = "vote" /\ votes[c.user][c.target] = c.vote
       [] status = 422 -> IF c.op = "root"
                          THEN RootCount(c.user, c.post) >= CommentMaxRootCountPerUser
                          ELSE r.user = c.user \/ r.depth + 1 = CommentMaxNestingDepth

(* A client that is told of success got what it asked for; one that is told *)
(* it was wrong (4xx) has changed nothing, and was wrong at that moment,    *)
(* however long before the deciding row was read; only after a 500 anything *)
(* can have happened.                                                      *)
AnswersHonest ==
  [][\A t \in Tx : pc[t] # "idle" /\ pc'[t] = "idle" =>
       LET status == Answer(call[t].op, result'[t])
       IN /\ status < 300 => Done(t)
          /\ status \in 400..499 => UNCHANGED store /\ Reason(t, status)]_vars
=============================================================================
