--------------------------- MODULE CommentReading ---------------------------
(***************************************************************************)
(* Reading comments: QueryComments flattens the comments of a post in      *)
(* depth-first order, and PrepareCommentTree builds the tree again from    *)
(* that order and the depths alone.                                        *)
(*                                                                         *)
(* A query is one statement, so it sees the committed rows of one moment.  *)
(***************************************************************************)
EXTENDS CommentStore, SequencesExt

(* By popularity, oldest or newest first, ties by id: each is some ranking  *)
(* of the comments, and which one does not matter here.                    *)
Rankings == {ranking \in [Id -> Id] : \A i, j \in Id : ranking[i] = ranking[j] => i = j}

-----------------------------------------------------------------------------
(* QueryComments *)

(* ROW_NUMBER: the place of comment i among the comments of its post with   *)
(* the same parent.                                                        *)
RowNumber(ranking, i) ==
  Cardinality({j \in Id : /\ Exists(j)
                          /\ comments[j].post = comments[i].post
                          /\ comments[j].parent = comments[i].parent
                          /\ ranking[j] <= ranking[i]})

(* rnk: the row numbers from the root down to each comment, <<>> for one    *)
(* that is not on the page.                                                *)
Rnk(post, ranking, limit, offset) ==
  LET rnk[i \in Id] ==
        LET row   == comments[i]
            place == RowNumber(ranking, i)
        IN IF ~Exists(i) \/ row.post # post THEN <<>>
           ELSE IF row.parent = 0
           THEN IF place \in offset + 1..offset + limit THEN <<place>> ELSE <<>>
           ELSE IF rnk[row.parent] = <<>> THEN <<>> ELSE Append(rnk[row.parent], place)
  IN rnk

(* The order of arrays. *)
Precedes(a, b) ==
  \/ IsStrictPrefix(a, b)
  \/ \E k \in DOMAIN a \cap DOMAIN b : a[k] < b[k] /\ \A j \in 1..k - 1 : a[j] = b[j]

(* ORDER BY: the n-th of S is the one that n - 1 of them are before. *)
InOrder(S, Before(_, _)) ==
  [n \in 1..Cardinality(S) |-> CHOOSE i \in S : Cardinality({j \in S : Before(j, i)}) = n - 1]

QueryComments(post, ranking, limit, offset) ==
  LET rnk == Rnk(post, ranking, limit, offset)
  IN InOrder({i \in Id : rnk[i] # <<>>}, LAMBDA i, j : Precedes(rnk[i], rnk[j]))

-----------------------------------------------------------------------------
(* PrepareCommentTree *)

NoTree == [failed |-> FALSE, result |-> <<>>, replies |-> [i \in Id |-> <<>>], stack |-> <<>>]

(* stack holds the branch the last comment is on, from its root down. *)
KeepBranch(stack, d) == stack
CutBranch(stack, d)  == SubSeq(stack, 1, d)

Attach(tree, i) ==
  LET d == comments[i].depth
  IN IF tree.failed THEN tree
     ELSE IF d = 0 THEN [tree EXCEPT !.result = Append(@, i), !.stack = <<i>>]
     ELSE IF d > Len(tree.stack) THEN [tree EXCEPT !.failed = TRUE]
     ELSE [tree EXCEPT !.replies[tree.stack[d]] = Append(@, i),
                       !.stack = Append(CutBranch(@, d), i)]

PrepareCommentTree(rows) ==
  LET read[n \in 0..Len(rows)] == IF n = 0 THEN NoTree ELSE Attach(read[n - 1], rows[n])
  IN read[Len(rows)]

-----------------------------------------------------------------------------

MaxPage == 2   \* bound: size and offset of a page of roots

Ordered(S, ranking) == InOrder(S, LAMBDA i, j : ranking[i] < ranking[j])

(* comments_utils.go:21 and get_comments.go:102: whatever has been inserted *)
(* and deleted, a page of comments is read as the tree that is stored: it   *)
(* never fails, its roots are the ones of the page in order, and every     *)
(* comment has all its replies, in order, and nobody else's.  (Any table is *)
(* also reached with all connections lost, hence with no open call.)       *)
ReadAsStored ==
  (\A t \in Tx : pc[t] = "idle") =>
    \A p \in Post, ranking \in Rankings, limit \in 1..MaxPage, offset \in 0..MaxPage - 1 :
      LET rows    == QueryComments(p, ranking, limit, offset)
          tree    == PrepareCommentTree(rows)
          roots   == {i \in Id : Exists(i) /\ comments[i].post = p /\ comments[i].parent = 0}
          kids(i) == {j \in Id : Exists(j) /\ comments[j].parent = i}
      IN /\ ~tree.failed
         /\ tree.result = SubSeq(Ordered(roots, ranking), offset + 1,
                                 IF offset + limit < Cardinality(roots)
                                 THEN offset + limit ELSE Cardinality(roots))
         /\ \A i \in Id : tree.replies[i] =
              IF i \in Range(rows) THEN Ordered(kids(i), ranking) ELSE <<>>
         /\ Range(rows) = Range(tree.result) \cup UNION {kids(i) : i \in Range(rows)}
=============================================================================
