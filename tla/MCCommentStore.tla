--------------------------- MODULE MCCommentStore ---------------------------
(* CommentStore for TLC. *)
EXTENDS CommentStoreInv, CommentReading, CommentAnswers

(* Both legal vote values, and one of them with an illegal one. *)
Votes == {1, -1}
VoteAndZero == {1, 0}

TxUserSymmetry == Permutations(Tx) \cup Permutations(User)

(* The answer of a finished call decides no later step: states that differ  *)
(* in it alone are one state of a run, except for a corrupted one.          *)
ButAnswers == <<comments, votes, nextId, pc, call, lock, seen, write, ballot, NeverCorrupted>>

(* Bound: all calls run while at most two comment ids have been handed out, *)
(* and after that only root, reply and delete, with posts that exist and    *)
(* among comments nobody has voted on.                                      *)
ThenThreadsOnly ==
  nextId > 3 =>
    /\ \A t \in Tx : /\ call[t].op \notin {"vote", "edit"}
                     /\ call[t].post \in Post \cup {None}
    /\ \A u \in User, i \in Id : votes[u][i] = 0
=============================================================================
