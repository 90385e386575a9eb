---------------------------- MODULE CommentBoard ----------------------------
(***************************************************************************)
(* What the comment store promises, with no transactions in sight: a board *)
(* of comments and votes on which every call takes effect in one step.     *)
(* Each action is the documented contract of one method of db.Store.       *)
(* CommentStore shows that the transactions and row locks of the code      *)
(* implement it.                                                           *)
(*                                                                         *)
(* The counters of a comment are not kept by the board: a vote sets them   *)
(* to a recount of the votes cast, so the implementation, which adds       *)
(* deltas, must agree with the recount at every vote.                      *)
(***************************************************************************)
EXTENDS Integers, FiniteSets

CONSTANTS
  User,                   \* accounts that may act
  Post,                   \* posts that exist
  MaxId,                  \* comment ids are 1..MaxId
  Body,                   \* texts a client may submit
  None,                   \* "no value"
  CommentMaxNestingDepth  \* the configured nesting limit

VARIABLES
  comments,  \* comments[i] is the row with id i; absent rows have status "absent"
  votes      \* votes[u][i] is 1, -1, or 0 when u has no vote on i

boardVars == <<comments, votes>>

Id == 1..MaxId

Absent == [status |-> "absent", user |-> None, post |-> None, parent |-> 0,
           depth |-> 0, up |-> 0, down |-> 0, body |-> None]

Exists(i) == comments[i].status # "absent"
Live(i)   == comments[i].status = "live"

(* A comment has replies while any row, soft-deleted ones included, names   *)
(* it as its parent.                                                       *)
HasReplies(i) == \E j \in Id : Exists(j) /\ comments[j].parent = i

Recount(u, i, v, x) ==
  Cardinality({w \in User : IF w = u THEN v = x ELSE votes[w][i] = x})

Init ==
  /\ comments = [i \in Id |-> Absent]
  /\ votes = [u \in User |-> [i \in Id |-> 0]]

-----------------------------------------------------------------------------

NewComment(u, p, parent, depth, b) ==
  [status |-> "live", user |-> u, post |-> p, parent |-> parent,
   depth |-> depth, up |-> 0, down |-> 0, body |-> b]

AddRoot(u) ==
  \E i \in Id, p \in Post, b \in Body :
    /\ ~Exists(i)
    /\ comments' = [comments EXCEPT ![i] = NewComment(u, p, 0, 0, b)]
    /\ UNCHANGED votes

(* A reply answers a live comment of somebody else on the same post, below *)
(* the nesting limit, and is the replier's only live reply to it.          *)
AddReply(u) ==
  \E i, q \in Id, b \in Body :
    /\ ~Exists(i)
    /\ Live(q)
    /\ comments[q].user # u
    /\ comments[q].depth + 1 < CommentMaxNestingDepth
    /\ \A j \in Id : ~(Live(j) /\ comments[j].user = u /\ comments[j].parent = q)
    /\ comments' = [comments EXCEPT ![i] =
                      NewComment(u, comments[q].post, q, comments[q].depth + 1, b)]
    /\ UNCHANGED votes

(* Erasing takes one row and its votes, and only when nothing answers it.  *)
Erase(u) ==
  \E i \in Id :
    /\ Live(i) /\ comments[i].user = u
    /\ ~HasReplies(i)
    /\ comments' = [comments EXCEPT ![i] = Absent]
    /\ votes' = [w \in User |-> [votes[w] EXCEPT ![i] = 0]]

(* Burying is for comments with replies, but the last reply may vanish while *)
(* the delete is under way, so the board lets any live comment be buried.   *)
Bury(u) ==
  \E i \in Id :
    /\ Live(i) /\ comments[i].user = u
    /\ comments' = [comments EXCEPT ![i].status = "deleted", ![i].body = "[deleted]"]
    /\ UNCHANGED votes

Edit(u) ==
  \E i \in Id, b \in Body :
    /\ Live(i) /\ comments[i].user = u
    /\ comments' = [comments EXCEPT ![i].body = b]
    /\ UNCHANGED votes

(* Casting the vote one already has is refused; any other vote replaces it *)
(* and the counters become the recount.                                    *)
Cast(u) ==
  \E i \in Id, v \in {1, -1} :
    /\ Live(i)
    /\ votes[u][i] # v
    /\ votes' = [votes EXCEPT ![u][i] = v]
    /\ comments' = [comments EXCEPT ![i].up   = Recount(u, i, v, 1),
                                    ![i].down = Recount(u, i, v, -1)]

Next == \E u \in User :
          AddRoot(u) \/ AddReply(u) \/ Erase(u) \/ Bury(u) \/ Edit(u) \/ Cast(u)

Spec == Init /\ [][Next]_boardVars
=============================================================================
