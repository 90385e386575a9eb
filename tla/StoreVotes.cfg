SPECIFICATION FairSpec
CONSTANTS
  Tx = {t1, t2, t3}
  User = {u1, u2}
  Post = {p1}
  PostArg = {p1}
  MaxId = 1
  Body = {b1}
  None = None
  Ops = {"root", "vote", "delete"}
  VoteArg <- Votes
  CommentMaxNestingDepth = 2
  CommentMaxRootCountPerUser = 1
INVARIANTS CountersMatch OnlyKnownDeadlock
PROPERTIES EveryCallReturns AnswersHonest
