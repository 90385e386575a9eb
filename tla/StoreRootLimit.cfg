SPECIFICATION Spec
CONSTANTS
  Tx = {t1, t2}
  User = {u1}
  Post = {p1}
  PostArg = {p1}
  MaxId = 2
  Body = {b1}
  None = None
  Ops = {"root"}
  VoteArg = {}
  CommentMaxNestingDepth = 2
  CommentMaxRootCountPerUser = 1
INVARIANTS RootLimit
