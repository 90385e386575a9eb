SPECIFICATION Spec
CONSTANTS
  Tx = {t1, t2}
  User = {u1, u2}
  Post = {p1}
  PostArg = {p1, p2}
  MaxId = 4
  Body = {b1}
  None = None
  Ops = {"root", "reply", "delete", "edit", "vote"}
  VoteArg <- VoteAndZero
  CommentMaxNestingDepth = 3
  CommentMaxRootCountPerUser = 1
SYMMETRY TxUserSymmetry
VIEW ButAnswers
CONSTRAINT ThenThreadsOnly
INVARIANTS IInv ThreadsOK NeverCorrupted ReadAsStored
PROPERTIES OnlyAuthorErases NoReplyToDeleted BuriedForever AnswersHonest Atomic
