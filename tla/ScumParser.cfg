SPECIFICATION Spec
CONSTANTS
  Star = star
  Open = open
  Image = image
  Close = close
  Code = code
  NoTag = none
  Tag <- MCTag
  OpenID <- MCOpenID
  CloseID <- MCCloseID
  Greedy <- MCGreedy
  Width <- MCWidth
  Setting <- MCSetting
  MaxTokens = 5
INVARIANTS
  TypeOK SerializedAsParsed NoTagInItself InBounds TextAccounted LimitsKept WellNested
  WarningsReported PoolIsClean
