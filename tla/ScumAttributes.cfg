SPECIFICATION Spec
CONSTANTS
  Star = star
  Open = open
  Image = image
  Close = close
  Code = code
  NoTag = none
  Tag <- LinkTag
  OpenID <- LinkOpenID
  CloseID <- LinkCloseID
  Greedy = {}
  Width <- LinkWidth
  Setting <- JustUnlimited
  MaxTokens = 6
INVARIANT AttributesContiguous
