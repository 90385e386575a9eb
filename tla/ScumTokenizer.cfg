SPECIFICATION Spec
CONSTANTS
  Byte <- MCByte
  NoByte = none
  WordByte <- MCWordByte
  Job <- MCJob
  MaxLen = 6
INVARIANTS
  TypeOK TokensTile StatsMatch GreedyBodies AttributesWellFormed EscapedIsText FitsParser
PROPERTIES MarkupReported AlwaysMovesOn
