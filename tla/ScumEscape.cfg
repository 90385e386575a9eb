SPECIFICATION Spec
CONSTANTS
  Byte <- MCByte
  NoByte = none
  WordByte <- MCWordByte
  Job <- MCFourSymbolsJob
  MaxLen = 6
INVARIANTS EscapeProtects
