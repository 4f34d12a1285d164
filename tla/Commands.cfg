SPECIFICATION Spec
CONSTANTS
  Symbols <- MCSymbols
  TokenWords <- MCTokenWords
  MaxLen = 4
  MaxNumber = 22
CHECK_DEADLOCK FALSE
INVARIANTS
  NumbersRead
  TargetsAgree
  RepliesKeepAnswers
  ButtonsRead
