SPECIFICATION PrintSpec
CONSTANTS
  Null = Null
  IntSize = 256
  MAXERROR = 7
  ErrorText <- MCErrorText
  ErrorWord <- MCErrorWord
  NullText <- MCNullText
  MaxWait = 2
  CprintfCalls <- Console
  SnprintfCalls <- AllDirectives
  Sizes = {0, 1, 3, 9, 20}
  Behind = 20
INVARIANT
  DashPadsRight
CHECK_DEADLOCK FALSE
