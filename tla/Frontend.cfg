SPECIFICATION Spec
CONSTANTS
  Keywords <- KeywordsUsed
  Names <- NamesUsed
  MaxErrors = 20
  LiteralMax = 255
  FloatExpMax = 6
  Files <- MCFiles
  ParseTokens <- MCParse
INVARIANT RoundTrip
INVARIANT ParserProgresses
INVARIANT NothingDropped
CHECK_DEADLOCK FALSE
