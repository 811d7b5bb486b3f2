SPECIFICATION FairSpec
CONSTANTS
  CRT_ROWS = 3
  CRT_COLS = 2
  Glyph <- MCGlyph
  Space = " "
  BUFLEN = 6
  MAXARGS = 3
  PROMPT <- MCPrompt
  Commands <- MCCommands
  TOOMANY <- MCTooMany
  UNKNOWN <- MCUnknown
INVARIANTS TypeOK ScreenShowsLine ReturnedLineIsWhole ArgumentsAreWords
PROPERTY PromptReturns
