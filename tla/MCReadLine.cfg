SPECIFICATION Spec
CONSTANTS
  CRT_ROWS = 3
  CRT_COLS = 2
  Glyphs = {32, 62, 111, 120, 127}
  Colours = {0, 4}
  BootGlyphs = {32, 111}
  BUFLEN = 4
  Prompt <- MCPrompt
  InputChars = {8, 9, 13, 120, 127}
  OutputChars = {8, 9, 10, 13, 111}
INVARIANTS
  LineIsString
  ScreenShowsLine
PROPERTY
  ImplementsTerminal
