\* Lines that end before the screen does.
SPECIFICATION Spec
CONSTANTS
  a = a
  b = b
  p = p
  W = 3
  H = 3
  MaxLine = 2
  HistMax = 2
  Chars <- MCChars
  Typed <- MCTyped
  Blank = blank
  Newline = newline
  Nul = nul
  Prompt <- MCPrompt
  Banner <- MCBanner
  Report <- MCReport
  Outputs <- MCOutputs
  MaxRuns = 3
  MaxReports = 1
  Fits = TRUE
INVARIANTS EditorTypeOK ScreenShowsLine HistoryIsRecent
PROPERTY ImplementsEditedLine
SYMMETRY Symmetry
CHECK_DEADLOCK FALSE
