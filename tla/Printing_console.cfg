\* One text at a time, keys in between, down to the page directory.
SPECIFICATION PrintingSpec
CONSTANTS
  Word = 5
  Cols = 3
  LastRow = 3
  Block = 13
  Cells = 16
  Start = 3
  Calls <- ConsoleCalls
  KeyCalls <- KeyboardCalls
  Newline <- NL
  ReportText <- Report
  ComeRound <- NoExtent
INVARIANTS
  PrintsItsOwn
  OldTextStays
  NumbersReadBack
  FieldsFilled
  PrintkAgrees
PROPERTIES
  PrintingEnds
\* The processor is lost at the page directory.
CHECK_DEADLOCK FALSE
