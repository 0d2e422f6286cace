SPECIFICATION CallSpec
CONSTANTS
  CR = CR
  LF = LF
  SnippetContext = 1
  ContextLines = 1
  LineCap = 4
  NUL = NUL
  Bad = Bad
  Quote = "quote"
  Backslash = "backslash"
  Control = "control"
  CharacterDevices <- MCDevices
  Numbers = {"7", "8"}
  Letter = a
  MaxText = 6
  MaxPart = 2
  MaxLines = 8
  MaxPath = 2
  MaxDepth = 2
  MaxGrants = 2
  MaxDenies = 1
  Words = {"terminal", "piped", "--", "--confine-fd", "7", "tty"}
  MaxWords = 7
  MaxTarget = 3
CHECK_DEADLOCK FALSE
INVARIANTS EditDoesAsAsked DiffTellsTheEdit ProgramFailsClosed ProfileSaysThePolicy ArgumentsDoAsAsked
