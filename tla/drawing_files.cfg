SPECIFICATION Spec
CONSTANTS
  Blank = Blank
  NL = NL
  None = None
  a = a
  b = b
  Chars <- TwoChars
  DEFAULT_HEIGHT = 2
  DEFAULT_WIDTH = 2
  Texts <- AnyTexts
  Argvs <- SomeArgvs
  Completions <- Typed
  IntMax = 2147483647
  PosixlyCorrect = FALSE
CHECK_DEADLOCK FALSE
INVARIANTS TypeOK JoinCopies ParsedAsMeant PosixParsedAsMeant
PROPERTIES SavedRowsComeBack LinesBecomeRows TrimIsTight StartCrops LoadsAbortOnlyEmpty
