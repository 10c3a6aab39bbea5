SPECIFICATION Spec
CONSTANTS
  Threads = {t1, t2}
  NumRows = 3
  NumCols = 3
  Chars = {char}
  MaxSets = 1
  None = None
PROPERTY StoredAsAsked
