SPECIFICATION Spec
CONSTANTS
  a = a
  b = b
  j = j
  k1 = k1
  k2 = k2
  Clients = {a, j}
  Cells = {k1, k2}
  Writes <- LateAuthor
  Early = {a, j}
  MaxEdits = 2
  MaxRead = 2
  UpCap = 4
  DownCap = 9
  Interrupts = FALSE
  Resizes = {}
  None = None
INVARIANT EveryCommandCounts
