SPECIFICATION Spec
CONSTANTS
  a = a
  b = b
  j = j
  k1 = k1
  k2 = k2
  Clients = {a, b}
  Cells = {k1}
  Writes <- SameCell
  Early = {a, b}
  MaxEdits = 2
  MaxRead = 1
  UpCap = 4
  DownCap = 9
  Interrupts = FALSE
  Resizes = {}
  None = None
INVARIANT MasterCopy
