SPECIFICATION FairSpec
CONSTANTS
  a = a
  b = b
  j = j
  k1 = k1
  k2 = k2
  Clients = {a, j}
  Cells = {k1}
  Writes <- OneAuthor
  Early = {a}
  MaxEdits = 2
  MaxRead = 1
  UpCap = 1
  DownCap = 9
  Interrupts = FALSE
  Resizes = {j}
  None = None
PROPERTY KeysServed
