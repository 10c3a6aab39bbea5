SPECIFICATION Spec
CONSTANTS
  a = a
  b = b
  j = j
  k1 = k1
  k2 = k2
  Clients = {a, b, j}
  Cells = {k1}
  Writes <- OneAuthorOfThree
  Early = {a}
  MaxEdits = 1
  MaxRead = 1
  UpCap = 4
  DownCap = 9
  Interrupts = FALSE
  Resizes = {b, j}
  None = None
SYMMETRY Lookers
INVARIANT TypeOK
INVARIANT ConvergedAtRest
INVARIANT MasterInBetween
