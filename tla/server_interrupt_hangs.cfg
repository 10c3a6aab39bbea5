SPECIFICATION FairSpec
CONSTANTS
  c1 = c1
  c2 = c2
  c3 = c3
  Conns <- ConnsThree
  MaxClients = 2
  FDs <- Descriptors
  SetRequests <- InsideOrOut
  NumRows = 1
  NumCols = 1
  MaxSets = 0
  SleepCovers = TRUE
  Interrupts = TRUE
  None = None
  Main = Main
  Handler = Handler
CHECK_DEADLOCK FALSE
PROPERTY InterruptTerminates
