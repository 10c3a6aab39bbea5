SPECIFICATION Spec
CONSTANTS
  c1 = c1
  c2 = c2
  c3 = c3
  Conns <- ConnsThree
  MaxClients = 3
  FDs <- Descriptors
  SetRequests <- InsideOrOut
  NumRows = 1
  NumCols = 1
  MaxSets = 1
  SleepCovers = FALSE
  Interrupts = FALSE
  None = None
  Main = Main
  Handler = Handler
SYMMETRY ConnSymmetry
INVARIANT TypeOK
INVARIANT NoUseAfterFree
INVARIANT OneSlotEach
INVARIANT OwnDescriptor
INVARIANT BroadcastComplete
PROPERTY NoFalseReject
PROPERTY ImplementsTable
