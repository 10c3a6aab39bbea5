SPECIFICATION BoundedSpec
CONSTANTS
  Sizes <- SomeSizes
  Windows <- SomeWindows
  UIntMod = 65536
  MaxDrift = 4
  Astray = 1
  None = None
CHECK_DEADLOCK FALSE
INVARIANT TypeOK
INVARIANT CursorOnCanvas
INVARIANT NeverAborts
INVARIANT PickerHasTarget
INVARIANT InfoTellsPlace
INVARIANT BarTellsTruth
