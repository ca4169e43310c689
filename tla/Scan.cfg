SPECIFICATION ScanSpec
CONSTANTS
  Period = 6
  Costs = {1, 2, 4}
  Wrap = 77
  Lines = 5
  Visible = 3
  Rows = 6
INVARIANTS LineRate FramesInStep
PROPERTIES RowsFresh
